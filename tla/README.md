# A TLA+ model of go-fsimpl

go-fsimpl is a set of `io/fs` filesystems over remote backends: Vault, Consul,
the secret and metadata services of AWS and Google Cloud, object stores, HTTP
and git.  This directory has TLA+ modules of the parts whose correctness
depends on the order in which things happen, configurations that check them
with TLC, and theorems about them with proofs for TLAPS.

To check a model: `tlc -config <run>.cfg <module>` with the module and the run
of the tables below.  To check the proofs: `tlapm <module>Proofs.tla`.

## Inventory

| Part (under `src/`) | State it keeps | Operations | What is hard | What makes it correct |
|---|---|---|---|---|
| `vaultfs`: handles, shared client | `refCountedClient.refs`, the client's token; per handle `closed`, `mountInfo`, `body`, `children`, `diridx` | `Open`, `ReadFile`, `Read`, `Stat`, `ReadDir`, `Close`, `WithAuthMethod` | handles of several goroutines share one count and one token; login, request and revocation are round trips; `ReadDir` and `ReadFile` open handles of their own | the count is exact; a token is given up with the last handle, not before; none is leaked; a logout is the one that the token's method asks for |
| `vaultfs`: mounts, requests | `mountInfo` | `getMountInfo`, `request`, `list` | nested and malformed mounts, in the order of a Go map | the innermost mount; a request addresses the file it is for |
| `vaultfs` (deprecated) and `vaultfs/vaultauth` auth methods | `chosen` | `Login`, `Logout` | several methods tried in turn; a second login after a logout | one login at most; a token after each |
| metadata of instances (`awsimdsfs`, `gcpmetafs`) | what the code knows by heart: which paths are directories | `list`, `getValue`, the walks of callers | documents that come and go, listings that look like documents, names that are refused | a walk comes to every document |
| names of objects (`awssmfs`, `awssmpfs`, `blobfs`, `consulfs`, `gcpsmfs`) | `root`, `base`, `project`; per handle `root`, `name` | `Open`, `Sub`, `ReadFile`, `ReadDir`, and `Read`, `Stat`, `ReadDir` of handles | stores without directories, keys that begin with other keys, five ways to put a path together | every method is about the same object and says the same of it |
| clients of the cloud services | the client, the HTTP client, the metadata filesystem | `getClient`, `With...` | made at the first use, without synchronisation, and copied by derivation | a call gets the client that its filesystem was given |
| `awsimdsfs`, `awssmfs`, `awssmpfs`, `gcpmetafs` directories | `children`, `diroff` | `list`/`populateChildren`, `ReadDir` | listings in pages, repeated names, children whose `Stat` fails | each name once, in order, and nothing missing |
| `gcpsmfs` listing | `children` | `list`, `ReadDir` | a bounded pool of goroutines, each with two concurrent requests; the first error cancels the rest | complete, or the error that was the cause |
| `gcpsmfs` handles and cache | two `sync.Map`s; per handle `content`, `modTime` | `Read`, `Stat`, `WithCache` | concurrent misses, rotation of the secret between two requests | a handle does not change; without the cache rotations are seen |
| `ReadDir` cursors (all of the above, `consulfs`, `internal/billyadapter`) | `diroff`, `diridx` | `ReadDir(n)` | machine integers; a page that fails | the pages add up to the directory |
| handles of an object (`awssmfs`, `awssmpfs`, `consulfs`, `awsimdsfs`, `gcpmetafs`) | `fi`, `body` | `Read`, `Stat`, `Close` | info and content loaded by either; a second request tells a directory from nothing | size and content of one version; a directory is one |
| `consulfs` filesystems | client, `config`, `header`, `token` | `With...`, `Open`, `initClient` | derived filesystems share the client and the configuration; unsynchronised initialisation | a request carries what its filesystem was given |
| `blobfs` | a bucket's iterator | `ReadDir`, `Stat`, `Read` | an error or a marker in the middle | what the pages give adds up |
| `httpfs` | `body`, `fi`; headers shared by derived filesystems | `Read`, `Stat`, `WithHeader` | fallback from HEAD to GET; `fi` of responses that failed; aliasing | no response stays open; the info of a success |
| `gitfs`, `billyadapter` | the lazily cloned repository, an authenticator | `Open`, `ReadDir`, `clone`, `Authenticate` | the remote changes between the requests of a clone; concurrent first `Open`s; methods tried in turn | one clone, of the default branch; authenticated if it can be |
| `tracefs` | none but the wrapped file | every method of `fs.FS` and `fs.File` | must not change what it wraps, also on errors | it says what is wrapped says, and has the methods of what is wrapped |
| `FSMux`, `autofs`, extensions, `filefs`, `internal`, `examples` | a map of providers; none | `Add`, `Lookup`, `With...` | little: pure or filled at `init` | not modelled |

A filesystem is a value; `WithContext`, `WithHeader`, `WithAuthMethod` and the
like return copies, which is where several filesystems come to share a client,
a cache or a header map.  The parts call each other only within a package; the
outside of each package is `io/fs` on one side and a client of a service on the
other.  That other side is the environment of every model here: a server that
may answer, refuse or be lost.

PROJECT.json lists the hazards of this code one by one, each at its line, with
the properties that are about it.

## Modules

| Module | Models | Composes |
|---|---|---|
| `VaultLease` | abstract: one token that the open files share | |
| `VaultFS` | `vaultFS`, `vaultFile`, `refCountedClient`, the auth methods as `vaultfs` sees them, the server's tokens | implements `VaultLease` |
| `VaultAuth` | the composite and the deprecated environment auth methods | |
| `VaultMounts` | the search for a mount, the paths of requests | |
| `DirStream` | abstract: what `ReadDir` promises | |
| `DirCursor` | the clamped cursor | implements `DirStream` |
| `LoopCursor` | the looping cursor of `vaultfs` and `consulfs` | |
| `MachineInts` | `int`, its width a constant, and the sizes of pages | extended by both cursors |
| `PagedDir` | listing, populating, sorting and paging a directory | |
| `BlobDir` | the iterator of `blobfs` and the pages made of it | |
| `GcpList` | the concurrent listing of `gcpsmfs` | |
| `GcpCache` | handles of a secret and the cache they share | |
| `RemoteFile` | `Read` and `Stat` of the other handles of an object | |
| `HttpFile` | `Read`, `Stat` and `Close` of `httpfs` | |
| `GitFS` | the lazy clone, the authenticators, the remote | |
| `ConsulClient` | derived `consulfs` filesystems and the clients they make | |
| `PathOps` | `path.Clean`, `Join`, `Base`, `Dir` | `NameOrder`; extended by `ObjectNames`, `ObjectSets` |
| `ObjectNames` | the objects that methods and handles of a store are about | |
| `SecretNames` | the same for `gcpsmfs`, which has projects | |
| `StoreNames` | what both promise | `ObjectNames`, `SecretNames` |
| `MetadataWalk` | a walk through the metadata of an instance | |
| `LazyClient` | `getClient` of the cloud services, in derived filesystems | |
| `HttpHeaders` | the headers that filesystems of `httpfs`, and of `vaultfs`, share | |
| `TraceFS` | the wrapper of a filesystem and of its handles | |
| `NameOrder` | names in order, and the sorting of listings | extended by `PagedDir`, `GcpList`, `PathOps` |
| `ObjectVersions` | the versions of an object that is replaced | extended by `GcpCache`, `RemoteFile`, `HttpFile` |
| `VaultFSProofs`, `GcpListProofs` | theorems | extend the module they are about |
| `VaultAuthProofs` | theorems | `VaultAuth`, `VaultMounts` |
| `NameOrderProofs` | what sorting gives | extended by `GcpListProofs`, `PageProofs`, `StoreProofs` |
| `StoreProofs` | theorems | `StoreNames` |
| `PageProofs` | theorems | `PagedDir`, `DirCursor`, `LoopCursor`, `BlobDir`, `MetadataWalk` |
| `HandleProofs` | theorems | `GcpCache`, `RemoteFile`, `HttpFile`, `TraceFS` |
| `FirstUseProofs` | theorems | `GitFS`, `ConsulClient`, `LazyClient`, `HttpHeaders` |
| `MCVaultFS`, `MCVaultAuth`, `MCVaultMounts`, `MCGcpList`, `MCObjectNames` | instances for TLC | extend the modules they are about |
| `ObjectSets`, `MetadataSets` | the keys, names and documents of the instances | |
| `MCPathsAndPages` | what a path stands for, and what is in a directory | `VaultMounts`, `StoreNames`, `MetadataWalk`, `PagedDir`, `DirCursor`, `LoopCursor`, `BlobDir` |
| `MCFirstUse` | what a first use makes and derived filesystems share | `GitFS`, `ConsulClient`, `LazyClient`, `HttpHeaders`, `VaultAuth` |
| `MCHandles` | handles that load what they show | `GcpCache`, `RemoteFile`, `HttpFile`, `TraceFS` |

The last three put components of one kind side by side: the variable `which`,
chosen at the start, says which of them is used, and the others stay in one of
their initial states.  No two of these packages interact in the code, so nothing
is lost by taking them one at a time.  Modules that are put side by side have names
of their own for their variables and actions (`InitLoop`, `pageFi`, `OpenConsul`), so
that the runs and the proofs extend all of them and speak of the same definitions.

### VaultFS

A goroutine (`pc`, `op`, `cur`, `dir`, `deferred`, `got`) runs one method of one
handle at a time.  Its steps are the points where others can see it: one atomic
operation on the count or the token, or one round trip.  `Close`, for example,
is `CloseLoad` and `CloseStore` (`closed.Load`, `closed.Store`), `CheckRef` and
`RemoveRef` (the two halves of `RemoveRef` in `client.go`), `CloseRefs` (the
read of the count and the choice of a logout, `LastClose`), `Logout` (the composite
method's), `Revoke` and `ClearToken`.
`getMountInfo` is `GetMountInfo`, then `Login`, `RereadToken` (only behind
`wrappedAuth`) and `SetToken` if there is no token, then `ReadMounts`.  A `Stat`
that fails may go on with a `LIST` (`Fail`).  The handles that `ReadDir` and
`ReadFile` open for themselves are the members of `Inner`; their deferred
`Close`s are `deferred`, run by `Unwind` when the method returns, whether it
failed or not.

`AuthOf` has the method of each handle's filesystem.  It is a kind, if the method keeps
nothing, or one of the `Chains`, the objects that try other methods in turn (`LoginInTurn`,
`TrySucceeds`, `TryLost`, `NoneLeft`) and remember which they chose (`chosen`): those
of `vaultauth` (`Composites`) and the deprecated `EnvAuthMethod`.  Several filesystems
may have one and the same.  A composite that is closed last runs the logout of the method it
chose; if it has chosen none, because no handle of it needed to log in, it does nothing,
and the token that stays in the client is `unclaimed`.  How a chain goes through
its methods is `VaultAuth`; here each of them may succeed or not.  If a chain has chosen a
method before, its `Login` makes no secret (`NoSecret`): behind `wrappedAuth` the client's
token is taken, and of a composite the nil secret is dereferenced, which ends the
call; the model goes on with a caller who recovers.

The server is `live` (the tokens it accepts) and `issued`; `lost` has the tokens
whose login reply or revocation never arrived, which no program can account
for.  Data is left out: what a secret contains, its mount, the entries of a
directory.  A handle is used by one goroutine at a time, as `io/fs` asks;
`ConcurrentClose` lifts that for `Close`, where the code takes care (by an atomic
flag) to say what a second call does.  No method is called on a handle that is
closed, except `Close`.

`VaultLease` is what the comment on `refCountedClient` promises.  `LeaseSpec`
maps it to `VaultFS` with `Holders` (the open handles, and those whose `Close`
has not finished with the token) and the client's token.  It holds for one
goroutine and methods that are not composite; with two goroutines the races described
under "Runs" break it, and with a composite method the logout that does nothing.

### VaultAuth

One goroutine; `method`, chosen at the start, is the composite or the deprecated
method and the chain of those it tries.  They are tried in turn by `TrySucceeds`,
`TryFails` and `NoneLeft`.  `chosen` outlives a logout, in both the composite and
the deprecated method, so a second login takes another path (`Login`).
`OpenHandle`, `Use` and `CloseHandle` are the handles that log in and out.

### VaultMounts

The loop over the mounts is one action per mount, in any order (`Visit`), then
`Visited`; `Again` is the next request of a handle, which keeps its mount, and `Retry`
the one after an error, which looks for it again. `ReadPath` and `ListPath` are the
two ways in which the code makes the path of a request.  Paths are sequences of
segments; what a byte-wise prefix would do is in `BytePrefixes`.

### DirCursor, LoopCursor, PagedDir, BlobDir

`DirCursor` is the arithmetic of `ReadDir` once the children are listed, with
wrap-around.  `LoopCursor` is the other form, together with a caller that stops at
io.EOF.  `PagedDir` is what the pages contain: an entry of the listing is a step
(`SkipSeen`, `AddChild`, `SkipGone`, `StatFails`), then `Populated` sorts and returns.
The four packages differ in what a listing is and in whether a child that is gone is
skipped (`skipsGone`, chosen at the start); a listing may be empty, which is an error
for the secret managers and an empty directory for the metadata services, so both are
allowed.  Names are numbers, for their order.  `BlobDir` keeps no children: a call
takes objects from the bucket's iterator, leaves out the markers of directories (which
count for `n`), and what it has taken when the iterator fails is `lost`.

### GcpList, GcpCache

`GcpList` has the goroutine of the listing (`pc`), one goroutine for each secret
(`Active`) and the two requests of each (`rpc`).  `inner` and `outer` are the errors
of the errgroups; a context is done when its group has an error.  `GcpCache` has
handles of one secret, and a choice at the start of which of them have the cache
and whether one goroutine uses them all; a part of a handle is checked in the cache, requested,
served with the version of that moment and stored, with anything in between.

### RemoteFile, HttpFile

`RemoteFile` is one handle: `Got` is a request for the object that fills in `fi`
and `body`, by `Read` or by `Stat`, and `Listed` the second request of a `Stat`
whose name has no object.  The kinds differ in who lists, in names that are
`known` for directories without a request, and in `Open(".")`, which presets
`fi`; a `Read` of such a handle still asks for the object, as the code does.  The
object and what is below its name come and go between any two requests.

`HttpFile` is one handle and its responses, numbered; `open` has those whose body
is not closed.  `Succeeds`, `FailsWith` and `NoResponse` are `request`; a `Stat` is
`StartStat`, a HEAD, after a 401 or 405 (`Refused`) a GET, and `StatReturns`, which
runs the deferred `Close`; a `Read` is `ReadPage`, and `ReadRest` once it has a body.

### GitFS, ConsulClient

`GitFS` has two filesystems, one derived from the other, and a frame for each
goroutine inside `clone`: `StartClone` (authenticator and the branch of the URL),
`Discover` (`refFromRemoteHead`, whose error is ignored), `Clone`, `TryDotGit` or
`CloneFails`, and `Store`.  The remote gets commits and another default branch in
between.  `One` has what each authenticator makes of the URL and the environment,
`AutoAuthenticator` the first that does not fail; which one a clone takes is part of
the model, but no property is about it.

`ConsulClient` has the fields of each `consulFS` that `With...` copies, and behind
references what the copies share: the configuration of a caller, which
`initClient` writes to (`WriteConfig`), and the clients it makes (`MakeClient`), whose headers `WithHeader`
adds to.  The header map that a client takes over from its filesystem is a copy
in the model.  Two goroutines do not run `initClient` with one configuration
(`Exclusive`), which would be a data race on it.

### ObjectNames, SecretNames, StoreNames

A store has keys and no directories.  `Sub`, `Open`, the `ReadDir` and `ReadFile` of
a filesystem and the `Read`, `Stat` and `ReadDir` of a handle each put together what
they ask the store for (`Handle`, `Address`, `ListPrefix`, `ReadFileAddress`) with the
operators of `PathOps`, which cut paths at their slashes: an empty first segment is
a slash at the beginning, an empty last one a slash at the end, and the
`TrimPrefix` of a dot is `TrimDot`.  `base` is history: the key that a root
should stand for.  `at`, in a reply, is the key that the call is about, so that
`Truth(at)` is what every method should say.  Listings are those of the services,
by prefix (`Listed`), or by prefix and delimiter (`DelimitedEntries`); in
`ChildEntries` a name that is both an object and the beginning of others may be
listed as either, whichever page comes first.  `Found` is the listing of one entry
with which `blobfs` looks for a directory: `Before` and `After` say which names sort
around it.

`Kept` has the names of a path by their positions instead of a recursion over its
segments, so that theorems can be about it.  `Dirs` are the directories that URLs
name.  `ObjectAssumption` says of them, and of the names that calls are given, what
`fs.ValidPath` and `New` leave: no empty segments and no dots.  Of keys it says that
names lead to them: an object whose key has two slashes in a row, or a dot for a
segment, has no name in any of these filesystems.

`SecretNames` has no paths to join.  `Resolved` is `getProjectAndFileName`: a name is
a secret of the URL's project, or, if the URL has none, a full name.  `StoreNames`
takes the two together: they promise the same, of objects and of secrets.

### MetadataWalk

The walk of a caller (`fs.WalkDir`): `left` are the directories that it has not
listed yet, and for each of them the names are asked for (`FetchNames`,
`FetchFails`, at the root `ListRoot`) and then the children made
(`PopulateChildren`, `PopulateFails`).  Documents may go in between (`Vanish`).
`IMDSDirectory` and `MetadataDirectory` are the lists of paths by which the code
tells directories, as they stand.  gcpmetafs knows the names in a service account
without asking, and those of `instance` if it gets no answer.

### LazyClient, HttpHeaders

`LazyClient` has the fields that a derived filesystem copies, and a goroutine's
way through `getClient`: the check of the field (`GetClient`), the configuration
with a request for the region (`Configure`), the assignment (`Create`) and the
read of the field that is returned (`Return`).  The bucket of `blobfs` is kept in such a
field too, but each scheme opens it with something else: `s3` asks the metadata
filesystem for a region and makes its own HTTP client, `gs` has the filesystem's HTTP client
and no region, and `azblob` takes neither (`Regional`, `OwnTransport`).  No caller can
give `blobfs` a bucket.  `given` is history: what callers have asked for.

`HttpHeaders` numbers the header maps, those of callers and those of `New`, so
that filesystems, and their callers, may have the same one (`Joined`).  In `vaultfs`
(`provider`) a map is the headers of an API client: `WithHeader` adds to them for every
filesystem that has the client, and `WithClient` and `WithConfig` put another client in
its place, without the headers given before.

### TraceFS

`can` is what the handles of the wrapped filesystem have besides `Read`, `Stat` and
`Close`; `WrapFile` chooses the type of the wrapper.  A call is `StartCall` and `FinishCall`;
`Says` is what becomes of the answer in between.

## Runs

| Run | Instance | Checks |
|---|---|---|
| `vault_serial` | 1 goroutine, 4 handles (2 inner), one with a plain method, the others with it or the deprecated one of the environment | `NoTokenLeak`, `LeaseSpec` |
| `vault_concurrent` | 2 goroutines, 2 handles, one with a wrapped method, one with the composite method of the environment | `TypeOK`, `RefsExact`, `NeverPanics`, `TokenHasOwner`, `TokenGivenUp` |
| `gcp_list` | 3 secrets, limit 2 | `ListingComplete`, `ErrorIsTheCause`, `AtMostLimit`, `NothingPartial`, `ListingEnds` |
| `handles` | 2 handles of `gcpsmfs` with or without the cache, or one of the others; 3 versions | `RotationsSeen`, `OneRequest`, `HandleStable`, `OneVersion`, `DirectoryIsReal`, `BodiesClosed`, `InfoFresh`, `Transparent` |
| `paths_and_pages` | up to 3 of 14 mounts, paths of up to 3 segments; stores of up to 2 of 20 keys, roots of up to 3 segments; 2 projects of 2 secrets; a document in each kind of directory; listings of up to 4 entries; 5-bit int, up to 9 children, every size; up to 4 objects, any of them markers | `InnermostMount`, `SecretRequestAddressesFile`, `AnswersAgree`, `DirectoryListed`, `WalkComplete`, `PagesOfDirectory`, `EOFAtEnd`, `NoFalseEntries`, `CursorStable`, `StreamSpec`, `PagesAddUp`, `ObjectsAddUp` |
| `first_use` | 2 goroutines; 2 filesystems of `gitfs`, 2 branches, 2 commits; 3 of `consulfs`, 2 clients; 3 of a cloud service; 4 of `httpfs` or of `vaultfs`; the composite method over 4 (one nil), the deprecated one over 3 | `DefaultBranchChosen`, `ClonedOnce`, `RequestsAsConfigured`, `ClientAsGiven`, `HeadersKept`, `NoTokenLeak`, `UserTokenKept` |

In words: `AnswersAgree` says that a name is the
same object for every method, through any `Sub`, and that they say the same of it;
`DirectoryListed` that a listing is what is directly below a name, no more and no
less; `WalkComplete` that the code's own list of directories hides no document but
in the directories that it lacks; `ClientAsGiven` that no order of deriving and
calling gives a filesystem the client of another; `HeadersKept` that a request has
every header that its filesystem was given.

### What the code does and its documentation denies

Each of these runs checks one property that a comment of the repository states,
and TLC finds a behaviour of the code that violates it.

| Run | Property | In short |
|---|---|---|
| `vault_double_close` | `NeverPanics` | two goroutines close one handle: the second `RemoveRef` panics (`vault.go:396`) |
| `vault_composite` | `LogsOutAtZero` | the last `Close` of a filesystem whose composite method has chosen nothing leaves another's token in the client (`vaultauth/auth.go:99`) |
| `vault_shared_token` | `TokenUnmanaged` | the last `Close` of a filesystem derived with another method revokes the user's token (`vault.go:194`) |
| `auth_relogin` | `LoginYieldsToken` | the second login returns no secret, which is dereferenced (`vaultauth/auth.go:76`) |
| `sm_root` | `RootListed` | the handle of the root lists the names that begin with a slash instead of those that do not (`awssm.go:423`) |
| `blob_stat` | `StatIsTrue` | a name is a directory if a longer name is one (`blob.go:363`) |

The models also show where properties above stop to hold; the statements or the
instances leave these cases out, and the hazards in PROJECT.json name them:

- `LeaseSpec` and `NoTokenLeak` hold for one goroutine.  With two, the first
  uses of two handles may both log in, and the token that `SetToken` overwrites
  is never revoked (`vault.go:643`); and a handle opened between the last
  `Close`'s read of the count and its revocation loses its token
  (`vault.go:405`).  Giving `vault_serial` a second goroutine shows both.
- `TokenHasOwner` and `TokenGivenUp` make an exception of the token that a composite
  method leaves in the client (`vault_composite`).  So it is also with a token that was in the
  client from the start, which nobody had to log in for.
- The deprecated `TokenAuthMethod` has no `Logout` that `vaultfs` can see: `Close`
  revokes the user's token (`vaultfs/auth.go:20`).
- A chain whose methods all fail in one goroutine, while another has chosen one,
  returns neither a secret nor an error, as after a logout (`NoneLeft`,
  `vaultauth/auth.go:91`).
- A LIST in an auth mount loses the `auth/` of its path (`vault.go:517`), so
  `SecretRequestAddressesFile` is about mounts of secrets.
- A `GIT_HTTP_TOKEN` is never used by `AutoAuthenticator`: without a user and a password,
  the authenticator before the one for tokens returns no method and no error
  (`gitfs/auth.go:152`).
- The deprecated environment method keeps its choice over a logout: the second
  login succeeds with an empty token (`vaultfs/auth.go:110`).
- A size for which `n+f.diridx` wraps around gives an empty page without an error
  (`vault.go:577`).  `PagesAddUp` holds all the same: nothing is lost.
- `ObjectsAddUp` makes an exception of the objects that `blobfs` had taken from
  the iterator when it failed (`blob.go:412`); and a page of markers only is empty
  without an error.
- `ClonedOnce` is about one goroutine at a time: two first `Open`s clone twice, and
  what each reads may be of another commit (`git.go:114`).
- `RequestsAsConfigured` promises nothing to a `consulfs` filesystem without a host
  or a token of its own: with a configuration that another one uses too it sends
  requests to that one's host, with that one's token, once `initClient` has
  written them there (`consul.go:158`).  The comment of `WithConfigFS` says that a
  configuration cannot set the address; for a URL without a host it does.
- `ClientAsGiven` makes an exception of an HTTP client or a metadata filesystem that
  is given to a filesystem with a client already: it changes nothing
  (`awssm.go:151`).  Another is `WithHTTPClient` on a bucket of `s3` or `azblob`
  (`blob.go:217`): its requests never go through the caller's HTTP client, although
  `extensions.go:35` says that it is injected, and line 24 of the repository's README that
  all requests are made with it.
- `AnswersAgree` and `DirectoryListed` make an exception of names that begin with a
  dot, which `Open` cuts off (`awssm.go:217`), `AnswersAgree` also of names that
  begin others in `blobfs` (`blob_stat`), and both of keys that end with a slash,
  which `consulfs` lists in themselves (`consul.go:328`).  The root of `consulfs` is
  a directory even if there is a key of its name.  A `ReadFile` of a key that is
  gone ends the program in `consulfs` (`consul.go:229`), and in no other
  filesystem.
- The handle of a secret of `gcpsmfs` lists the project of the secret
  (`gcpsm.go:580`), and a full name whose last part begins with a dot is taken for
  the secret without it (`gcpsm.go:312`).
- `WalkComplete` makes an exception of the directories that `isIMDSDirectory` lacks:
  the MAC addresses of network interfaces, because the patterns at `paths.go:73`
  do not begin with `meta-data/`, and `meta-data/tags/instance`.  An instance
  without user data has no root to list.  gcpmetafs leaves out what a service
  account has besides `aliases`, `email` and `scopes`, and, if `instance` does not
  answer, the names that it does not know; a document that is refused, like an
  identity token, fails the listing it is in.
- `Transparent` makes an exception of a `Stat` that fails, which panics
  (`tracefs.go:150`), and of handles of directories, whose wrapper has no `ReadAt`
  and no `Seek`.
- After a `Stat` that failed, the children before it pass for the whole
  directory, unsorted (`awsimdsfs.go:549`): the flag `partial` of `PagedDir`.

### Bounds

Two goroutines are enough for the races of the code: each is between two
sections of one method, or of two.  Two handles are needed for a handle that
outlives another, and two more for those that `ReadDir` opens, one of them while
the other is still deferred; how these interleave with another goroutine is
left to the proofs, which are about any number of either.  `MaxToken` is the
number of logins: three tokens let two goroutines log in at once.  The two
handles of the concurrent run have the two kinds of method that do most: one whose token
goes through the client, and a composite one, which is closed last or first, with a
chosen method or without.  The deprecated chain is in the serial run, where its second login
is.  `RefModulus`
is smaller than in the code, but larger than the number of handles, so that a
count that went below zero would be as wrong as there.  `MaxInt` is 15: every sum
that a wider int can make (below, at and above the end of the directory,
wrapped) is made with five bits.  A listing of four entries over three names has
a repeated name next to, before and after another.  Three secrets with a limit
of two have one that waits for a slot while another fails.  Three versions let a
secret be rotated before and after a store; two handles are one that fills the
cache and one that finds it empty, full, or being filled.

Three versions let an object be replaced, deleted and made again
between the first `Read` and a `Stat`; four bodies are one for the handle and
three for `Stat`s around it.  Two commits and two branches are a clone that is
old, or of the branch that was the default one; three filesystems of `consulfs`
are two that share a configuration and one derived from either.

Symmetry is used between the handles of `GcpCache`, in a run without liveness.

A store of two objects has every way in which two keys can relate (one above,
beside or equal but for a slash or a dot, sorted before or after), and the answer
to a call depends on one key or on whether there is another.  Keys with a slash at
their end are given to `consulfs` only, whose stores have them; secret managers do
not allow them, and buckets' markers are in `BlobDir`.  Three segments of a root are
a `Sub` of a `Sub`.  A behaviour opens one handle, since handles of these filesystems
share nothing.  The metadata has one document, at least, in each kind of directory
that the services document, and one behind each refusal.  Three filesystems of a
cloud service are one, one derived from it before a call and one derived after;
four of `httpfs` are two families that meet through a map of their caller, and of
`vaultfs` two that meet through a client.  Up to
three mounts are one inside another, a neighbour whose name begins alike, and a
malformed one at any place.

Symmetry is also used between the goroutines of `first_use`, which are alike; its
only temporal property is an action property.

`paths_and_pages` does not check for deadlock: callers of the cursors stop when they
have everything, and a walk ends.  `first_use` does not either: a second login with
the composite method ends the program (`auth_relogin` shows it), a goroutine of
`consulfs` waits for a client when `MaxClients` have been made, and nothing is left
to do when there are `MaxHttpFS` filesystems.  Nor does `blob_stat`, where a store
may be one that answers nothing.

### Fairness

`VaultFS`: weak fairness of `Step(p)` for every goroutine inside a method.
Goroutines are scheduled preemptively, and every round trip ends with a reply or
an error since the API client has a timeout.  Nothing is assumed of callers:
nobody has to close a handle, and `TokenGivenUp` only starts once all are closed.
`GcpList`: weak fairness of the listing as a whole (`Progress`), which any
scheduler provides.

## Proofs

`VaultFSProofs`, for any number of goroutines, handles, auth methods and tokens:

- `TypeCorrect`: `Spec => []TypeOK`.  `TypeOK` alone is not inductive: a
  goroutine inside a method must have a handle.  `TypeInv` adds that (`Busy`).
- `RefsAreExact`, `RemoveRefNeverPanics`, `TokenAlwaysOwned`, all under
  `~ConcurrentClose`, without which they are false (`vault_double_close`).  The
  argument: frames of different goroutines are disjoint and a goroutine inside a
  method works on a handle that is not closed before its own `CloseStore`
  (`HandleInv`), so each decrement takes away exactly one member of `Holding`
  (`CountInv`), so the count is not zero where `RemoveRef` checks it, and the
  `Close` that takes it to zero goes on to clear the token.  `Cardinality(Files) <
  RefModulus` (an assumption of the module) keeps the count from wrapping.
- `TokenAlwaysOwned` makes the exception that `unclaimed` stands for.  Without composite
  methods (`NoComposites`) there is none: `LogsOutWithTheLast` says that the client has no
  token once all is closed and done, because nothing is ever unclaimed (`NoneUnclaimed`).
  `vault_composite` shows that the assumption is needed.
- `TokenIsLease`, the refinement of `VaultLease`, and `NoTokenLeft`, both also under
  `Alone`: there is one goroutine, without which they are false (`vault.go:405`,
  `vault.go:643`).  `TokenIsLease` is under `NoComposites` too.  `TokenInv` says what a second goroutine breaks: from the check
  for a token to `SetToken` the client has none, and from the read of the count to
  `ClearToken` no handle has a reference.  With it every step is one of the lease or
  leaves it as it is: the opening of a handle is `Acquire`, `SetToken` is `Obtain`, a
  `Close` that leaves others `Release`, and `ClearToken` the last one.  `LeakInv` adds that
  what `ClearToken` is about to forget is no longer accepted, or lost, and that the token
  method has no token but the user's.  `NoTokenLeft` also
  assumes `SameLogout`: the last `Close` revokes the token for every filesystem, or clears it
  for every one, and leaves it to a composite method for none.  Without it `Close`
  forgets a token that another filesystem obtained (`vault.go:194`).  A single filesystem, and
  any that are derived from it without another auth method, are such a family.

`NameOrderProofs`: `SortingGivesOrder`, that a sequence without repeats is sorted to
its names in order, and how one more name moves the positions of the others.
`SortByName` and `InOrder` count the names that come first instead of calling
`SortSeq`, a recursive operator that no theorem may reach; a sort is determined by that
count, so nothing is lost.  The central lemma is that a finite set of n numbers has
exactly one member with each number of smaller ones below n: the map from a member to
that number is injective, so by the theorems on cardinality it is onto.

`GcpListProofs`, for any project, any limit and any order of answers:
`ErrorsAreCauses` (the property is inductive with the types: a request is canceled
only by an error that is there before it), `LimitIsKept` (the cardinality of
`Active` grows by `Spawn` only, which waits for a slot), `NothingIsPartial` (while a
listing runs the handle has no children), and `ListingsAreComplete`.  For the last,
`HeardInv` says what a goroutine knows of its requests when it has an error and when
it has none, `EntriesInv` that the entries are the secrets whose goroutines have
returned without one, and that until the listing has an error only what is gone is
left out; `QuietInv` that no goroutine is left over from an earlier listing;
`ChildrenInv` carries the result from `Wait`, which sorts the entries, to the pages.

`PageProofs`, for every size of int, of page and of directory:

- `CursorInside` and `CursorImplementsStream`: the offset stays inside the directory,
  and the cursor implements `DirStream`.  The lemma is that a clamped end is never
  before the start, whether or not the sum wrapped.
- `PagesAlwaysAddUp` (`LoopInv`): the bound of the loop is either where it should be
  or negative.
- `ObjectsAllAddUp` (`BlobInv`): what was taken from the iterator is given, lost or a
  marker, and a caller that is done has seen it end.
- `PagesAreOfDirectory`, `EOFIsTheEnd`, `EntriesAreReal`, `CursorsAreStable`.
  `PopulateInv` is the loop invariant of `populateChildren`: a child for every
  name that it was at, unless it is gone, and none twice; `SortingGivesOrder` makes
  the directory of it.  `FreshInv` says that no page was handed out before there
  were children.  It has an exception that the first attempt at the proof lacked:
  an empty directory is listed again by every `ReadDir`, because the code asks
  whether there are children and not whether it has listed them.
- `WalksAreComplete`, for any documents, also if some go while the walk is under way.
  `CoverInv` says that while no listing has failed a document has been found, is
  below a directory on the way, or is one of those left out, and that the names of
  the directory that is being listed have it; `WayInv` that the walk goes to
  directories, and to none below one that is refused.  `ServiceAssumption` says what the
  constants stand for: the directories above a document are known to the code, or are
  in `Unknown` or refused; a directory is not a document; nothing else is at the root.
  TLC evaluates it on the documents of the run.

`HandleProofs`, for any versions:

- `HandlesAreStable` (`LoadingInv`: what is being loaded is not there yet) and
  `RotationsAreSeen` (`AgeInv`: nothing happens before a handle is opened, and an
  answer on its way is not older than that; `FreshInv`: without the cache a
  handle has answers only), for any handles, with the cache or without.
- `OneRequestIsMade`: with one goroutine (`OneAtWork`) the one answer for a part is in
  the cache, or on its way there, or has not been asked for (`OneRequestInv`).
- `OneVersionIsShown`: the info that is kept is that of the content, if there is
  content, and nothing has been shown without one (`FieldsInv`).
- `DirectoriesAreReal`: an object that is not there has been absent (`AbsentInv`).
- `BodiesAreClosed` (`OpenInv`: the handle's response is open, and that of a `Stat`
  about to return, which is not the same) and `InfosAreFresh` (`AnswerInv`: a `Stat`
  that is about to return has overwritten `fi` with its own success).
- `TracingIsTransparent` (`WrapInv`: a handle is wrapped for what it has).

`FirstUseProofs`, for any goroutines and any filesystems derived in any order:

- `DefaultBranchIsChosen` and `ItIsClonedOnce`, from one invariant (`GitInv`): a call
  knows the default branches since it began, what it clones is one of them unless the
  URL has another, and a goroutine that is alone clones what has no clone.
- `RequestsAreAsConfigured`: the client of a filesystem or of an open file is one
  for it (`ClientsInv`, `FilesInv`), and a goroutine that has written a
  configuration finds in it what it has written until it has made the client
  (`OpeningInv`), which is where `Exclusive` is needed.
- `HeadersAreKept` (`HeaderInv`): the map of a filesystem, or its client, has what it was
  given, and nothing that was not put into that map.
- `ClientIsAsGiven`: several goroutines may make a client of one filesystem, and the
  last assignment stands; the argument is that they make the same one, because a
  filesystem without a client has been given nothing late (`Kept`), what it was
  given does not change, and a call that makes a client knows that none was given
  (`CallInv`).  It is about every service, with the HTTP client that each really uses.

Assumed are only that placeholders are not values: `GitAssumption` (no
authenticator is called `none`) and `ConsulAssumption` (`None` is no filesystem, file
or client), and that the callers' maps are numbered (`HeaderAssumption`).

`VaultAuthProofs`, for any chain of methods (the composite ones may have nil
methods), any number of handles and of tokens: `TypeCorrect`; `LoginLeaksNoToken`,
which needs to know where a token is that is not yet the client's, or no longer
(`LoginInv`), and that a token that the server issues is a new one (`IssuedInv`);
and `CompositeKeepsUserToken`, because a client behind the composite method has a
token of the method that was chosen (`ChosenInv`), so that the logout of that method
is the one its token is for.  Of the mounts it has:

- `MountIsInnermost` and `RequestsAddressFiles`, for any mounts and any paths, whatever
  the order of the map (`VisitInv`: of the mounts visited, the best match is the
  longest one; `PathOfMount`: the path of a request is that of its mount and the rest).
  Assumed is that segments are strings, that no path of a mount is empty, and that no
  auth method is a `kv` of version 2.

`StoreProofs`, for any keys, any roots, any names of any length and any secrets:
`AnswersAlwaysAgree` and `DirectoriesAreListed`.  The argument has four parts.

- Paths.  `PlaceOf` is what a path stands for: whether it begins with a slash, and its
  names in order.  A cleaned path stands for the same place (`CleanPlace`), a joined
  one for the place of the first and the names of the second (`JoinPlace`), since the
  names of two paths put together are those of the one and then those of the other
  (`KeptConcat`, by the positions that `Kept` counts; the lemmas on `InOrder` are those
  of `NameOrderProofs`).
- Handles.  However the filesystem came about, its root stands for `base`
  (`RootInv`), and the handle is one that `Open` makes of a name (`FileInv`); so the
  handle stands for what it should (`Means`, `HandleMeans`), and what it asks the
  store for is that key (`AddressIs`), for `consulfs` by way of the URL (`KeyAddress`).
  A name that begins with a dot is the one case in which it is not, and `dotted` says so.
- Answers.  A prefix that ends with a slash begins the keys that are below the place
  and no other (`PrefixIs`, `ListedBelow`); so a `Stat` says what is there (`StatIs`), and a
  listing has the names next below (`DelimitedAre`, `ChildrenAre`).  `blobfs` looks for a
  directory by a prefix without a slash; `FoundIs` is where `Neighbours` comes from.
- `gcpsmfs`.  A name resolves to the secret whose full name it is (`ResolvedIs`), and the
  handle is one of a name that was resolved (`SecretInv`).

Only model-checked is the liveness of the runs, `TokenGivenUp` and `ListingEnds`, which
TLAPS cannot prove here; every other property of a passing run is a theorem.
The properties of the runs that expect a violation are false of their instances
(`LogsOutAtZero` is a theorem where there is no composite method), and what
`TokenIsLease`, `NoTokenLeft`, `OneRequestIsMade` and `ItIsClonedOnce` say of one goroutine
is false of two.  The type invariants of `PagedDir`, `GitFS` and
`VaultMounts` are for proofs; no run checks them on their own.

## Not modelled

The contents of secrets and files, formatting, MIME types, URLs and their query
parameters, logging and tracing attributes.  Expiry and renewal of Vault tokens.
Contexts that the caller cancels.  The backends themselves, beyond what the code sees
of them.  Data races proper: torn reads of an interface, a map that is written while
it is read.  `FSMux` is a map that is filled before it is used, `autofs` fills it at
`init`, the `With...` functions of the extensions are type assertions in front of
the filesystems' methods, `filefs` is `os.DirFS`, and `fscli`
is an example: none keeps state of its own that changes.  `blobfs` turns the options
of a URL into those of a bucket, and `billyadapter` maps errors of a filesystem that
does not change: both are modelled in part.  `WithCache(true)` on a filesystem without
a cache makes a new one: `GcpCache` has one cache only.

Of the `With...` methods of `vaultfs`, `WithHeader`, `WithClient` and `WithConfig` are in
`HttpHeaders`, for the headers.  `VaultFS` has `WithAuthMethod` and one `refCountedClient`: a
client put in its place has a count and a token of its own, which is another instance.
But two `WithClient`s with one `api.Client` make two counts over one token
(`vault.go:161`), so that the last `Close` of the one logs the other out; this is not
modelled, and neither is that `WithConfig` writes an address into its caller's
configuration (`vault.go:180`).

## Plan

1. `VaultFS` with `VaultLease`, `VaultAuth`, `VaultMounts`; the cursors, `PagedDir` and
   `BlobDir`; `GcpList`, `GcpCache`; `RemoteFile`, `HttpFile`; `GitFS`, `ConsulClient`;
   first proofs.  Done, as above.
2. Names (`ObjectNames`, `SecretNames`), the path rules of the metadata services
   (`MetadataWalk`), the lazily made clients (`LazyClient`), shared headers
   (`HttpHeaders`), `TraceFS`.  Done, as above.  Left: the expiry of Vault tokens, which
   nothing in the code notices.
3. Proofs of every safety invariant, action property and refinement that the passing
   runs check.  Done, as above.  Left: that `LoopCursor` implements `DirStream` but for
   the sizes that wrap, and the part of `ListingEnds` that needs no fairness, that every
   step of a listing brings it nearer to its end.
