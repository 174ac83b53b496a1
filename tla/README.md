# Formal model of Family Share

Family Share is one Go process (chi router, SQLite through one connection, image files on
disk) with two background goroutines. This directory holds TLA+ modules that model it, TLC
configurations that check them on small instances, and proofs of the results that matter
most. Every definition that stands for code is listed with its source lines in
`PROJECT.json` under `map`.

    tlc -workers 2 -config Upload_restarts.cfg MCUploadQueue    # one run
    tlapm UploadQueue_proofs.tla                                # the proofs of one component

## 1. Inventory

| Component | State | Operations | Interacts with |
|---|---|---|---|
| Upload queue (`handler/admin_upload.go`, `worker/`, `processing_queue.sql`) | `processing_queue` rows, `upload-*.tmp` files, the worker's trigger channel | receive a multipart body, enqueue, take, process, record the outcome, report progress | photo library (rows, files), janitor (sweeps the same directory), main (start, stop) |
| Saving an image (`pipeline/save.go`, `storage/write.go`) | a transaction, a photo row, a photo file | insert, write and rename, commit, undo | worker |
| Photo library (`admin_albums.go`, `admin_photos.go`, `admin_set_cover.go`, `admin_rotate.go`) | `albums` with a cover, `photos`, photo files | create, edit and delete an album, delete a photo, set a cover, rotate | worker, share links, janitor |
| Share links (`admin_shares.go`, `public_share.go`, `photo_serve.go`, `viewer_hash.go`) | `share_links`, `share_link_views`, the visitor's cookie | create, revoke, view a page, serve an image, count unique viewers | photo library (targets), janitor (deletes links) |
| Janitor (`janitor/`, `storage/cleanup.go`) | a timer, stop and done channels | delete expired sessions and links, orphaned photos, old events, old temporary files, empty directories | everything that persists |
| Rate limiter (`middleware/ratelimit.go`) | a bucket per client address, violations, lockouts | allow, record a violation, clean up | share pages, login |
| Admin login and sessions (`admin_auth.go`, `middleware/auth.go`) | `sessions`, the session cookie | log in and out, require a session | janitor (expired sessions) |
| CSRF protection (`middleware/csrf.go`, `components/csrf_head.html`) | the signing secret, the token cookie, what each page has read of it | hand out and check a token | every admin page |
| Database (`db/`) | `schema_migrations`, the connection | open, migrate | everything |
| Image geometry (`pipeline/exif.go`, `resize.go`, `rotate.go`) | none | orient, scale, rotate | worker, rotation handler |
| Metrics, configuration, client address, routes, templates, health | start-up values, an event log nobody depends on | read, log | handlers |

What is hard here, and hardly reached by a unit test:

* handlers, worker and janitor interleave between SQL statements and between SQL and file
  operations; none of the multi-step operations of a handler is a transaction;
* the file system and the database can disagree after a crash, a failed statement or a race;
* the process can be stopped in the middle of anything; what was in progress is found again
  only as far as the database says so;
* several checks read a value in one statement and act on it in a later one (view limits,
  covers, album edits, rotations);
* ages and expiries are compared by parts of the program that do not know of each other.

What makes each component correct: *queue* - an accepted upload becomes exactly one photo
or a recorded failure, and its temporary file does not stay; *library* - rows and files
agree, covers point to photos of the album; *share links* - no content after revocation or
expiry, and no more distinct viewers than the limit says; *janitor* - it removes only what
nobody needs; *rate limiter* - a bounded number of requests per window, and no lockout that
does not end; *sessions* - no admin action without a live session; *CSRF* - a page that was
handed a token can use it, and no page is refused for ever; *migrations* - each applied once,
also when interrupted; *geometry* - what is stored is the picture that was sent, the right
way up, and its recorded size is its own.

`PROJECT.json` lists the hazards one by one under `hazards`, each at its line with the
properties that cover it.

## 2. Modules

Each component has the same set of modules: the behaviour, its properties (with the inductive
invariant and the mapping to the abstract specification, where there is one), the constants
for TLC, and the proofs.

| Component | Behaviour | Properties | Abstract specification | TLC | Proofs |
|---|---|---|---|---|---|
| upload queue | `UploadQueue` | `UploadQueueProperties` | `UploadLedger`: an upload is published once or refused, and then erased or withdrawn with its album | `MCUploadQueue` | `UploadQueue_proofs` |
| share links | `ShareLinks` | `ShareLinksProperties` | `ShareQuota`: distinct visitors up to a quota, forgotten with the link | `MCShareLinks` | `ShareLinks_proofs` |
| photo library | `PhotoLibrary` | `PhotoLibraryProperties` | - | `MCPhotoLibrary` | `PhotoLibrary_proofs` |
| rate limiter | `RateLimiter` | `RateLimiterProperties`, `RateWindow` | `RateBound`: an account of requests, and lockouts served in full | `MCRateLimiter` | `RateLimiter_proofs` |
| login and sessions | `AdminSessions` | `AdminSessionsProperties` | `AdminDoor`: who may enter, under which session | `MCAdminSessions` | `AdminSessions_proofs` |
| CSRF | `CsrfTokens` | `CsrfTokensProperties` | - | `MCCsrfTokens` | `CsrfTokens_proofs` |
| migrations | `Migrations` | `MigrationsProperties` | `MigrationLog`: migrations done one by one, and who serves from them | `MCMigrations` | `Migrations_proofs` |
| image geometry | `ImageGeometry` | `ImageGeometryProperties` | - | `MCImageGeometry` | `ImageGeometry_proofs` |

Operators named `Mut...` and a few next to the definition they vary, marked *Mutant of* in
their comment, are plausible bugs: put in the place of the definition they make the property
named in `PROJECT.json` fail. They are not part of any specification.

What is read before a database statement and used after it is in every module a local of the
request that read it; `db.go:39` allows one connection, so one SQL statement is one step
everywhere. The janitor occurs in four modules, each time with the part of its cycle that
concerns the component; the parts share no state but the ticker.

## 3. The upload queue

### How the model corresponds to the code

An upload is named by the member of `Files` it carries; its temporary file (`tmp`,
`tmpAge`), its queue row (`job`, `jobAge`) and its photo (`rows`, `disk`) share the name.
Other state is where each goroutine stands: `reqPc` of each upload handler, `wPc` of the
worker, `janPc` of the janitor, `delPc` of each album's delete handler, `erase` of each photo's,
`mainPc` of `main`. `faults` and `undone` count and remember calls that failed.

| Code | Actions |
|---|---|
| `AdminUploadPhotos` | `StartUpload`, `RejectPart`, `SaveTemp`, `Enqueue`, `EnqueueFails`, `BodyBreaks`, `EndUpload` |
| `Worker.Start`, `processBatch` | `WorkerWakes`, `WorkerStops`, `BatchEnds` |
| `processNextJob` | `TakeJob`, `OpenTemp`, `OpenFails`, `FailUnopened`, `RecordOutcome`, `RemoveTemp` |
| `failJob`, `completeJob` | `SetStatus` in `FailUnopened` and `RecordOutcome` |
| `ProcessAndSaveWithFormat`, `SaveProcessedImage` | `SaveFails`, `InsertPhoto`, `WritePhoto`, `CommitPhoto`, `CommitFails` |
| `Janitor.run`, `CleanOrphanedTempFiles` | `JanitorScans`, `JanitorRemoves`, `JanitorRests` |
| `DeleteAlbum` | `ListForDelete`, `RemovePhotoFile`, `DeleteAlbumRow`, `DeleteAlbumFails` |
| `DeletePhoto` | `FindPhoto`, `ErasePhoto`, `EraseFails`, `EraseFile` |
| `main` | `Signal`, `ServerDrained`, `JanitorStopped`, `Exit`, `ForcedExit`, `Restart` |
| the outside | `Crash` at any point, `Tick` for the clock |

Granularity. `db.go:39` allows one connection, so an SQL statement is one step, and between
`InsertPhoto` and the end of the worker's transaction no other statement runs (`DbFree`).
A file operation is one step of its own. Everything between two of these is local.

Abstractions, all on purpose:

* creating and filling a temporary file is one step: the server's read timeout equals the
  janitor's limit of 15 minutes, so the sweep cannot reach a file that is still being filled;
* ages stop at `TempMaxAge`; rows of equal or equally saturated age tie in `ORDER BY
  created_at`, as rows of one second do;
* `RejectPart` stands for each of the three ways in which a part is not enqueued, `SaveFails`
  for every error before the rename;
* a call whose error the code logs or ignores before it goes on may fail at any time: the
  `UPDATE` of a status (`worker.go:159`, `:170`), `os.Open` of a file that exists, `os.Remove`
  of a temporary file and of a photo's file. What it was to do is then in `undone` for the file
  concerned (`Fault`), unless the caller will come again (`Hiccup`). `MaxFaults` bounds how
  often; calls whose error is answered or undone (`EnqueueFails`, `SaveFails`, `CommitFails`,
  `DeleteAlbumFails`, `EraseFails`) may fail without bound;
* what `DeletePhoto` does to covers, and how rotations and the sweep of photos without an album
  meet it, is in `PhotoLibrary`; one request per photo deletes it at a time;
* orphaned photo files keep a name of their own. In the code the id of a transaction that
  never committed is given out again, so a later photo of the same album and month may
  overwrite the orphan; the model keeps it, which is the worse case;
* `.tmp-*` files a crash leaves in the photo directories, thumbnails and log lines are left out;
* closing the database is part of `Exit`; a statement the worker still had to run by then is
  one that fails.

Fairness (`Fairness`): the worker and janitor goroutines keep running while the process does
(their tickers fire), a stopping process ends (Shutdown has a timeout of 30 s), an ended one
is started again (the deployment guides use systemd or Docker with restart), time passes.
Nothing is assumed of the admin's requests.

### Runs

Bounds: `TempMaxAge` is one tick, so a file is young or old, which is all the code tells
apart. Two uploads of one album let the worker be busy on one while the handler, the janitor or
a deletion is at the other; a second handler would do to one of the two what the first does.
`Erasable` and `Deletable` say what the admin may delete, `MaxExits` and `MaxFaults` how often
the process ends and a call fails unnoticed. Two exits let a job be hit twice.

| Run | Question | Bounds |
|---|---|---|
| `Upload_restarts` | over exits, crashes and failing calls: one photo per upload, true statuses, fresh temporary files kept, and what strands a job | 1 handler, 2 files, one photo may be deleted, 2 exits, 1 failing call; 1,276,806 states |
| `Upload_recovery` | is every pending job taken and every temporary file removed in the end; does a polled progress view reach 100 % unless the process ends or an `UPDATE` fails | 1 handler, 2 files, 1 exit, 1 failing call, fair; 278,492 states |
| `Upload_deletion` | deletion of the album and of a photo against handler, worker and one end of the process: nothing of the album comes back, photos keep their files, and all of it implements `UploadLedger` | 1 handler, 2 files, a listing limited to 1 photo, 1 exit; 1,242,651 states |

What the properties say of the paths on which something stays undone:

* `StatusTellsTheTruth`: a completed job has its photo, unless the admin has deleted it; a failed
  one never had a row, and has a file only where `os.Remove` failed after the commit did;
* `OneStrandedPerExit`: apart from the jobs whose `UPDATE` failed, the end of a process strands
  one at most;
* `PhotoHasFile`: a row without a file is one of an album whose deletion is under way, failed, or
  was cut off by the end of the process after it had removed the files (`aborted`);
* `FreshUploadKeepsTemp` is about uploads younger than the limit, as its name says. That the file
  of an *old* pending job is swept is what the code does, and is listed below.

Deadlock is not checked: with every upload made, the queue empty and no exit left the model
may have nothing to do but let time pass, and the process may stay stopped.

Where the code and what is said of it part, in the actions named:

* `handler.New` drops the worker it is given (`HandlerHasWorker`), so an upload never triggers
  it, though `admin_upload.go:222` says "Trigger worker to start processing immediately"; the
  2 s ticker finds the job, which is why `PendingIsTaken` still holds;
* a job in progress when the process ends, and one whose `UPDATE` fails, stays `processing` for
  ever and its album's progress view polls for ever (`usage-guide.md:18` has the bar end);
  `OneStrandedPerExit` and `ProgressCompletesInOneRun` say that nothing else does that;
* `processNextJob` sets up the removal of the temporary file after `os.Open` (`OpenFails`), so
  a file that exists and cannot be opened is left to the janitor, although `worker.go:120` says
  "We are done with it, success or fail";
* a photo deleted by itself leaves its job `completed`, so the counts of the progress view go
  on including it;
* a multipart error other than `io.EOF` repeats at every call, so the handler's loop never
  ends (`BodyBreaks`);
* a photo committed between `DeleteAlbum`'s listing and its `DELETE` leaves its file behind
  (`ListForDelete`, `DeleteAlbumRow`, and `SavedTooLate` in `PhotoLibrary`;
  `.docs/familyshare-tdd.md:270`), and so do the photos
  beyond the `Limit: 1000` of the listing that `admin_albums.go:253` calls "all photos";
* `janitor.go:197` calls the swept files orphaned, but `JanitorRemoves` takes the temporary
  file of a pending job once it is old (a stop of 15 minutes between upload and next start, or
  a queue that is 15 minutes long), and the job then fails: hence the *fresh* in
  `FreshUploadKeepsTemp`;
* `worker.go:65` says that `Stop` waits for current tasks, but nothing calls it, and `Exit`
  cuts a job off.

### Proofs

`UploadQueue_proofs` proves, for any albums, files, requests and bounds (from
`ConstantsAssumption` alone):

* `TypeCorrect`, `AtMostOnce`, `StatusIsTrue`, `DeletionIsFinal`: the invariants `TypeOK`,
  `OnePhotoPerUpload`, `StatusTellsTheTruth`, `DeletedAlbumStaysEmpty`;
* `PhotosKeepFiles`, `FreshUploadsKeepTemps`, `StrandedAreFew`: `PhotoHasFile`,
  `FreshUploadKeepsTemp`, `OneStrandedPerExit`;
* `Refinement`: `Spec => ImplementsLedger`.

They rest on one inductive invariant, `IInv` (theorem `Invariance`). None of them is
inductive by itself. That a photo is not published twice needs to know that the worker's job
is `processing` or withdrawn, whenever it holds one, and has no row before `CommitPhoto`; that
a failed job left no file needs to know where in `SaveProcessedImage` the worker stands, and
whether an `os.Remove` has failed; that
a deleted album stays empty needs to know that an open transaction keeps the `DELETE` out,
which is `DbFree`; that no job is created twice needs to know that the file in a handler's
hand has none. `IInv` says these in four named parts: `TypeInv`, `HandInv`, `JobInv`,
`WorkerInv`. There is one lemma per actor for types and one for the rest, each with one step
per action. `Refinement` uses `IInv` and a lemma per actor: every step moves the entry of one
file, erases a photo, withdraws an album's, or leaves the ledger as it was.

Three more properties need a part of the state that `IInv` does not speak of, and have a
strengthening of their own on top of it. `FileInv` adds to `PhotoHasFile` that a file is in
place before its row is committed, and that what is listed for removal, or is about to be
removed, was committed before and so is not the photo of the open transaction. `TempInv` adds
to `FreshUploadKeepsTemp` that a file the sweep has listed was old when it was listed, and that a file nobody needs any more will not be needed again - which
is what makes the gap between scan and removal harmless. `StrandInv` counts: a job whose
`UPDATE` did not fail leaves the worker in `processing` only when the context is cancelled while
it holds it, or with the process, so the exit about to come is spent on it (`Spent`) and cannot
cost another; what is undone stays so (`UndoneGrows`).

Five theorems state what no run checks (section 11):

* `OrphansAreStranded`, `OrphansAreFew`: a photo file that never had a row is, deleted albums
  apart, that of a job an ended process left in `processing` after the rename, so there is at
  most one per end; or the commit failed, and the `os.Remove` of `save.go:80` with it. This
  follows from `IInv` and `StrandInv`: whoever wants to clean up need only look at the stranded
  jobs, and at those failed ones. The files of photos deleted by themselves are the subject of
  `FilesHaveRows` in section 5.
* `TempFilesHaveOwners`: while albums stay, the process runs and the file can be opened and
  removed, every temporary file is in the hand of a handler, awaits the worker or is at work
  (`OwnerInv` adds that a handler lets go of a file only when it has enqueued or removed it). The
  janitor is needed after deletions, exits and those failures only.
* `StatusesMoveForward`, `StrandedStayStranded`: the statements that set a status ask only for
  the id, and yet no status moves back and no stranded job, by whatever it was left, is taken up
  by a later process.

Only model-checked is liveness.

## 4. Share links

### How the model corresponds to the code

A link has a row (`link`, `limit`, `expiry`) and viewer hashes (`views`). Each handler of
`/s/{token}` at work is an entry of `req`: where it stands, for whose browser, on which link,
with which hash. A browser has an address (client address and user agent, `addr`) and a
cookie per link (`cookie`). A hash is a pair of the address it was computed from and the
number of the secret it was computed under, which is all that tells hashes of a link apart.

| Code | Actions |
|---|---|
| `CreateShareLink`, `RevokeShareLink` | the same names |
| `ViewShareLink` | `Load`, then `Admit`, `Refuse` or `CountFails`, then `TrackView` or `TrackFails`, then `Render` or `Answer` |
| `ServeSharedPhoto` | `Load`, then `Admit`, `Refuse` or `CountFails`, then `Answer` |
| `GetViewerHash`, `SetViewerHashCookie` | `ViewerHash` in `Load`; `Render`, `CookieLasts` |
| `deleteExpiredShareLinks` | `DeleteExpiredShareLinks` with its cascade |
| `SetViewerHashSecret` at start | `Restart` |
| the outside | `Expire`, `CloseBrowser`, `CookieEnds`, `Move` |

One SQL statement is one step. `limit` and `expiry` of a row never change, so reading them
from the state at a later step is reading the row the handler loaded; a revocation after
`Load` is not noticed by the handler, in the code as in the model.

Abstractions: a request for a link that is revoked, expired or missing is answered at once,
changes nothing and is not a step. The lookup of the target and the rendering change only
what the page says. A request for an image does not look at the viewer hash; the model
carries one, which only the properties read. Links whose tokens share their first eight
characters share a cookie name but not the cookie's path. A hash the browser keeps is one
the server gave it. `Restart` ends and starts the process in one step, since nothing here
happens in between.

### Runs

| Run | Question | Bounds |
|---|---|---|
| `Share_restarts` | how far is a limit overrun; does a browser with its cookie keep its one place; does a dead link only wind down; is a revoked link deleted with its views, for good; does all of it implement `ShareQuota` | 2 handlers, 1 browser, 2 addresses, `max_views` 1 or none, ephemeral secret, 1 restart, 1 failed statement, fair janitor |

One link is enough because links share no state but the process's secret and the addresses.
One browser is enough because a browser that loses its cookie and moves is a new visitor to
the code: two addresses and two secrets give four different hashes, one more than the limit,
the overrun of two handlers and one failed statement allow together. The run assumes that the
janitor runs again and again without its statement failing every time (`FairSpec`): it runs at
every start and on a ticker. Nothing else is fair. Deadlock is not checked: visitors may stop
coming.

`Share_photos` is the run in which the code and its documents part: images are refused once
the link is full, to the very visitor whose page filled it, so that with `max_views` 1 nobody
ever sees a photo (`CountedVisitorGetsPhotos`; `findings` quotes the line). Also seen while
modelling:

* the count and the insert of a view are two statements, so concurrent visitors exceed
  `max_views`, which `.docs/familyshare-tdd.md:152` calls a maximum; `OverrunBounded` says by
  how much: the handlers that run beside one another less one, and the failed statements;
* a link without expiry passes the zero time to `SetViewerHashCookie`, which makes a session
  cookie (`viewer_hash.go:89`, `CookieLasts`): the visitor is a new one after closing the
  browser;
* the page, too, is refused to a returning visitor of a full link, since `ViewShareLink`
  compares the count before it looks whose hash it has (the same line of the design is
  against it: a visitor with a record is allowed access).

### Proofs

`ShareLinks_proofs` proves, for any links, browsers, addresses, handlers and bounds (from
`ConstantsAssumption` alone): `TypeCorrect`, `OverrunIsBounded`, `KnownBrowserIsCounted`,
`DeadLinksStayDead`, and `Refinement` (`Spec => ImplementsQuota`, with the slack that the
constants give).

The bound on the overrun is not inductive by itself, since a handler past the check says
nothing of the views yet. `QuotaInv` counts, with the views of a link, those that handlers
past the check may still insert (`Claimed`). A handler that passes a check finds fewer views
than the limit, and there are no more claims than handlers, which restores the bound at that
moment; inserting a claimed view claims nothing new; a failed count adds a claim and an
error. `CountedInv` says that whoever has a cookie, or is about to get one, is among the
views; it needs to know that a link without a row has none (`SlateInv`) and what a handler
at work holds (`ReqInv`). The step facts about sizes of sets are lemmas (`FewHashes`,
`UnionSize`, `ClaimedFinite`). `Refinement` follows from the same invariant.

`DeadLinksStayDead` proves `DeadLinksWindDown`: a link that is revoked or has
expired stays so, lets no new request in, and is given at most one view more by each handler
that was past the check of its row. It is a property of steps: the views of a dead link and
the handlers that may still add one (`Uncounted`) never become more together, whatever the
janitor's deletion and restarts do between a handler's statements.

Only model-checked: `RevokedLeavesNothing`, which is liveness.

## 5. The photo library

### How the model corresponds to the code

Rows are `albumRow`, `cover`, `photoRow`, `albumOf` and `swapped` (whether width and height
are those of a quarter turn); the disk is `file` and `dirs`. A picture is the number of
quarter turns it has been given, which is all rotation and its dimensions depend on. Each
admin request is an entry of `req` with the step it takes next and what it has read.

| Code | Actions |
|---|---|
| `CreateAlbum` | `CreateAlbum` |
| `UpdateAlbum` | `UpdateAlbumRead`, `UpdateAlbumWrite` (with the cover read before) |
| `SetCoverPhoto` | `SetCoverRead`, `SetCoverWrite` |
| `DeletePhoto` | `DeletePhotoRead`, `ClearCover`, `DeletePhotoRow`, `DeletePhotoFile` |
| `DeleteAlbum` | `DeleteAlbumList`, `DeleteAlbumFile`, `DeleteAlbumRow` with its cascade |
| `AdminRotatePhoto`, `pipeline.Rotate` | `RotateRead`, `RotateOpen`, `RotateCreate`, `RotateEncode`, `RotateRedim` |
| `SaveProcessedImage`, `AtomicWrite` | `SaveBegin`, `SaveWrite`, `SaveCommit` |
| `deleteOrphanedPhotos`, `cleanupEmptyDirs` | `SweepRows`, `SweepFile`, `SweepDir` |
| the outside | `Crash`, `AlbumLost`; a `Fault` in any step that may fail |

Abstractions:

* the id of a transaction that was rolled back is given out again by SQLite; here it is a new
  name, so that what happens to a file can be told apart (ids of deleted photos are never
  reused: `AUTOINCREMENT`, and `CoverOfOwnAlbum` needs it);
* `filepath.Walk` visits a directory before what is in it, although the comment in
  `janitor.go` says bottom to top, so a parent goes one cycle after its children; one level of
  directories, removed at any time when empty, covers both orders;
* an AVIF photo is never found by the rotation, which always looks for `.webp`, and counts as
  a photo that nobody rotates;
* every `os.Remove` whose error is logged or ignored (`DeletePhotoFile`, `DeleteAlbumFile`,
  `SweepFile`, the undoing in `SaveCommit`) may fail, and so may the statements that delete a
  row, clear a cover or update the dimensions (`Fault`, bounded by `MaxFaults`);
* foreign keys are on for the one connection, so a row without an album needs a connection
  that has them off (`AlbumLost`); the janitor's orphan task exists for those rows;
* `turned` and `excuse` are history: what the admin was told has been done, and the worst that
  has interfered with a photo.

That no cover dangles is not a property of this code, since nothing in the code depends on a
cover being there: `SetCoverWrite` after `DeletePhotoRow`, `UpdateAlbumWrite` after
`ClearCover`, a `ClearCover` that fails. What matters, and holds, is that such a cover never
shows the photo of another album.

### Run

`Library`: 2 albums, 1 photo, 2 requests, quarter turns, 1 fault; `WF(Sweep)` and `WF(Save)`,
since the janitor has a ticker and a save that has begun ends; no request is bound to be made
or to go on. 1,235,448 states. Two requests at a time are what any of the races needs (two
rotations, a rotation and a deletion, a cover set and a deletion, an edit and a cover); two
albums, since the question about covers is whose photo they show; and the photo meets, besides
the two requests, the worker that saves it and the janitor. Photos share no state but the
album's row, directory and cover. With one photo the `LIMIT` of the listing is never reached:
`Upload_deletion` runs into it, and the proofs are for any limit. Deadlock is not checked: all
photos may have been deleted.

* `PictureMatchesRow`: a photo nothing interfered with shows exactly the rotations the admin
  was told of and its row has that shape. Its exceptions are what the code does not guard
  against: rotation truncates the file in place (the comment at `rotate.go:41` names the
  alternative), so a crash or a failed write there loses the photo; two rotations of one photo
  mix; the row is updated after the file, so a failure in between leaves it stale.
* `FilesHaveRows`: a file without a row is one that a deletion under way will remove, or its
  photo is excused (`Loose`) by what happened to it: a call that was to remove it failed or was
  interrupted, a rotation made it again with `os.Create` after the deletion, or `DeleteAlbum`'s
  listing missed the photo. The excuse is given where that happens: `DeleteAlbumList` to the
  photos past the limit, `SaveCommit` to one that is committed into an album being emptied
  (`SavedTooLate`). These two leave a file for good without any failure; the property says that
  they are the only ways.
* `OrphansAreSwept`: photos whose album has gone are removed.

### Proofs

From `LibraryConstants` alone: `TypeCorrect`, `CoversOfOwnAlbum`, `NoFileLost`,
`PicturesMatchRows`, for any albums, photos, requests, angles and faults. The first three rest
on `IInv`: that a cover is of its album needs to know what `UpdateAlbum` and `SetCoverPhoto`
carry from their reading to their writing (`Locals`) and that ids are not reused (`Rows`);
that no file is lost needs `FilesOwned` and that a rotation that meets a deletion has been
noticed (`RotationsNoticed`). `PicturesMatchRows` needs more, `PInv`: while a rotation is on
its way the file, the picture it will write and the row are three different things, so
`Rotations` says for each of its steps how they stand to each other, for photos on which it
is alone (`OneRotation`) and whose album is not being emptied (`Followed`); `StillPictures`
says the same of the photos nobody rotates; `Lifetimes` says which requests may still hold a
photo in which state. There is one lemma per action for `IInv` and one for `PInv`.

Three more theorems state what no run checks:

* `NoPhotoLeavesUnasked`, `FilesOfLivePhotosStay`: a row goes because a request deletes the
  photo or its album, or after its album has gone; the file of a photo that is there goes only
  because its album is being deleted. Both are about steps that act on what was read earlier:
  the janitor's list of files, the worker's undoing, a deletion that unlinks after the row has
  gone.
* `CoversLapseOnRequest`: while an album stays, a cover that is a photo stays one until a request
  deletes that photo or writes the album's cover. A request may write a cover it read long
  before, or of a photo that is being deleted, and a clearing may fail: then the cover dangles.
  The theorem says that nothing else does that, neither crashes, the janitor, other albums'
  deletions nor saves.

## 6. The rate limiter

### How the model corresponds to the code

`bucket` holds the `clientBucket` values, `clients` the map. A request is `asking` between the
two halves of `Allow`: it has fetched its bucket and let go of the map's mutex, and has not
yet locked the bucket. Times are distances from now and stop counting where no comparison
tells them apart.

| Code | Actions |
|---|---|
| `Allow`, first half | `Ask` |
| `Allow`, second half | `RefuseLocked`, `Grant`, `RefuseEmpty` |
| `Middleware` | `Finish` |
| `cleanupLoop`, `cleanup` | `StartSweep`, `Inspect`, `DeleteStale`, `EndSweep` |
| the clock | `Tick` |

A bucket nobody can reach any more is garbage and its name is used again. The calls
of `time.Now` in one `Allow` fall into the same tick. A sweep lasts `MaxSweep` ticks at most.
A `lockoutDuration` of 0 switches lockouts off, as in the code.
`2 * Minute <= StaleThreshold` is assumed (1 and 10 minutes in the code): a stale bucket is
then a full one, which is what makes forgetting it harmless. At the very tick that
`lockedUntil` names the call is neither refused nor are the violations reset
(`Before` and `After` are both strict).

### Run

`Limiter`: 1 client, 2 requests, 2 buckets, 2 requests per minute, a minute of 3 ticks, so
that refills leave fractions, a lockout of 3 ticks after 2 violations, a sweep of up to 1
tick. 95,835 states. Clients share nothing but the map; the second request and the second
bucket are what the race with `cleanup` needs. Fair are the goroutines that can run (`Allow`,
`Finish`, `Cleanup`), the ticker (`StartSweep`) and time; no client is bound to ask.

* `ImplementsBound`: the limiter implements `RateBound`, an account with
  `requestsPerMin / Minute` of a request per tick and a maximum of less than one request above
  the full bucket. Served exactly if the account covers the request and the client is not
  locked out. Two things are weaker than one might think, and the run and the proof show that
  these are all: a refill throws away the fraction of a token it does not pay out, so a served
  request may cost up to, but less than, two; and a call that held a bucket while `cleanup`
  deleted it is answered beside the account. `ratelimit.go:225` says that such a bucket is not
  locked out; since `cleanup` unlocks it between looking and deleting, it may be by then.
* `ServedAgain`: whoever asks again and again is served again and again. Violations do not
  decay with time, only at the end of a lockout, which this does not contradict.
* `QuietIsForgotten`: the map does not keep clients that stopped asking.

### Proofs

From `RateConstants`: `TypeCorrect` and `BoundImplemented` (`Spec => ImplementsBound`), for
any rate, durations, numbers of clients and calls. The invariant: a request that is asking
holds a bucket and has a client; no two clients share a bucket, and nobody holds
another's (`OneOwner`); the map does not change under a sweep but for the sweep
(`SweepIsLocked`). On top of it stand lemmas about the arithmetic of one bucket - what
`Refilled` and `Older` do to `Worth`, that a stale bucket is worth the full account - and one
lemma per action that says which step of `RateBound` it is. The products of the refill are
stated as separate facts, since the solver does no non-linear arithmetic.

`RateKept` is what this comes to for somebody who counts. `RateWindow` adds two history
variables, the requests granted and the ticks passed since a window was opened, at any moment;
they constrain no step. In every window a client is granted fewer than
`requestsPerMin + 1 + requestsPerMin * elapsed / Minute` requests, calls overtaken by `cleanup`
apart. The argument is a balance (`Balanced`): what has been spent and what is left of the
account never exceed a full account and what the clock has added.

## 7. Login and sessions

### How the model corresponds to the code

The actors are browser tabs, with one request under way each; the tabs of a browser share its
cookie. `rows` is the table, `expired` the sessions whose time has passed.

| Code | Actions |
|---|---|
| `RequireAuth` | `RequireAuth`, `DeleteLapsed` |
| `LoginPage`, `isValidSession` | `LoginPage`, `DeleteLapsed` |
| `Login` | `LoginRefused`, `Login` |
| `Logout` | `Logout` |
| any other protected handler | `Handle` |
| `deleteExpiredSessions` | `DeleteExpiredSessions` |
| browser, network, time | `Send`, `Receive`, `LoseAnswer`, `DropCookie`, `Expire`, `Restart` |

An error of the database counts as no session in the code, and is the third alternative of
`RequireAuth` and `LoginPage`. The comparison of passwords is either of `Login` and
`LoginRefused`. The middlewares in front of it are the next section and the previous one.

### Run

`Sessions`: 2 tabs of one browser, 2 sessions; `WF(DeleteExpiredSessions)`, as the janitor
runs hourly; restarts, lost answers and failing statements without bound. 68,374 states. Two
tabs let a logout in one meet the work or the login of the other; a third session or tab adds
no new pair.

* `ImplementsDoor`: a handler starts only under a session that is open at that moment, and an
  open session stays open until logout or expiry, also over restarts. What the door does not
  promise, since the code does not either: a handler that is past the check may outlive its
  session; a second login leaves the first session alive; `Logout` clears the cookie even if
  the session could not be deleted, and its late answer clears the cookie of a login made
  meanwhile in another tab.
* `ExpiredAreSwept`: expired sessions leave the table, whether their browser comes back or not.

### Proofs

From `SessionConstants`: `TypeCorrect` and `DoorImplemented`, with the mapping
`Inside` and the invariant `IInv`: a session that was found expired is still so when it is
deleted (`LapsedStays`), since the door closes only what is due.

`SessionsPrivate` and `LogoutIsOwn` are about any number of browsers, of which the run has one:
no session is ever in the hands of two browsers (in a cookie, a request or an answer under way),
and the session in a browser's cookie leaves the table only when it has expired or that browser
logs out, however late a request or an answer comes. Both follow from what a step can add to the
hands of a browser: nothing, or the session that a login has just created (`NextPrivate`), and
that a created session is in nobody's hands yet (`InHandIsCreated`).

## 8. CSRF tokens

### How the model corresponds to the code

A token is the number of the secret it is signed with and a nonce. A tab's `page` is what its
script (`components/csrf_head.html`) has read of the cookie: the token for the header of htmx
and fetch requests, which is read again after every swap, and the one in the page's plain
forms (login and logout), which stays.

| Code | Actions and operators |
|---|---|
| `NewCSRF` | `Secret`, `Restart` |
| `Middleware` | `Arrive` with `CookieTokens`, `NewCookie`, `Accepted` |
| `newSignedToken`, `validateSignedToken` | `Fresh`, `Valid` |
| `applyToken` and the htmx listeners | `Carrying`, `Shown` |
| browser and network | `Send`, `Receive`, `LoseAnswer`, `DropCookie` |

A user who is refused, or sees an error, loads the page again (`Blank`); that is the one
assumption made of users. It is one: htmx does not swap a 403 into the page, and the fetch
handlers of `album_detail.html:196` and `shares_list.html:203` go on as if it had succeeded, so
the refusal may show only in that nothing has changed. A page that is not loaded again goes on
being refused. `PagesKeepWorking` does not rest on it, `RefusalsEnd` does.

`.env.example:42` says that `CSRF_SECRET` is required; the code falls back
to an ephemeral secret with a warning, so the model has both.

### Run

`Csrf`: 2 tabs of one browser, 4 nonces, 1 restart, 1 lost cookie, with and without a
configured secret; requests are answered and answers arrive or are lost (`WF(Arrive)`,
`WF(Receive)`). 195,606 states. Two tabs are what the race of two first requests needs, each
of which is handed a token of its own. Four nonces are enough: a token nobody holds any more
may come again, two tabs never hold more than three while a fourth is asked for, and a fifth
nonce adds no state.

* `PagesKeepWorking`: once a page, its cookie and what is under way agree on a token they go
  on agreeing, whatever the other tabs do, until the cookie is lost or the secret changes.
* `RefusalsEnd`: no tab is refused for ever.

### Proofs

From `CsrfConstants`: `TypeCorrect`, and `PagesAreServed`, which proves `PagesKeepWorking`
for any number of browsers, tabs, nonces and restarts. It is a property of steps, so the
proof goes through the actions: a good token stays good unless the secret changes
(`GoodTokenStays`), a request that carries a good token is answered without a new one, and
so a browser that is settled stays so (`StepKeepsWorking`).

`TokensPrivate` and `TokensSigned` are again about any number of browsers: no token is held by
two of them, and every token was signed with a secret the process has had by then. They rest on
`NextGains`: only the middleware makes a token, in the answer to one tab, and one nobody has -
which is what its 32 random bytes stand for (the model draws a nonce that is not held).

## 9. Migrations

### How the model corresponds to the code

`schema` and `recorded` are the database; `draft` is what the open transaction of `writer`
sees.

| Code | Actions |
|---|---|
| `InitDB`, start of `ApplyMigrations` | `Start`, `ReadApplied` |
| a migration's transaction | `Execute` or `ExecuteFails`, `Insert`, `Commit` |
| `busy_timeout` | `LockTimesOut` |
| the return of `InitDB` | `Ready` |
| the outside | `Crash`, `Stop` |

A second process is one that was started by hand, or the successor of a container that is
still stopping. A process that dies is started again (`restart: unless-stopped` in
`deploy/docker-compose.yml`), which with the progress of a running one is the fairness. Not
modelled: two files of one number, which would make every start fail, and the `PRAGMA`
statements inside migrations, which have no effect inside a transaction.

### Run

`Migrations`: 2 processes, four releases made of the repository's migrations as far as they
depend on each other (first tables, sessions, queue without `IF NOT EXISTS`, an `ALTER
TABLE`), 2 crashes or broken readings. 45,750 states.

* `SchemaIsRecorded`: what a migration creates is there exactly if it is recorded.
* `ImplementsMigrationLog`: from outside the processes look like one that applies the migrations
  one at a time, each as a whole, in order and never again, and like servers that start only on
  a database that has all of their release - although
  `rows.Err` is not looked at, so that a reading which breaks off passes for a complete one:
  the migration that is then applied again fails on its primary key or on its tables.
* `ServesInTheEnd`: neither crashes nor rivals leave a database behind that cannot be migrated.

### Proofs

From `MigrationConstants`, for any migrations, releases and processes: `TypeCorrect`,
`SchemaRecorded`, and `LogImplemented` (`Spec => ImplementsMigrationLog`). Two consequences that
no run checks have theorems of their own: `ReadyComplete` (who serves has all migrations of its
release behind it) and `OrderKept` (versions are recorded in the order of their numbers).
`IInv` has the part `Underway`: a process is in a transaction exactly while it holds the lock,
for the lowest version it lacks, with that version's objects added to the schema; hence only
`Commit` changes the database, and it changes both parts. The refinement maps `recorded` to
`done` and the processes at `ready` to `serving`; `CommitRefines`, `ReadyRefines` and
`StopRefines` are the steps that are seen from outside, `UnseenStep` and `UnseenDeath` say why
no other is.

## 10. Image geometry

### How the model corresponds to the code

A picture is a size and an arrangement: which corner of the scene is in which corner of the
raster. `orientationTransform` and `calculateDimensions` are translated as operators; `Decode`,
`Orient`, `Store` are the steps of `ProcessAndSaveWithFormat`. A tag may be there and not be
read (`legible`): `ApplyEXIFOrientation` returns the picture as it is on every error of the EXIF
library, which for one knows nothing of WebP and AVIF. `Rotate` is the rewriting of the file, with
the angles `AdminRotatePhoto` lets through, and `UpdatePhotoDimensions` the statement after it
(`row` is what the row says). Between and instead of the two there may be a failure or the end of
the process: `RotateBreaks` leaves a file that is no picture, `UpdateFails` the old size in the row
(`stale`). One rotation at a time; how several meet is in section 5. The flips and turns are
those of the imaging library, which turns counter-clockwise, and `Stored` is what the EXIF
standard says a camera means by a tag; both are marked external.

### Runs

`Geometry`: every size up to 14 by 14, with a limit of 13 for uploads (so that some are
refused) and of 5 for storage, and every tag, read or not; 137,801 states. The limits are coprime
to most sides, so every remainder of the division occurs, and sides are more than twice the
limit, so a thin picture is reduced to nothing by a naive division.

* `FitsStorage`, `ReducedToTheLimit`: what is stored fits, keeps its shape to the pixel, and is
  not reduced more than necessary.
* `SizeFitsPicture`: the size is that of the picture as it lies, through any number of rotations,
  and the recorded size is the picture's unless the last update failed; a rotation whose update
  succeeds makes up for all that failed before it.

`Geometry_orientation` is where the comments of `orientationTransform` and its code part: tags
5 to 8, read, get the opposite quarter turn and come out upside down (`ShownUpright`; `findings`
quotes the lines).

### Proofs

From `GeometryConstants`: `TypeCorrect`, `StorageFits`, `NoNeedlessReduction`,
`SizesFitPictures` and `MirroredOnlyIfUnread` (not checked by a run: a picture is shown mirrored
exactly if its camera stored it so and the tag that says it could not be read), for any limits
and sizes. The arithmetic is in lemmas about `calculateDimensions` (`ReducedSize`), the geometry
in lemmas about the four arrangements that are not mirrored (`Turned`), the four that are
(`Flipped`), and what turns them into each other.

Three more that no run checks: `ReductionKeepsOrientation`, about the operators alone (reducing
before or after turning gives the same size, and reducing twice is reducing once, for every
size, tag and limit); `QuarterTurnsUpsideDown`, the exact extent of the finding (of the pictures
whose tag was read, those with 5 to 8 come out upside down, all others upright; the rest stay as
the camera stored them); and `RotationsLoseNothing` (after any number of rotations, recorded or
not, a picture has exactly the size its scene was reduced to, or that size on its side).

## 11. What is proved, what is only checked

Every theorem assumes only the named assumption on the constants of its module. All safety
properties of the passing runs - invariants, action properties and the five refinements - are
proved for every value of the constants.

Besides `ReadyComplete`, `OrderKept` and `MirroredOnlyIfUnread`, sixteen theorems go beyond
the runs: they state properties that no configuration lists, since what they add to it is the
generality. Each was model-checked as an invariant or a property on the constants of its
component's run (the private sessions and tokens with two browsers) before it was proved:
`OrphansAreStranded`, `OrphansAreFew`, `TempFilesHaveOwners`, `StatusesMoveForward`,
`StrandedStayStranded` (section 3), `NoPhotoLeavesUnasked`, `FilesOfLivePhotosStay`,
`CoversLapseOnRequest` (5), `RateKept` (6), `SessionsPrivate`, `LogoutIsOwn`
(7), `TokensPrivate`, `TokensSigned` (8), `QuarterTurnsUpsideDown`, `RotationsLoseNothing`,
and `ReductionKeepsOrientation`, which is about operators (10). To check one again, add its
property to a copy of the configuration; `WithinRate` needs `WindowSpec` and a bound on
`elapsed`. All but `RateKept` (`WindowSpec`, `Spec` with two counters) are theorems of `Spec`.

Only model-checked, as liveness under fairness is out of the prover's reach:
`PendingIsTaken`, `TempFileIsRemoved`, `ProgressCompletesInOneRun`, `RevokedLeavesNothing`,
`OrphansAreSwept`, `ServedAgain`, `QuietIsForgotten`, `ExpiredAreSwept`, `RefusalsEnd`,
`ServesInTheEnd`.

## 12. Not modelled

Pixels (decoding, scaling, encoding), templates and wording, HTTP framing, cryptography,
parsing of configuration and addresses, activity events (inserted by goroutines nobody waits
for, read only by the dashboard, deleted by age), the `.tmp-*` files a crash leaves in photo
directories, listings and counts for the dashboard, statements and the repository layer that
have no caller, deployment, tests. These either change no state another part reads, or are out
of reach of a model of this size.

## 13. Plan

All components with a logic of their own are modelled. What is left, in order:

1. The composition of the janitor over share links, sessions, library and temporary files in
   one cycle, with `Stop` between its tasks, and the lifecycle of `main` around the library.
2. Abstract specifications where there is none yet, and proofs that they are implemented: the
   library as an album of pictures, the CSRF middleware as a door like `AdminDoor`.
3. Activity events and `.tmp-*` files, if another part comes to depend on them.
