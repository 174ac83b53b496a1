------------------------------ MODULE ShareLinks ------------------------------
(***************************************************************************)
(* Share links: the admin creates and revokes them, visitors open their    *)
(* pages and fetch their images, distinct visitors are counted against an  *)
(* optional limit, the janitor deletes dead links, and the process is      *)
(* restarted under all of them.                                            *)
(*                                                                         *)
(* A handler is a sequence of SQL statements that are not in a             *)
(* transaction.  It works on the row of the link it loaded first; what it  *)
(* checks of that row never changes but for the revocation.                *)
(***************************************************************************)
EXTENDS Integers, FiniteSets

CONSTANTS
  Links,        \* the links that are ever created
  Viewers,      \* browsers
  Requests,     \* handlers of /s/{token} running at a time
  Addrs,        \* client address and user agent, as the server sees them
  NoLink, NoViewer, NoHash,
  MaxLimit,     \* bound: the largest max_views
  SecretSet,    \* VIEWER_HASH_SECRET is configured
  MaxRestarts,  \* bound: restarts of the process
  MaxErrors     \* bound: failed statements on share_link_views, per link

ASSUME ConstantsAssumption ==
  /\ NoLink \notin Links
  /\ NoViewer \notin Viewers
  /\ NoHash \notin Addrs \X (0..MaxRestarts)
  /\ IsFiniteSet(Requests) /\ IsFiniteSet(Addrs)
  /\ MaxLimit \in Nat /\ MaxRestarts \in Nat /\ MaxErrors \in Nat
  /\ SecretSet \in BOOLEAN

VARIABLES
  link,     \* per link: its row in share_links
  limit,    \* per link: max_views, 0 for NULL
  expiry,   \* per link: whether expires_at is NULL, ahead or past
  views,    \* per link: viewer_hash of its rows in share_link_views
  req,      \* per request: what its handler holds
  addr,     \* per browser: where it is
  cookie,   \* per browser and link: the viewer hash it keeps
  secret,   \* the HMAC secret of the running process, by number
  restarts, \* how often the process has been restarted
  errors    \* per link: failed statements on share_link_views

linkVars    == <<link, limit, expiry>>
browserVars == <<addr, cookie>>
processVars == <<secret, restarts>>
vars == <<linkVars, views, req, browserVars, processVars, errors>>

-----------------------------------------------------------------------------

LinkSt == {"none", "live", "revoked", "deleted"}
Expiry == {"never", "ahead", "past"}
Hash   == Addrs \X (0..MaxRestarts)
Pc     == {"free", "count", "track", "render", "countPhoto", "photo"}

Free == [pc |-> "free", who |-> NoViewer, on |-> NoLink, hash |-> NoHash,
         known |-> FALSE]

Row(l) == link[l] \in {"live", "revoked"}

\* Handlers of l's page that are past the check of the limit and have not
\* inserted their view.
Admitting(l) == {r \in Requests : req[r].pc = "track" /\ req[r].on = l}

TypeOK ==
  /\ link \in [Links -> LinkSt]
  /\ limit \in [Links -> 0..MaxLimit]
  /\ expiry \in [Links -> Expiry]
  /\ views \in [Links -> SUBSET Hash]
  /\ req \in [Requests -> [pc : Pc, who : Viewers \cup {NoViewer},
                           on : Links \cup {NoLink},
                           hash : Hash \cup {NoHash}, known : BOOLEAN]]
  /\ addr \in [Viewers -> Addrs]
  /\ cookie \in [Viewers -> [Links -> Hash \cup {NoHash}]]
  /\ secret \in 0..MaxRestarts
  /\ restarts \in 0..MaxRestarts
  /\ errors \in [Links -> 0..MaxErrors]

Init ==
  /\ link = [l \in Links |-> "none"]
  /\ limit = [l \in Links |-> 0]
  /\ expiry = [l \in Links |-> "never"]
  /\ views = [l \in Links |-> {}]
  /\ req = [r \in Requests |-> Free]
  /\ addr \in [Viewers -> Addrs]
  /\ cookie = [v \in Viewers |-> [l \in Links |-> NoHash]]
  /\ secret = 0
  /\ restarts = 0
  /\ errors = [l \in Links |-> 0]

-----------------------------------------------------------------------------
(* CreateShareLink and RevokeShareLink.                                     *)

\* Mutant of AcceptedLimits: any integer that parses is taken, negative ones too.
ParsedLimits == -1..MaxLimit

\* An empty max_views is NULL, others must be positive.  The form takes any
\* minute as expires_at, so a link may be born expired.
AcceptedLimits == 0..MaxLimit

\* The target is looked up and the row inserted.  No key ties a link to its
\* target: whether that is still there changes what a page says, not who is
\* counted.
CreateShareLink(l) ==
  /\ link[l] = "none"
  /\ link' = [link EXCEPT ![l] = "live"]
  /\ \E n \in AcceptedLimits : limit' = [limit EXCEPT ![l] = n]
  /\ \E e \in Expiry : expiry' = [expiry EXCEPT ![l] = e]
  /\ UNCHANGED <<views, req, browserVars, processVars, errors>>

RevokeShareLink(l) ==
  /\ Row(l)
  /\ link' = [link EXCEPT ![l] = "revoked"]
  /\ UNCHANGED <<limit, expiry, views, req, browserVars, processVars, errors>>

-----------------------------------------------------------------------------
(* ViewShareLink and ServeSharedPhoto.                                      *)

\* Mutant of ViewerHash: the cookie is not looked at.
FreshHash(v, l) == <<addr[v], secret>>

\* GetViewerHash: the cookie's value, else the HMAC of token, address and
\* user agent under the secret of this process.
ViewerHash(v, l) ==
  IF cookie[v][l] # NoHash THEN cookie[v][l] ELSE <<addr[v], secret>>

\* Mutant of Servable: the expiry is not looked at.
ServesExpired(l) == link[l] = "live"

\* The link is neither revoked nor expired.
Servable(l) == link[l] = "live" /\ expiry[l] # "past"

\* The link is loaded and found neither revoked nor expired.  (Otherwise the
\* answer is given at once, and nothing changes.)  A request for an image does
\* not look at the hash it carries: it is held for the properties.
Load(r, v, l, page) ==
  /\ req[r].pc = "free"
  /\ Servable(l)
  /\ req' = [req EXCEPT ![r] =
       [pc |-> IF limit[l] # 0 THEN (IF page THEN "count" ELSE "countPhoto")
                               ELSE (IF page THEN "track" ELSE "photo"),
        who |-> v, on |-> l, hash |-> ViewerHash(v, l),
        known |-> cookie[v][l] # NoHash]]
  /\ UNCHANGED <<linkVars, views, browserVars, processVars, errors>>

\* Mutant of LimitReached: off by one.
LimitExceeded(l) == Cardinality(views[l]) > limit[l]

LimitReached(l) == Cardinality(views[l]) >= limit[l]

PastCheck(r) ==
  req' = [req EXCEPT ![r].pc = IF @ = "count" THEN "track" ELSE "photo"]

Admit(r) ==
  /\ req[r].pc \in {"count", "countPhoto"}
  /\ ~LimitReached(req[r].on)
  /\ PastCheck(r)
  /\ UNCHANGED <<linkVars, views, browserVars, processVars, errors>>

Refuse(r) ==
  /\ req[r].pc \in {"count", "countPhoto"}
  /\ LimitReached(req[r].on)
  /\ req' = [req EXCEPT ![r] = Free]
  /\ UNCHANGED <<linkVars, views, browserVars, processVars, errors>>

Fails(l) ==
  /\ errors[l] < MaxErrors
  /\ errors' = [errors EXCEPT ![l] = @ + 1]

\* An error of the count does not block access.
CountFails(r) ==
  /\ req[r].pc \in {"count", "countPhoto"}
  /\ Fails(req[r].on)
  /\ PastCheck(r)
  /\ UNCHANGED <<linkVars, views, browserVars, processVars>>

\* Mutant of LinkRowExists: the foreign key is not enforced.
LinkRowUnchecked(l) == TRUE

\* The foreign key of share_link_views.
LinkRowExists(l) == Row(l)

\* INSERT OR IGNORE over the unique index on link and hash.
AddView(l, h) == views' = [views EXCEPT ![l] = @ \cup {h}]

TrackView(r) ==
  /\ req[r].pc = "track"
  /\ LinkRowExists(req[r].on)
  /\ AddView(req[r].on, req[r].hash)
  /\ req' = [req EXCEPT ![r].pc = "render"]
  /\ UNCHANGED <<linkVars, browserVars, processVars, errors>>

\* Tracking is best effort: the link has been deleted, or another error.
TrackFails(r) ==
  /\ req[r].pc = "track"
  /\ IF LinkRowExists(req[r].on) THEN Fails(req[r].on) ELSE UNCHANGED errors
  /\ req' = [req EXCEPT ![r].pc = "render"]
  /\ UNCHANGED <<linkVars, views, browserVars, processVars>>

\* SetViewerHashCookie, then the page of the target, or "not found" with the
\* cookie all the same.
Render(r) ==
  /\ req[r].pc = "render"
  /\ cookie' = [cookie EXCEPT ![req[r].who][req[r].on] = req[r].hash]
  /\ req' = [req EXCEPT ![r] = Free]
  /\ UNCHANGED <<linkVars, views, addr, processVars, errors>>

\* The image, or "not found"; also a page whose client has gone away.
Answer(r) ==
  /\ req[r].pc \in {"photo", "render"}
  /\ req' = [req EXCEPT ![r] = Free]
  /\ UNCHANGED <<linkVars, views, browserVars, processVars, errors>>

Handler(r) ==
  \/ Admit(r) \/ Refuse(r) \/ CountFails(r)
  \/ TrackView(r) \/ TrackFails(r) \/ Render(r) \/ Answer(r)

-----------------------------------------------------------------------------
(* The janitor, time, browsers and the process.                             *)

\* WHERE expires_at < CURRENT_TIMESTAMP OR revoked_at IS NOT NULL.
DeadLinks == {l \in Links : Row(l) /\ (expiry[l] = "past" \/ link[l] = "revoked")}

\* Mutant of CascadeViews: share_link_views without ON DELETE CASCADE.
KeepViews(dead) == views' = views

CascadeViews(dead) ==
  views' = [l \in Links |-> IF l \in dead THEN {} ELSE views[l]]

\* deleteExpiredShareLinks: one statement.
DeleteExpiredShareLinks ==
  /\ DeadLinks # {}
  /\ link' = [l \in Links |-> IF l \in DeadLinks THEN "deleted" ELSE link[l]]
  /\ CascadeViews(DeadLinks)
  /\ UNCHANGED <<limit, expiry, req, browserVars, processVars, errors>>

Expire(l) ==
  /\ expiry[l] = "ahead"
  /\ expiry' = [expiry EXCEPT ![l] = "past"]
  /\ UNCHANGED <<link, limit, views, req, browserVars, processVars, errors>>

\* SetViewerHashCookie: a link without expires_at gives
\* it the zero time, so Max-Age is 0, which net/http leaves out: the cookie
\* lasts as long as the browser runs.  Otherwise Max-Age is the time to the
\* expiry, at most 30 days.
CookieLasts(l) == expiry[l] = "ahead"

CloseBrowser(v) ==
  /\ cookie' = [cookie EXCEPT ![v] =
                  [l \in Links |-> IF CookieLasts(l) THEN @[l] ELSE NoHash]]
  /\ UNCHANGED <<linkVars, views, req, addr, processVars, errors>>

\* The Max-Age of a cookie is over.
CookieEnds(v, l) ==
  /\ expiry[l] # "never"
  /\ cookie' = [cookie EXCEPT ![v][l] = NoHash]
  /\ UNCHANGED <<linkVars, views, req, addr, processVars, errors>>

Move(v, a) ==
  /\ addr' = [addr EXCEPT ![v] = a]
  /\ UNCHANGED <<linkVars, views, req, cookie, processVars, errors>>

\* The process ends, with all its handlers, and is started again.  Without a
\* configured secret the new process draws one of its own.
Restart ==
  /\ restarts < MaxRestarts
  /\ restarts' = restarts + 1
  /\ secret' = IF SecretSet THEN secret ELSE restarts + 1
  /\ req' = [r \in Requests |-> Free]
  /\ UNCHANGED <<linkVars, views, browserVars, errors>>

Browser(v) ==
  \/ CloseBrowser(v)
  \/ \E a \in Addrs : Move(v, a)
  \/ \E l \in Links : CookieEnds(v, l)

Next ==
  \/ \E l \in Links : CreateShareLink(l) \/ RevokeShareLink(l) \/ Expire(l)
  \/ \E r \in Requests :
       \/ Handler(r)
       \/ \E v \in Viewers, l \in Links, page \in BOOLEAN : Load(r, v, l, page)
  \/ DeleteExpiredShareLinks
  \/ \E v \in Viewers : Browser(v)
  \/ Restart

Spec == Init /\ [][Next]_vars

\* The janitor runs again and again.
FairSpec == Spec /\ WF_vars(DeleteExpiredShareLinks)

=============================================================================
