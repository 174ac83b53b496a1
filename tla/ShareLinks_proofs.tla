-------------------------- MODULE ShareLinks_proofs --------------------------
(***************************************************************************)
(* Proofs, for any number of links, browsers, addresses and handlers, of   *)
(* the bound on the overrun of a view limit, and of what follows from it.  *)
(* At the end, how a link that is revoked or has expired winds down.       *)
(***************************************************************************)
EXTENDS ShareLinksProperties, FiniteSetTheorems, TLAPS

-----------------------------------------------------------------------------
(* The inductive invariant.                                                *)

\* A handler at work knows whom it answers, on a link that exists or did, and
\* counts only where there is a limit.
ReqInv ==
  \A r \in Requests : req[r].pc # "free" =>
    /\ req[r].on \in Links /\ req[r].who \in Viewers /\ req[r].hash \in Hash
    /\ link[req[r].on] # "none"
    /\ req[r].pc \in {"count", "countPhoto"} => limit[req[r].on] # 0

\* A link without a row has no views, one never created no cookies either.
SlateInv ==
  \A l \in Links :
    /\ ~Row(l) => views[l] = {}
    /\ link[l] = "none" => \A v \in Viewers : cookie[v][l] = NoHash

\* Who has a cookie, or is about to get one, has been counted.
CountedInv ==
  \A l \in Links : Row(l) /\ errors[l] = 0 =>
    /\ \A v \in Viewers : cookie[v][l] # NoHash => cookie[v][l] \in views[l]
    /\ \A r \in Requests :
         /\ req[r].on = l
         /\ \/ req[r].pc = "render"
            \/ req[r].known /\ req[r].pc \in {"count", "track"}
         => req[r].hash \in views[l]

\* The views of l and those that handlers past the check may still insert.
Claimed(l) == views[l] \cup {req[r].hash : r \in Admitting(l)}

Bound(l) == limit[l] + Cardinality(Requests) - 1 + errors[l]

\* What makes the bound inductive: the views under way count already.
QuotaInv ==
  \A l \in Links : Row(l) /\ limit[l] # 0 => Cardinality(Claimed(l)) <= Bound(l)

IInv == TypeOK /\ ReqInv /\ SlateInv /\ CountedInv /\ QuotaInv

-----------------------------------------------------------------------------
(* Finite sets of hashes.                                                  *)

\* There are finitely many hashes.
LEMMA HashFinite ==
  /\ IsFiniteSet(Hash)
  /\ \A S \in SUBSET Hash : IsFiniteSet(S) /\ Cardinality(S) \in Nat
<1>1. IsFiniteSet(0..MaxRestarts)
  BY ConstantsAssumption, FS_Interval
<1>2. IsFiniteSet(Hash)
  BY <1>1, ConstantsAssumption, FS_Product DEF Hash
<1> QED
  BY <1>2, FS_Subset, FS_CardinalityType

\* There are finitely many handlers.
LEMMA RequestsFinite == IsFiniteSet(Requests) /\ Cardinality(Requests) \in Nat
BY ConstantsAssumption, FS_CardinalityType

\* Requests have no more hashes than there are requests.
LEMMA FewHashes ==
  ASSUME NEW A \in SUBSET Requests, NEW h
  PROVE  LET T == {h[r].hash : r \in A}
         IN  /\ IsFiniteSet(T)
             /\ Cardinality(T) \in Nat
             /\ Cardinality(T) <= Cardinality(Requests)
<1> DEFINE T == {h[r].hash : r \in A}
           f == [r \in A |-> h[r].hash]
<1>1. f \in Surjection(A, T)
  BY DEF Surjection
<1>2. IsFiniteSet(A) /\ Cardinality(A) <= Cardinality(Requests) /\ Cardinality(A) \in Nat
  BY RequestsFinite, FS_Subset, FS_CardinalityType
<1>3. IsFiniteSet(T) /\ Cardinality(T) <= Cardinality(A)
  <2> HIDE DEF T, f
  <2> QED
    BY <1>1, <1>2, FS_Surjection
<1>4. Cardinality(T) \in Nat
  BY <1>3, FS_CardinalityType
<1> QED
  BY <1>2, <1>3, <1>4, RequestsFinite

\* A union is no larger than its parts.
LEMMA UnionSize ==
  ASSUME NEW S, NEW T, IsFiniteSet(S), IsFiniteSet(T)
  PROVE  /\ IsFiniteSet(S \cup T)
         /\ Cardinality(S \cup T) <= Cardinality(S) + Cardinality(T)
<1>1. /\ Cardinality(S) \in Nat /\ Cardinality(T) \in Nat
      /\ IsFiniteSet(S \cap T)
  BY FS_CardinalityType, FS_Subset
<1>2. Cardinality(S \cap T) \in Nat
  BY <1>1, FS_CardinalityType
<1>3. /\ IsFiniteSet(S \cup T)
      /\ Cardinality(S \cup T) =
           Cardinality(S) + Cardinality(T) - Cardinality(S \cap T)
  BY FS_Union
<1> QED
  BY <1>1, <1>2, <1>3

\* The hashes that handlers past the check may still insert are finitely many.
LEMMA ClaimedFinite ==
  ASSUME TypeOK, ReqInv, NEW l \in Links
  PROVE  /\ Claimed(l) \subseteq Hash
         /\ IsFiniteSet(Claimed(l)) /\ Cardinality(Claimed(l)) \in Nat
<1>1. Claimed(l) \subseteq Hash
  BY DEF TypeOK, ReqInv, Claimed, Admitting
<1> QED
  BY <1>1, HashFinite

-----------------------------------------------------------------------------
(* Types and the plain parts of the invariant.                             *)

\* IInv holds at the start.
LEMMA InitIInv == Init => IInv
<1> SUFFICES ASSUME Init PROVE IInv
  OBVIOUS
<1>1. TypeOK
  BY ConstantsAssumption DEF Init, TypeOK, LinkSt, Expiry, Pc, Free
<1>2. ReqInv /\ SlateInv /\ CountedInv /\ QuotaInv
  BY DEF Init, ReqInv, SlateInv, CountedInv, QuotaInv, Row, Free
<1> QED
  BY <1>1, <1>2 DEF IInv

\* The hash a browser is known by is one.
LEMMA HashType ==
  ASSUME TypeOK, NEW v \in Viewers, NEW l \in Links
  PROVE  ViewerHash(v, l) \in Hash
BY DEF TypeOK, ViewerHash, Hash

\* A handler that takes a step, or is done, keeps the type of what it holds.
LEMMA MoveType ==
  ASSUME TypeOK, ReqInv, NEW r \in Requests, UNCHANGED <<link, limit>>,
         \/ \E p \in Pc \ {"free", "count", "countPhoto"} :
              req' = [req EXCEPT ![r].pc = p] /\ req[r].pc # "free"
         \/ req' = [req EXCEPT ![r] = Free]
  PROVE  /\ ReqInv'
         /\ req' \in [Requests -> [pc : Pc, who : Viewers \cup {NoViewer},
                                   on : Links \cup {NoLink},
                                   hash : Hash \cup {NoHash}, known : BOOLEAN]]
<1>1. CASE req' = [req EXCEPT ![r] = Free]
  BY <1>1 DEF TypeOK, ReqInv, Free, Pc
<1>2. ASSUME NEW p \in Pc \ {"free", "count", "countPhoto"},
             req' = [req EXCEPT ![r].pc = p], req[r].pc # "free"
      PROVE  /\ ReqInv'
             /\ req' \in [Requests -> [pc : Pc, who : Viewers \cup {NoViewer},
                                       on : Links \cup {NoLink},
                                       hash : Hash \cup {NoHash}, known : BOOLEAN]]
  <2> DEFINE u == [req[r] EXCEPT !.pc = p]
  <2>1. req[r] \in [pc : Pc, who : Viewers \cup {NoViewer}, on : Links \cup {NoLink},
                    hash : Hash \cup {NoHash}, known : BOOLEAN]
    BY DEF TypeOK
  <2>2. /\ u \in [pc : Pc, who : Viewers \cup {NoViewer}, on : Links \cup {NoLink},
                  hash : Hash \cup {NoHash}, known : BOOLEAN]
        /\ u.pc = p /\ u.who = req[r].who /\ u.on = req[r].on
        /\ u.hash = req[r].hash /\ u.known = req[r].known
    BY <2>1
  <2>3. req' = [req EXCEPT ![r] = u]
    BY <1>2
  <2> HIDE DEF u
  <2>4. req'[r] = u /\ \A s \in Requests \ {r} : req'[s] = req[s]
    BY <2>3 DEF TypeOK
  <2>5. ReqInv'
    BY <1>2, <2>2, <2>4 DEF ReqInv
  <2> QED
    BY <2>2, <2>3, <2>5 DEF TypeOK
<1> QED
  BY <1>1, <1>2

\* Setting a cookie keeps the type of the cookies.
LEMMA CookieType ==
  ASSUME TypeOK, NEW v \in Viewers, NEW l \in Links, NEW h \in Hash \cup {NoHash}
  PROVE  [cookie EXCEPT ![v][l] = h] \in [Viewers -> [Links -> Hash \cup {NoHash}]]
<1> DEFINE H == Hash \cup {NoHash}
<1>1. cookie \in [Viewers -> [Links -> H]]
  BY DEF TypeOK
<1> HIDE DEF H
<1> QED
  BY <1>1 DEF H

\* The steps of a handler keep the types and what handlers hold.
LEMMA TypeHandler ==
  ASSUME TypeOK, ReqInv, NEW r \in Requests, Handler(r)
  PROVE  TypeOK' /\ ReqInv'
<1> USE DEF linkVars, browserVars, processVars
<1>1. CASE Admit(r)
  BY <1>1, MoveType DEF Admit, PastCheck, TypeOK, Pc
<1>6. CASE Refuse(r)
  BY <1>6, MoveType DEF Refuse, TypeOK
<1>2. CASE CountFails(r)
  <2>1. errors' \in [Links -> 0..MaxErrors]
    BY <1>2, ConstantsAssumption DEF CountFails, Fails, TypeOK, ReqInv
  <2> QED
    BY <1>2, <2>1, MoveType DEF CountFails, PastCheck, TypeOK, Pc
<1>3. CASE TrackView(r)
  <2>1. views' \in [Links -> SUBSET Hash]
    BY <1>3 DEF TrackView, AddView, TypeOK, ReqInv
  <2> QED
    BY <1>3, <2>1, MoveType DEF TrackView, TypeOK, Pc
<1>4. CASE TrackFails(r)
  <2>1. CASE UNCHANGED errors
    BY <1>4, <2>1, MoveType DEF TrackFails, TypeOK, Pc
  <2>2. CASE Fails(req[r].on)
    <3>1. errors' \in [Links -> 0..MaxErrors]
      BY <1>4, <2>2, ConstantsAssumption DEF TrackFails, Fails, TypeOK, ReqInv
    <3> QED
      BY <1>4, <3>1, MoveType DEF TrackFails, TypeOK, Pc
  <2> QED
    BY <1>4, <2>1, <2>2 DEF TrackFails
<1>5. CASE Render(r) \/ Answer(r)
  <2>1. cookie' \in [Viewers -> [Links -> Hash \cup {NoHash}]]
    <3>1. /\ req[r].who \in Viewers /\ req[r].on \in Links
          /\ req[r].hash \in Hash \cup {NoHash}
      BY <1>5 DEF Render, Answer, ReqInv
    <3>2. \/ cookie' = [cookie EXCEPT ![req[r].who][req[r].on] = req[r].hash]
          \/ cookie' = cookie
      BY <1>5 DEF Render, Answer
    <3>3. [cookie EXCEPT ![req[r].who][req[r].on] = req[r].hash]
            \in [Viewers -> [Links -> Hash \cup {NoHash}]]
      BY <3>1, CookieType
    <3>4. cookie \in [Viewers -> [Links -> Hash \cup {NoHash}]]
      BY DEF TypeOK
    <3> QED
      BY <3>2, <3>3, <3>4
  <2> QED
    BY <1>5, <2>1, MoveType DEF Render, Answer, TypeOK
<1> QED
  BY <1>1, <1>2, <1>3, <1>4, <1>5, <1>6 DEF Handler

\* So does a handler that loads its link.
LEMMA TypeLoad ==
  ASSUME TypeOK, ReqInv, NEW r \in Requests, NEW v \in Viewers, NEW l \in Links,
         NEW page \in BOOLEAN, Load(r, v, l, page)
  PROVE  TypeOK' /\ ReqInv'
<1> DEFINE p == IF limit[l] # 0 THEN (IF page THEN "count" ELSE "countPhoto")
                                ELSE (IF page THEN "track" ELSE "photo")
           known == cookie[v][l] # NoHash
           new == [pc |-> p, who |-> v, on |-> l, hash |-> ViewerHash(v, l),
                   known |-> known]
<1>1. /\ p \in Pc /\ known \in BOOLEAN /\ ViewerHash(v, l) \in Hash
      /\ p \in {"count", "countPhoto"} => limit[l] # 0
  BY HashType DEF Pc
<1>2. req' = [req EXCEPT ![r] = new] /\ link[l] # "none"
      /\ UNCHANGED <<linkVars, views, browserVars, processVars, errors>>
  BY DEF Load, Servable
<1> HIDE DEF p, known
<1> QED
  BY <1>1, <1>2 DEF TypeOK, ReqInv, linkVars, browserVars, processVars

\* So do creation, revocation and expiry.
LEMMA TypeLink ==
  ASSUME TypeOK, ReqInv, NEW l \in Links,
         CreateShareLink(l) \/ RevokeShareLink(l) \/ Expire(l)
  PROVE  TypeOK' /\ ReqInv'
<1> USE DEF TypeOK, ReqInv, browserVars, processVars
<1>1. CASE CreateShareLink(l)
  <2>1. PICK n \in 0..MaxLimit, e \in Expiry :
          limit' = [limit EXCEPT ![l] = n] /\ expiry' = [expiry EXCEPT ![l] = e]
    BY <1>1 DEF CreateShareLink, AcceptedLimits
  <2>2. link[l] = "none" /\ link' = [link EXCEPT ![l] = "live"]
        /\ UNCHANGED <<views, req, browserVars, processVars, errors>>
    BY <1>1 DEF CreateShareLink
  <2>3. TypeOK'
    BY <2>1, <2>2 DEF LinkSt
  <2>4. ReqInv'
    BY <2>1, <2>2
  <2> QED
    BY <2>3, <2>4
<1>2. CASE RevokeShareLink(l)
  BY <1>2 DEF RevokeShareLink, LinkSt
<1>3. CASE Expire(l)
  BY <1>3 DEF Expire, Expiry
<1> QED
  BY <1>1, <1>2, <1>3

\* So do the janitor, the browsers and a restart.
LEMMA TypeRest ==
  ASSUME TypeOK, ReqInv,
         \/ DeleteExpiredShareLinks
         \/ \E v \in Viewers : Browser(v)
         \/ Restart
         \/ UNCHANGED vars
  PROVE  TypeOK' /\ ReqInv'
<1> USE DEF TypeOK, ReqInv, linkVars, browserVars, processVars
<1>1. CASE DeleteExpiredShareLinks
  BY <1>1 DEF DeleteExpiredShareLinks, CascadeViews, DeadLinks, LinkSt
<1>2. ASSUME NEW v \in Viewers, Browser(v)
      PROVE  TypeOK' /\ ReqInv'
  <2>1. CASE CloseBrowser(v)
    BY <2>1 DEF CloseBrowser
  <2>2. ASSUME NEW a \in Addrs, Move(v, a)
        PROVE  TypeOK' /\ ReqInv'
    BY <2>2 DEF Move
  <2>3. ASSUME NEW l \in Links, CookieEnds(v, l)
        PROVE  TypeOK' /\ ReqInv'
    <3>1. cookie' \in [Viewers -> [Links -> Hash \cup {NoHash}]]
      BY <2>3, CookieType DEF CookieEnds
    <3> QED
      BY <2>3, <3>1 DEF CookieEnds
  <2> QED
    BY <1>2, <2>1, <2>2, <2>3 DEF Browser
<1>3. CASE Restart
  <2>1. restarts' \in 0..MaxRestarts /\ secret' \in 0..MaxRestarts
    BY <1>3, ConstantsAssumption DEF Restart
  <2> QED
    BY <1>3, <2>1 DEF Restart, Free, Pc
<1>4. CASE UNCHANGED vars
  BY <1>4 DEF vars
<1> QED
  BY <1>1, <1>2, <1>3, <1>4

\* A link without a row has no views, after every step.
LEMMA SlateStep ==
  ASSUME TypeOK, ReqInv, SlateInv, [Next]_vars
  PROVE  SlateInv'
<1> USE DEF TypeOK, ReqInv, SlateInv, Row, linkVars, browserVars, processVars
<1>1. ASSUME NEW r \in Requests, Handler(r)
      PROVE  SlateInv'
  <2>1. CASE TrackView(r)
    BY <1>1, <2>1 DEF TrackView, LinkRowExists, AddView
  <2>2. CASE Render(r)
    BY <1>1, <2>2 DEF Render
  <2>3. CASE Admit(r) \/ Refuse(r) \/ CountFails(r) \/ TrackFails(r) \/ Answer(r)
    BY <1>1, <2>3 DEF Admit, Refuse, CountFails, TrackFails, Answer
  <2> QED
    BY <1>1, <2>1, <2>2, <2>3 DEF Handler
<1>2. ASSUME NEW r \in Requests, NEW v \in Viewers, NEW l \in Links,
             NEW page \in BOOLEAN, Load(r, v, l, page)
      PROVE  SlateInv'
  BY <1>2 DEF Load
<1>3. ASSUME NEW l \in Links,
             CreateShareLink(l) \/ RevokeShareLink(l) \/ Expire(l)
      PROVE  SlateInv'
  BY <1>3 DEF CreateShareLink, RevokeShareLink, Expire
<1>4. CASE DeleteExpiredShareLinks
  BY <1>4 DEF DeleteExpiredShareLinks, CascadeViews, DeadLinks
<1>5. ASSUME NEW v \in Viewers, Browser(v)
      PROVE  SlateInv'
  BY <1>5 DEF Browser, CloseBrowser, Move, CookieEnds
<1>6. CASE Restart
  BY <1>6 DEF Restart
<1>7. CASE UNCHANGED vars
  BY <1>7 DEF vars
<1> QED
  BY <1>1, <1>2, <1>3, <1>4, <1>5, <1>6, <1>7 DEF Next

-----------------------------------------------------------------------------
(* Who was counted stays counted.                                          *)

\* Whoever has a cookie, or is about to get one, is among the views, after
\* every step.
LEMMA CountedStep ==
  ASSUME TypeOK, ReqInv, SlateInv, CountedInv, [Next]_vars
  PROVE  CountedInv'
<1> USE DEF TypeOK, ReqInv, SlateInv, CountedInv, Row, linkVars, browserVars,
            processVars
<1>1. ASSUME NEW r \in Requests, Handler(r)
      PROVE  CountedInv'
  <2>1. CASE Admit(r)
    BY <2>1 DEF Admit, PastCheck
  <2>2. CASE Refuse(r)
    BY <2>2 DEF Refuse, Free
  <2>3. CASE CountFails(r)
    BY <2>3 DEF CountFails, PastCheck, Fails
  <2>4. CASE TrackView(r)
    BY <2>4 DEF TrackView, LinkRowExists, AddView
  <2>5. CASE TrackFails(r)
    BY <2>5 DEF TrackFails, LinkRowExists, Fails
  <2>6. CASE Render(r)
    BY <2>6 DEF Render, Free
  <2>7. CASE Answer(r)
    BY <2>7 DEF Answer, Free
  <2> QED
    BY <1>1, <2>1, <2>2, <2>3, <2>4, <2>5, <2>6, <2>7 DEF Handler
<1>2. ASSUME NEW r \in Requests, NEW v \in Viewers, NEW l \in Links,
             NEW page \in BOOLEAN, Load(r, v, l, page)
      PROVE  CountedInv'
  <2>1. PICK p \in Pc \ {"render"} : req' = [req EXCEPT ![r] =
          [pc |-> p, who |-> v, on |-> l, hash |-> ViewerHash(v, l),
           known |-> cookie[v][l] # NoHash]]
    BY <1>2 DEF Load, Pc
  <2>2. UNCHANGED <<linkVars, views, browserVars, processVars, errors>>
    BY <1>2 DEF Load
  <2>3. cookie[v][l] # NoHash => ViewerHash(v, l) = cookie[v][l]
    BY DEF ViewerHash
  <2> SUFFICES ASSUME NEW k \in Links, Row(k), errors[k] = 0, NEW s \in Requests,
                      req'[s].on = k,
                      \/ req'[s].pc = "render"
                      \/ req'[s].known /\ req'[s].pc \in {"count", "track"}
               PROVE  req'[s].hash \in views[k]
    BY <2>2
  <2>4. CASE s # r
    <3>1. req'[s] = req[s]
      BY <2>1, <2>4
    <3> QED
      BY <3>1
  <2>5. CASE s = r
    <3>1. /\ req'[r].pc # "render" /\ req'[r].on = l /\ req'[r].hash = ViewerHash(v, l)
          /\ req'[r].known = (cookie[v][l] # NoHash)
      BY <2>1
    <3>2. k = l /\ cookie[v][l] # NoHash
      BY <2>5, <3>1
    <3> QED
      BY <2>3, <2>5, <3>1, <3>2
  <2> QED
    BY <2>4, <2>5
<1>3. ASSUME NEW l \in Links, CreateShareLink(l)
      PROVE  CountedInv'
  BY <1>3 DEF CreateShareLink
<1>4. ASSUME NEW l \in Links, RevokeShareLink(l) \/ Expire(l)
      PROVE  CountedInv'
  BY <1>4 DEF RevokeShareLink, Expire
<1>5. CASE DeleteExpiredShareLinks
  BY <1>5 DEF DeleteExpiredShareLinks, CascadeViews, DeadLinks
<1>6. ASSUME NEW v \in Viewers, Browser(v)
      PROVE  CountedInv'
  BY <1>6 DEF Browser, CloseBrowser, Move, CookieEnds
<1>7. CASE Restart
  BY <1>7 DEF Restart, Free
<1>8. CASE UNCHANGED vars
  BY <1>8 DEF vars
<1> QED
  BY <1>1, <1>2, <1>3, <1>4, <1>5, <1>6, <1>7, <1>8 DEF Next

-----------------------------------------------------------------------------
(* The overrun.                                                            *)

\* The bound of one link survives a step that claims nothing new on it.
LEMMA ClaimKept ==
  ASSUME IInv, TypeOK', ReqInv', NEW l \in Links,
         Row(l), limit[l] # 0, limit'[l] = limit[l], errors'[l] >= errors[l],
         Claimed(l)' \subseteq Claimed(l)
  PROVE  Cardinality(Claimed(l)') <= Bound(l)'
<1>1. /\ IsFiniteSet(Claimed(l)) /\ Cardinality(Claimed(l)) \in Nat
      /\ Cardinality(Claimed(l)) <= Bound(l)
  BY ClaimedFinite DEF IInv, QuotaInv
<1>2. /\ Cardinality(Claimed(l)') <= Cardinality(Claimed(l))
      /\ Cardinality(Claimed(l)') \in Nat
  BY <1>1, FS_Subset, FS_CardinalityType
<1>3. /\ limit[l] \in Nat /\ errors[l] \in Nat /\ errors'[l] \in Nat
  BY ConstantsAssumption DEF IInv, TypeOK
<1>4. Bound(l)' >= Bound(l)
  BY <1>3, RequestsFinite DEF Bound
<1> QED
  BY <1>1, <1>2, <1>3, <1>4, RequestsFinite DEF Bound

\* Steps in which no handler passes a check: what a link claims stays or
\* becomes less.
LEMMA ClaimShrinks ==
  ASSUME IInv, TypeOK', ReqInv', NEW l \in Links, Row(l), limit[l] # 0,
         views'[l] \subseteq Claimed(l),
         \A r \in Requests :
           req'[r].pc = "track" /\ req'[r].on = l => req'[r] = req[r]
  PROVE  Claimed(l)' \subseteq Claimed(l)
BY DEF Claimed, Admitting

\* The steps of a handler keep the bound on views and claims.
LEMMA QuotaHandler ==
  ASSUME IInv, TypeOK', ReqInv', NEW r \in Requests, Handler(r)
  PROVE  QuotaInv'
<1> USE DEF linkVars
<1> SUFFICES ASSUME NEW l \in Links, Row(l)', limit'[l] # 0
             PROVE  Cardinality(Claimed(l)') <= Bound(l)'
  BY DEF QuotaInv
<1>1. /\ Row(l) /\ limit' = limit /\ limit[l] # 0 /\ req[r].pc # "free"
      /\ limit[l] \in Nat /\ errors[l] \in Nat
  BY ConstantsAssumption DEF IInv, TypeOK, Handler, Admit, Refuse, CountFails,
     TrackView, TrackFails, Render, Answer, Row
<1>2. CASE Admit(r) /\ req[r].pc = "count" /\ req[r].on = l
  <2>1. /\ views' = views /\ errors' = errors
        /\ ~(Cardinality(views[l]) >= limit[l])
    BY <1>2 DEF Admit, LimitReached
  <2>2. IsFiniteSet(views[l]) /\ Cardinality(views[l]) \in Nat
    BY HashFinite DEF IInv, TypeOK
  <2> DEFINE W == {req'[s].hash : s \in Admitting(l)'}
  <2>3. /\ IsFiniteSet(W) /\ Cardinality(W) \in Nat
        /\ Cardinality(W) <= Cardinality(Requests)
    BY FewHashes DEF Admitting
  <2>4. Claimed(l)' = views[l] \cup W
    BY <2>1 DEF Claimed
  <2> HIDE DEF W
  <2>5. Cardinality(Claimed(l)') <= Cardinality(views[l]) + Cardinality(W)
    BY <2>2, <2>3, <2>4, UnionSize
  <2>6. Cardinality(Claimed(l)') \in Nat
    BY <2>2, <2>3, <2>4, UnionSize, FS_CardinalityType
  <2> QED
    BY <1>1, <2>1, <2>2, <2>3, <2>5, <2>6, RequestsFinite DEF Bound
<1>3. CASE CountFails(r) /\ req[r].pc = "count" /\ req[r].on = l
  <2>1. /\ views' = views /\ errors'[l] = errors[l] + 1
        /\ req' = [req EXCEPT ![r].pc = "track"]
    BY <1>3 DEF CountFails, Fails, PastCheck, IInv, TypeOK
  <2>2. Claimed(l)' = Claimed(l) \cup {req[r].hash}
    <3>1. \A s \in Requests : req'[s].hash = req[s].hash
      BY <2>1 DEF IInv, TypeOK
    <3>2. Admitting(l)' = Admitting(l) \cup {r}
      BY <1>3, <2>1 DEF Admitting, IInv, TypeOK
    <3> QED
      BY <2>1, <3>1, <3>2 DEF Claimed, Admitting
  <2>3. /\ IsFiniteSet(Claimed(l)) /\ Cardinality(Claimed(l)) \in Nat
        /\ Cardinality(Claimed(l)) <= Bound(l)
    BY <1>1, ClaimedFinite DEF IInv, QuotaInv
  <2>4. Cardinality(Claimed(l)') <= Cardinality(Claimed(l)) + 1
    <3>1. Cardinality(Claimed(l) \cup {req[r].hash})
            = IF req[r].hash \in Claimed(l) THEN Cardinality(Claimed(l))
                                           ELSE Cardinality(Claimed(l)) + 1
      BY <2>3, FS_AddElement
    <3> QED
      BY <2>2, <2>3, <3>1
  <2>5. Cardinality(Claimed(l)') \in Nat
    BY <2>2, <2>3, FS_AddElement, FS_CardinalityType
  <2> QED
    BY <1>1, <2>1, <2>3, <2>4, <2>5, RequestsFinite DEF Bound
<1>4. CASE (Admit(r) \/ CountFails(r)) /\ ~(req[r].pc = "count" /\ req[r].on = l)
  <2>1. \A s \in Requests :
          req'[s].pc = "track" /\ req'[s].on = l => req'[s] = req[s]
    BY <1>4 DEF Admit, CountFails, PastCheck, IInv, TypeOK
  <2>2. views' = views /\ errors'[l] >= errors[l]
    BY <1>1, <1>4 DEF Admit, CountFails, Fails, IInv, TypeOK
  <2>3. Claimed(l)' \subseteq Claimed(l)
    BY <1>1, <2>1, <2>2, ClaimShrinks DEF Claimed
  <2> QED
    BY <1>1, <2>2, <2>3, ClaimKept
<1>5. CASE TrackView(r)
  <2>1. views'[l] \subseteq Claimed(l) /\ errors' = errors
    <3>1. errors' = errors /\ req[r].pc = "track"
      BY <1>5 DEF TrackView
    <3>2. views' = [views EXCEPT ![req[r].on] = @ \cup {req[r].hash}]
      BY <1>5 DEF TrackView, AddView
    <3>3. views'[l] \subseteq views[l] \cup {req[s].hash : s \in Admitting(l)}
      <4>1. CASE req[r].on = l
        <5>1. r \in Admitting(l)
          BY <3>1, <4>1 DEF Admitting
        <5> QED
          BY <3>2, <4>1, <5>1 DEF IInv, TypeOK
      <4>2. CASE req[r].on # l
        BY <3>2, <4>2 DEF IInv, TypeOK
      <4> QED
        BY <4>1, <4>2
    <3> QED
      BY <3>1, <3>3 DEF Claimed
  <2>2. \A s \in Requests :
          req'[s].pc = "track" /\ req'[s].on = l => req'[s] = req[s]
    BY <1>5 DEF TrackView, IInv, TypeOK
  <2> QED
    BY <1>1, <2>1, <2>2, ClaimShrinks, ClaimKept
<1>6. CASE Refuse(r) \/ TrackFails(r) \/ Render(r) \/ Answer(r)
  <2>1. views' = views /\ errors'[l] >= errors[l]
    <3>1. CASE TrackFails(r)
      <4>1. views' = views /\ errors[l] \in Nat /\ errors \in [Links -> 0..MaxErrors]
        BY <1>1, <3>1 DEF TrackFails, IInv, TypeOK
      <4>2. \/ errors' = errors
            \/ errors' = [errors EXCEPT ![req[r].on] = @ + 1]
        BY <3>1 DEF TrackFails, Fails
      <4> QED
        BY <4>1, <4>2
    <3>2. CASE Refuse(r) \/ Render(r) \/ Answer(r)
      <4>1. views' = views /\ errors' = errors
        BY <3>2 DEF Refuse, Render, Answer
      <4> QED
        BY <1>1, <4>1
    <3> QED
      BY <1>6, <3>1, <3>2
  <2>2. \A s \in Requests :
          req'[s].pc = "track" /\ req'[s].on = l => req'[s] = req[s]
    BY <1>6 DEF Refuse, TrackFails, Render, Answer, Free, IInv, TypeOK
  <2> QED
    BY <1>1, <2>1, <2>2, ClaimShrinks, ClaimKept DEF Claimed
<1> QED
  BY <1>2, <1>3, <1>4, <1>5, <1>6 DEF Handler

\* So does the creation of a link: it starts without views.
LEMMA QuotaCreate ==
  ASSUME IInv, TypeOK', ReqInv', NEW c \in Links, CreateShareLink(c)
  PROVE  QuotaInv'
<1> SUFFICES ASSUME NEW l \in Links, Row(l)', limit'[l] # 0
             PROVE  Cardinality(Claimed(l)') <= Bound(l)'
  BY DEF QuotaInv
<1>1. views' = views /\ req' = req /\ errors' = errors
  BY DEF CreateShareLink
<1>2. Claimed(l)' = Claimed(l)
  BY <1>1 DEF Claimed, Admitting
<1>3. CASE l = c
  <2>1. views[l] = {} /\ Admitting(l) = {}
    BY <1>3 DEF CreateShareLink, IInv, SlateInv, ReqInv, Row, Admitting
  <2>2. Cardinality(Claimed(l)) = 0
    BY <2>1, FS_EmptySet DEF Claimed
  <2>3. limit'[l] \in Nat /\ errors'[l] \in Nat
    BY ConstantsAssumption DEF TypeOK
  <2> QED
    BY <1>2, <2>2, <2>3, RequestsFinite DEF Bound
<1>4. CASE l # c
  <2>1. Row(l) /\ limit'[l] = limit[l] /\ limit[l] # 0
    BY <1>4 DEF CreateShareLink, AcceptedLimits, Row, IInv, TypeOK
  <2>2. errors'[l] >= errors[l]
    BY <1>1, ConstantsAssumption DEF IInv, TypeOK
  <2> QED
    BY <1>2, <2>1, <2>2, ClaimKept
<1> QED
  BY <1>3, <1>4

\* So do all other steps: they claim nothing.
LEMMA QuotaRest ==
  ASSUME IInv, TypeOK', ReqInv',
         \/ \E r \in Requests, v \in Viewers, l \in Links, page \in BOOLEAN :
              Load(r, v, l, page)
         \/ \E l \in Links : RevokeShareLink(l) \/ Expire(l)
         \/ DeleteExpiredShareLinks
         \/ \E v \in Viewers : Browser(v)
         \/ Restart
         \/ UNCHANGED vars
  PROVE  QuotaInv'
<1> USE DEF linkVars, browserVars, processVars
<1> SUFFICES ASSUME NEW l \in Links, Row(l)', limit'[l] # 0
             PROVE  Cardinality(Claimed(l)') <= Bound(l)'
  BY DEF QuotaInv
<1>1. limit' = limit /\ errors' = errors /\ Row(l) /\ views'[l] = views[l]
  BY DEF Load, RevokeShareLink, Expire, DeleteExpiredShareLinks, CascadeViews,
         DeadLinks, Browser, CloseBrowser, Move, CookieEnds, Restart, vars, Row,
         IInv, TypeOK
<1>2. \A s \in Requests :
        req'[s].pc = "track" /\ req'[s].on = l => req'[s] = req[s]
  BY <1>1 DEF Load, RevokeShareLink, Expire, DeleteExpiredShareLinks, Browser,
     CloseBrowser, Move, CookieEnds, Restart, Free, vars, IInv, TypeOK
<1>3. errors'[l] >= errors[l]
  BY <1>1, ConstantsAssumption DEF IInv, TypeOK
<1> QED
  BY <1>1, <1>2, <1>3, ClaimShrinks, ClaimKept DEF Claimed

\* IInv is an invariant.
THEOREM Invariance == Spec => []IInv
<1>1. IInv /\ [Next]_vars => IInv'
  <2> SUFFICES ASSUME IInv, [Next]_vars PROVE IInv'
    OBVIOUS
  <2>1. TypeOK' /\ ReqInv'
    BY TypeHandler, TypeLoad, TypeLink, TypeRest DEF Next, IInv
  <2>2. SlateInv' /\ CountedInv'
    BY SlateStep, CountedStep DEF IInv
  <2>3. QuotaInv'
    BY <2>1, QuotaHandler, QuotaCreate, QuotaRest DEF Next
  <2> QED
    BY <2>1, <2>2, <2>3 DEF IInv
<1> QED
  BY <1>1, InitIInv, PTL DEF Spec

-----------------------------------------------------------------------------
(* What follows from it.                                                   *)

\* Every variable keeps its type.
THEOREM TypeCorrect == Spec => []TypeOK
<1>1. IInv => TypeOK
  BY DEF IInv
<1> QED
  BY <1>1, Invariance, PTL

\* However many handlers run beside each other, and whatever the janitor, the
\* browsers and restarts do meanwhile, a limit is overrun by no more than the
\* handlers that can pass the count together, and the failed statements.
THEOREM OverrunIsBounded == Spec => []OverrunBounded
<1>1. IInv => OverrunBounded
  <2> SUFFICES ASSUME IInv, NEW l \in Links, limit[l] # 0
               PROVE  Cardinality(views[l]) <= Bound(l)
    BY DEF OverrunBounded, Bound
  <2>1. limit[l] \in Nat /\ errors[l] \in Nat
    BY ConstantsAssumption DEF IInv, TypeOK
  <2>2. CASE Row(l)
    <3>1. /\ IsFiniteSet(Claimed(l)) /\ Cardinality(Claimed(l)) \in Nat
          /\ Cardinality(Claimed(l)) <= Bound(l)
      BY <2>2, ClaimedFinite DEF IInv, QuotaInv
    <3>2. /\ Cardinality(views[l]) <= Cardinality(Claimed(l))
          /\ Cardinality(views[l]) \in Nat
      BY <3>1, FS_Subset, FS_CardinalityType DEF Claimed
    <3> QED
      BY <2>1, <3>1, <3>2, RequestsFinite DEF Bound
  <2>3. CASE ~Row(l)
    <3>1. Cardinality(views[l]) = 0
      BY <2>3, FS_EmptySet DEF IInv, SlateInv
    <3> QED
      BY <2>1, <3>1, RequestsFinite DEF Bound
  <2> QED
    BY <2>2, <2>3
<1> QED
  BY <1>1, Invariance, PTL

\* A browser that presents its cookie takes no second place among the views,
\* wherever it has moved and whatever secret the process has drawn.
THEOREM KnownBrowserIsCounted == Spec => []CookieIsCounted
<1>1. IInv => CookieIsCounted
  BY DEF IInv, CountedInv, CookieIsCounted, ReqInv
<1> QED
  BY <1>1, Invariance, PTL

-----------------------------------------------------------------------------
(* Refinement.                                                             *)

\* What a view about to be inserted finds: room in the quota.
LEMMA RoomForView ==
  ASSUME IInv, NEW r \in Requests, TrackView(r), limit[req[r].on] # 0
  PROVE  LET l == req[r].on IN
         Cardinality(views[l] \cup {req[r].hash})
           <= limit[l] + (Cardinality(Requests) - 1 + MaxErrors)
<1> DEFINE l == req[r].on
           S == views[l] \cup {req[r].hash}
<1>1. l \in Links /\ Row(l) /\ limit[l] # 0 /\ S \subseteq Claimed(l)
  BY DEF TrackView, LinkRowExists, IInv, ReqInv, Claimed, Admitting
<1> HIDE DEF l, S
<1>2. /\ IsFiniteSet(Claimed(l)) /\ Cardinality(Claimed(l)) \in Nat
      /\ Cardinality(Claimed(l)) <= Bound(l)
  BY <1>1, ClaimedFinite DEF IInv, QuotaInv
<1>3. Cardinality(S) <= Cardinality(Claimed(l)) /\ Cardinality(S) \in Nat
  BY <1>1, <1>2, FS_Subset, FS_CardinalityType
<1>4. errors[l] \in Nat /\ errors[l] <= MaxErrors /\ limit[l] \in Nat
  BY <1>1, ConstantsAssumption DEF IInv, TypeOK
<1>5. Cardinality(S) <= limit[l] + (Cardinality(Requests) - 1 + MaxErrors)
  BY <1>2, <1>3, <1>4, RequestsFinite, ConstantsAssumption DEF Bound
<1> QED
  BY <1>5 DEF l, S

\* The quota counts as the links do.
LEMMA SameCardinality == \A S : Quota!Cardinality(S) = Cardinality(S)
BY DEF Quota!Cardinality, Cardinality

\* Every step of a handler, of the janitor, of the admin, of a browser or of the
\* process is a step of the quota or none.
LEMMA QuotaStep ==
  ASSUME IInv, [Next]_vars
  PROVE  [Quota!Next]_Quota!vars
<1> USE DEF linkVars, browserVars, processVars, phase, Row, IInv, TypeOK
<1>1. ASSUME NEW r \in Requests, TrackView(r)
      PROVE  Quota!Next
  <2>1. req[r].on \in Links /\ req[r].hash \in Hash
    BY <1>1 DEF TrackView, ReqInv
  <2>2. Quota!Admit(req[r].on, req[r].hash)
    <3>1. phase[req[r].on] = "open" /\ UNCHANGED <<phase, limit>>
      BY <1>1, <2>1 DEF TrackView, LinkRowExists
    <3>2. views' = [views EXCEPT ![req[r].on] = @ \cup {req[r].hash}]
      BY <1>1 DEF TrackView, AddView
    <3>3. limit[req[r].on] # 0 =>
            Cardinality(views[req[r].on] \cup {req[r].hash})
              <= limit[req[r].on] + (Cardinality(Requests) - 1 + MaxErrors)
      BY <1>1, RoomForView
    <3> HIDE DEF phase, Row, IInv, TypeOK
    <3> QED
      BY <3>1, <3>2, <3>3, SameCardinality DEF Quota!Admit
  <2> QED
    BY <2>1, <2>2 DEF Quota!Next
<1>2. ASSUME NEW l \in Links, CreateShareLink(l)
      PROVE  Quota!Next
  <2>1. Quota!Open(l)
    BY <1>2 DEF CreateShareLink, AcceptedLimits, Quota!Open
  <2> QED
    BY <2>1 DEF Quota!Next
<1>3. CASE DeleteExpiredShareLinks
  <2>1. Quota!Delete(DeadLinks)
    BY <1>3 DEF DeleteExpiredShareLinks, CascadeViews, DeadLinks, Quota!Delete
  <2>2. DeadLinks \in SUBSET Links
    BY DEF DeadLinks
  <2> HIDE DEF phase, Row, IInv, TypeOK
  <2> QED
    BY <2>1, <2>2 DEF Quota!Next
<1>4. ASSUME \/ \E r \in Requests :
                  \/ Admit(r) \/ Refuse(r) \/ CountFails(r) \/ TrackFails(r)
                  \/ Render(r) \/ Answer(r)
                  \/ \E v \in Viewers, l \in Links, page \in BOOLEAN :
                       Load(r, v, l, page)
             \/ \E l \in Links : RevokeShareLink(l) \/ Expire(l)
             \/ \E v \in Viewers : Browser(v)
             \/ Restart
             \/ UNCHANGED vars
      PROVE  UNCHANGED Quota!vars
  <2>1. UNCHANGED <<limit, views>>
    BY <1>4 DEF Admit, Refuse, CountFails, TrackFails, Render, Answer, Load,
       RevokeShareLink, Expire, Browser, CloseBrowser, Move, CookieEnds, Restart,
       vars
  <2>2. UNCHANGED phase
    BY <1>4 DEF Admit, Refuse, CountFails, TrackFails, Render, Answer, Load,
       RevokeShareLink, Expire, Browser, CloseBrowser, Move, CookieEnds, Restart,
       vars
  <2> QED
    BY <2>1, <2>2 DEF Quota!vars
<1> QED
  BY <1>1, <1>2, <1>3, <1>4 DEF Next, Handler

\* Share links keep the quota, with a slack for the handlers that run beside
\* each other and the statements that fail.
THEOREM Refinement == Spec => ImplementsQuota
<1>1. Init => Quota!Init
  BY DEF Init, Quota!Init, phase, Row
<1>2. IInv /\ [Next]_vars => [Quota!Next]_Quota!vars
  BY QuotaStep
<1> QED
  BY <1>1, <1>2, Invariance, PTL DEF Spec, ImplementsQuota, Quota!Spec

---------------------------------------------------------------------------
(* The end of a link.                                                      *)

\* A handler's step takes nobody onto a link's page, and only one that leaves
\* Uncounted adds a view.
LEMMA WindDownHandler ==
  ASSUME IInv, NEW r \in Requests, Handler(r), NEW l \in Links
  PROVE  /\ UnderWay(l)' \subseteq UnderWay(l)
         /\ \/ views'[l] = views[l] /\ Uncounted(l)' \subseteq Uncounted(l)
            \/ /\ views'[l] = views[l] \cup {req[r].hash}
               /\ r \in Uncounted(l) /\ Uncounted(l)' \subseteq Uncounted(l) \ {r}
<1> USE DEF UnderWay, Uncounted, IInv, TypeOK, ReqInv
<1>1. CASE TrackView(r)
  <2>1. UnderWay(l)' \subseteq UnderWay(l)
    BY <1>1 DEF TrackView
  <2>2. CASE req[r].on = l
    <3>1. views'[l] = views[l] \cup {req[r].hash}
      BY <1>1, <2>2 DEF TrackView, AddView
    <3>2. r \in Uncounted(l) /\ Uncounted(l)' \subseteq Uncounted(l) \ {r}
      BY <1>1, <2>2 DEF TrackView
    <3> QED
      BY <2>1, <3>1, <3>2
  <2>3. CASE req[r].on # l
    <3>1. views'[l] = views[l]
      BY <1>1, <2>3 DEF TrackView, AddView
    <3>2. Uncounted(l)' \subseteq Uncounted(l)
      BY <1>1, <2>3 DEF TrackView
    <3> QED
      BY <2>1, <3>1, <3>2
  <2> QED
    BY <2>2, <2>3
<1>2. CASE Admit(r) \/ CountFails(r)
  <2>1. UNCHANGED views /\ req[r].pc \in {"count", "countPhoto"}
    BY <1>2 DEF Admit, CountFails
  <2>2. req' = [req EXCEPT ![r].pc = IF @ = "count" THEN "track" ELSE "photo"]
    BY <1>2 DEF Admit, CountFails, PastCheck
  <2>3. \A s \in Requests :
          /\ req'[s].on = req[s].on
          /\ req'[s].pc \in {"count", "track"} => req[s].pc \in {"count", "track"}
    BY <2>1, <2>2
  <2> QED
    BY <2>1, <2>3
<1>3. CASE Refuse(r) \/ Render(r) \/ Answer(r)
  <2>1. UNCHANGED views /\ req' = [req EXCEPT ![r] = Free]
    BY <1>3 DEF Refuse, Render, Answer
  <2>2. Free.on # l
    BY ConstantsAssumption DEF Free
  <2>3. \A s \in Requests : req'[s].on = l => req'[s] = req[s]
    BY <2>1, <2>2
  <2> QED
    BY <2>1, <2>3
<1>4. CASE TrackFails(r)
  <2>1. UNCHANGED views /\ req' = [req EXCEPT ![r].pc = "render"]
    BY <1>4 DEF TrackFails
  <2>2. \A s \in Requests : req'[s].on = req[s].on /\ req'[s].pc \in {req[s].pc, "render"}
    BY <2>1
  <2> QED
    BY <2>1, <2>2
<1> QED
  BY <1>1, <1>2, <1>3, <1>4 DEF Handler

\* One handler less may add one view more.
LEMMA WindDownCount ==
  ASSUME IInv, IInv', NEW l \in Links,
         \/ views'[l] \subseteq views[l] /\ Uncounted(l)' \subseteq Uncounted(l)
         \/ \E r \in Uncounted(l), h \in Hash :
              /\ views'[l] = views[l] \cup {h}
              /\ Uncounted(l)' \subseteq Uncounted(l) \ {r}
  PROVE  Cardinality(views'[l]) + Cardinality(Uncounted(l)')
           <= Cardinality(views[l]) + Cardinality(Uncounted(l))
<1> DEFINE U == Uncounted(l)
           W == Uncounted(l)'
<1>1. /\ views[l] \in SUBSET Hash /\ views'[l] \in SUBSET Hash
      /\ U \subseteq Requests /\ W \subseteq Requests
  BY DEF IInv, TypeOK, Uncounted, UnderWay
<1> HIDE DEF U, W
<1>2. /\ IsFiniteSet(views[l]) /\ Cardinality(views[l]) \in Nat
      /\ IsFiniteSet(views'[l]) /\ Cardinality(views'[l]) \in Nat
  BY <1>1, HashFinite
<1>3. /\ IsFiniteSet(U) /\ Cardinality(U) \in Nat
      /\ IsFiniteSet(W) /\ Cardinality(W) \in Nat
  BY <1>1, RequestsFinite, FS_Subset, FS_CardinalityType
<1>4. CASE views'[l] \subseteq views[l] /\ W \subseteq U
  <2>1. Cardinality(views'[l]) <= Cardinality(views[l])
    BY <1>2, <1>4, FS_Subset
  <2>2. Cardinality(W) <= Cardinality(U)
    BY <1>3, <1>4, FS_Subset
  <2> QED
    BY <2>1, <2>2, <1>2, <1>3 DEF U, W
<1>5. ASSUME NEW r \in U, NEW h \in Hash, views'[l] = views[l] \cup {h},
             W \subseteq U \ {r}
      PROVE  Cardinality(views'[l]) + Cardinality(W) <= Cardinality(views[l]) + Cardinality(U)
  <2>1. Cardinality(views'[l]) <= Cardinality(views[l]) + 1
    BY <1>2, <1>5, FS_AddElement
  <2>2. IsFiniteSet(U \ {r}) /\ Cardinality(U \ {r}) = Cardinality(U) - 1
    BY <1>3, FS_RemoveElement
  <2>3. Cardinality(W) <= Cardinality(U \ {r})
    BY <1>5, <2>2, FS_Subset
  <2> QED
    BY <2>1, <2>2, <2>3, <1>2, <1>3
<1> QED
  BY <1>4, <1>5 DEF U, W

\* No other step takes anybody onto a dead link's page, gives it a view, or
\* brings it back.
LEMMA WindDownRest ==
  ASSUME IInv, NEW l \in Links, Dead(l),
         \/ \E r \in Requests, v \in Viewers, k \in Links, page \in BOOLEAN :
              Load(r, v, k, page)
         \/ \E k \in Links : CreateShareLink(k) \/ RevokeShareLink(k) \/ Expire(k)
         \/ DeleteExpiredShareLinks
         \/ \E v \in Viewers : Browser(v)
         \/ Restart
         \/ UNCHANGED vars
  PROVE  /\ Dead(l)'
         /\ UnderWay(l)' \subseteq UnderWay(l)
         /\ Uncounted(l)' \subseteq Uncounted(l)
         /\ views'[l] \subseteq views[l]
<1> DEFINE Winds == /\ Dead(l)'
                    /\ UnderWay(l)' \subseteq UnderWay(l)
                    /\ Uncounted(l)' \subseteq Uncounted(l)
                    /\ views'[l] \subseteq views[l]
<1> USE DEF linkVars, browserVars, processVars, Dead, UnderWay, Uncounted
<1> SUFFICES Winds
  OBVIOUS
<1>1. ASSUME NEW r \in Requests, NEW v \in Viewers, NEW k \in Links,
             NEW page \in BOOLEAN, Load(r, v, k, page)
      PROVE  Winds
  <2>1. UNCHANGED <<link, expiry, views>> /\ k # l
    BY <1>1 DEF Load, Servable
  <2>2. req'[r].on = k /\ \A s \in Requests \ {r} : req'[s] = req[s]
    BY <1>1 DEF Load, IInv, TypeOK
  <2> QED
    BY <2>1, <2>2
<1>2. ASSUME NEW k \in Links, CreateShareLink(k)
      PROVE  Winds
  <2>1. k # l /\ UNCHANGED <<req, views>>
    BY <1>2 DEF CreateShareLink
  <2>2. link'[l] = link[l] /\ expiry'[l] = expiry[l]
    BY <1>2, <2>1 DEF CreateShareLink, IInv, TypeOK
  <2> QED
    BY <2>1, <2>2
<1>3. ASSUME NEW k \in Links, RevokeShareLink(k) \/ Expire(k)
      PROVE  Winds
  BY <1>3 DEF RevokeShareLink, Expire, Row, IInv, TypeOK
<1>4. CASE DeleteExpiredShareLinks
  <2>1. views'[l] \subseteq views[l]
    BY <1>4 DEF DeleteExpiredShareLinks, CascadeViews
  <2>2. UNCHANGED <<req, expiry>> /\ link'[l] \in {link[l], "deleted"}
    BY <1>4 DEF DeleteExpiredShareLinks
  <2> QED
    BY <2>1, <2>2
<1>5. ASSUME NEW v \in Viewers, Browser(v)
      PROVE  Winds
  BY <1>5 DEF Browser, CloseBrowser, Move, CookieEnds
<1>6. CASE Restart
  <2>1. NoLink # l
    BY ConstantsAssumption
  <2> QED
    BY <1>6, <2>1 DEF Restart, Free
<1>7. CASE UNCHANGED vars
  BY <1>7 DEF vars
<1> HIDE DEF Winds, Dead, UnderWay, Uncounted
<1> QED
  BY <1>1, <1>2, <1>3, <1>4, <1>5, <1>6, <1>7

\* Revocation and expiry bite at once and for good: nobody gets in any more, and
\* the handlers under way add one view each at most, whatever the janitor, the
\* admin or a restart do between their statements.
THEOREM DeadLinksStayDead == Spec => DeadLinksWindDown
<1>1. IInv /\ IInv' /\ [Next]_vars =>
        \A l \in Links : Dead(l) =>
          /\ Dead(l)'
          /\ UnderWay(l)' \subseteq UnderWay(l)
          /\ Cardinality(views'[l]) + Cardinality(Uncounted(l)')
               <= Cardinality(views[l]) + Cardinality(Uncounted(l))
  <2> SUFFICES ASSUME IInv, IInv', [Next]_vars, NEW l \in Links, Dead(l)
               PROVE  /\ Dead(l)'
                      /\ UnderWay(l)' \subseteq UnderWay(l)
                      /\ Cardinality(views'[l]) + Cardinality(Uncounted(l)')
                           <= Cardinality(views[l]) + Cardinality(Uncounted(l))
    OBVIOUS
  <2>1. ASSUME NEW r \in Requests, Handler(r)
        PROVE  /\ Dead(l)'
               /\ UnderWay(l)' \subseteq UnderWay(l)
               /\ \/ views'[l] \subseteq views[l] /\ Uncounted(l)' \subseteq Uncounted(l)
                  \/ \E s \in Uncounted(l), h \in Hash :
                       /\ views'[l] = views[l] \cup {h}
                       /\ Uncounted(l)' \subseteq Uncounted(l) \ {s}
    <3>1. Dead(l)'
      BY <2>1 DEF Handler, Admit, Refuse, CountFails, TrackView, TrackFails, Render,
         Answer, linkVars, Dead
    <3>2. r \in Uncounted(l) => req[r].hash \in Hash
      BY DEF Uncounted, UnderWay, IInv, ReqInv
    <3> QED
      BY <2>1, <3>1, <3>2, WindDownHandler
  <2>2. ASSUME \/ \E r \in Requests, v \in Viewers, k \in Links, page \in BOOLEAN :
                    Load(r, v, k, page)
               \/ \E k \in Links : CreateShareLink(k) \/ RevokeShareLink(k) \/ Expire(k)
               \/ DeleteExpiredShareLinks
               \/ \E v \in Viewers : Browser(v)
               \/ Restart
               \/ UNCHANGED vars
        PROVE  /\ Dead(l)'
               /\ UnderWay(l)' \subseteq UnderWay(l)
               /\ Uncounted(l)' \subseteq Uncounted(l)
               /\ views'[l] \subseteq views[l]
    BY <2>2, WindDownRest
  <2>3. CASE \E r \in Requests : Handler(r)
    BY <2>1, <2>3, WindDownCount
  <2>4. CASE ~\E r \in Requests : Handler(r)
    BY <2>2, <2>4, WindDownCount DEF Next
  <2> QED
    BY <2>3, <2>4
<1> QED
  BY <1>1, Invariance, PTL DEF Spec, DeadLinksWindDown

=============================================================================
