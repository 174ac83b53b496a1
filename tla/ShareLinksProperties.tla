------------------------- MODULE ShareLinksProperties -------------------------
(* What share links promise, and what is said of them that they do not keep. *)
EXTENDS ShareLinks

-----------------------------------------------------------------------------
(* Safety.                                                                 *)

\* The count and the insert are two statements, so handlers that counted
\* before the others inserted pass together: the limit is overrun by at most
\* one visitor per handler that runs beside the last one admitted, and by one
\* per failed statement, however requests interleave.
OverrunBounded ==
  \A l \in Links :
    limit[l] # 0 =>
      Cardinality(views[l]) <= limit[l] + Cardinality(Requests) - 1 + errors[l]

\* A browser that presents its cookie has been counted: whatever its address,
\* and whatever secret the process has by now, it takes no second place.
CookieIsCounted ==
  \A r \in Requests :
    /\ req[r].pc = "track" /\ req[r].known
    /\ Row(req[r].on) /\ errors[req[r].on] = 0
    => req[r].hash \in views[req[r].on]

\* A link whose page is given out no more.
Dead(l) == link[l] # "none" /\ ~(link[l] = "live" /\ expiry[l] # "past")

UnderWay(l) == {r \in Requests : req[r].on = l}

\* Handlers of l's page that may still insert a view.
Uncounted(l) == {r \in UnderWay(l) : req[r].pc \in {"count", "track"}}

\* Revocation and expiry are for good and bite at once: no request gets in any
\* more, and those that were past the check of the row can add one view each,
\* however they and the janitor, a restart or the admin interleave.
DeadLinksWindDown ==
  [][\A l \in Links : Dead(l) =>
       /\ Dead(l)'
       /\ UnderWay(l)' \subseteq UnderWay(l)
       /\ Cardinality(views'[l]) + Cardinality(Uncounted(l)')
            <= Cardinality(views[l]) + Cardinality(Uncounted(l))]_vars

\* A revoked link is deleted in the end, and no handler that was under way
\* brings a view of it back.
RevokedLeavesNothing ==
  \A l \in Links : link[l] = "revoked" ~> [](link[l] = "deleted" /\ views[l] = {})

-----------------------------------------------------------------------------
(* Refinement.                                                             *)

phase == [l \in Links |-> IF Row(l) THEN "open" ELSE link[l]]

Quota == INSTANCE ShareQuota WITH
  Visitors <- Hash, Quotas <- 0..MaxLimit, quota <- limit, admitted <- views,
  Slack <- Cardinality(Requests) - 1 + MaxErrors

\* Share links implement the quota with a slack for concurrent handlers and
\* failed statements (none, for one handler whose statements do not fail).
ImplementsQuota == Quota!Spec

-----------------------------------------------------------------------------
(* What the design document says and the code does not do.                 *)

\* familyshare-tdd.md:151 "If a record exists, do not increment views; allow
\* access": a visitor who was counted is not refused the images of the page.  (The
\* page itself is refused too when it is opened again, by the same count.)
CountedVisitorGetsPhotos ==
  [][\A r \in Requests :
       req[r].pc = "countPhoto" /\ Refuse(r)
         => req[r].hash \notin views[req[r].on]]_vars

=============================================================================
