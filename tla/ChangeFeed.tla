----------------------------- MODULE ChangeFeed -----------------------------
(***************************************************************************)
(* What the dashboard event stream promises to a page, whatever happens    *)
(* to the connection, the ring of recent events and the server process:    *)
(* the changes of one server process (a "boot") are numbered, and a page   *)
(* moves past a change either by being handed exactly that one, or by a    *)
(* jump that leaves it owing a full reread.  EventStream implements this.  *)
(***************************************************************************)
EXTENDS Naturals

CONSTANT MaxBoots

VARIABLES
  boot,   \* the server process now running
  head,   \* head[b]: how many changes boot b has published
  page,   \* which load of the page this is
  seen,   \* the last change the page stands behind: [boot, at]
  owed    \* the page has to reread what it shows

feedVars == <<boot, head, page, seen, owed>>

Boots == 1..MaxBoots
NoBoot == 0   \* a page that has never heard from a server
Cursors == [boot : {NoBoot} \cup Boots, at : Nat]

Init ==
  /\ boot = 1
  /\ head = [b \in Boots |-> 0]
  /\ page = 1
  /\ seen \in {[boot |-> b, at |-> 0] : b \in {NoBoot, 1}}
  /\ owed = FALSE

Publish ==
  /\ head' = [head EXCEPT ![boot] = @ + 1]
  /\ UNCHANGED <<boot, page, seen, owed>>

Restart ==
  /\ boot < MaxBoots
  /\ boot' = boot + 1
  /\ UNCHANGED <<head, page, seen, owed>>

\* The page is handed change k of boot b: the next one after what it has seen.
Advance(b, k) ==
  /\ k <= head[b]
  /\ seen \in {[boot |-> b, at |-> k - 1], [boot |-> NoBoot, at |-> k - 1]}
  /\ seen' = [boot |-> b, at |-> k]
  /\ owed' \in {owed, TRUE}
  /\ UNCHANGED <<boot, head, page>>

\* The page is told that it missed changes.
Jump(b, k) ==
  /\ k <= head[b]
  /\ seen' = [boot |-> b, at |-> k]
  /\ owed' = TRUE
  /\ UNCHANGED <<boot, head, page>>

\* The page is loaded anew, at a position that some page once stood at.
Reopen(b, k) ==
  /\ k <= head[b]
  /\ page' = page + 1
  /\ seen' = [boot |-> b, at |-> k]
  /\ owed' = FALSE
  /\ UNCHANGED <<boot, head>>

Reread == owed /\ owed' = FALSE /\ UNCHANGED <<boot, head, page, seen>>

AtHead == seen = [boot |-> boot, at |-> head[boot]]

\* The steps that bring the page up to the running server.
CatchUp ==
  ~AtHead /\ \E k \in 0..head[boot] : Advance(boot, k) \/ Jump(boot, k)

Next ==
  \/ Publish \/ Restart \/ Reread
  \/ \E b \in 1..boot : \E k \in 0..head[b] :
       Advance(b, k) \/ Jump(b, k) \/ Reopen(b, k)

Spec == Init /\ [][Next]_feedVars

\* A page that stays behind is brought up to date, and rereads what it owes.
FairSpec == Spec /\ WF_feedVars(CatchUp) /\ WF_feedVars(Reread)
=============================================================================
