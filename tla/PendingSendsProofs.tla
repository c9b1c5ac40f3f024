------------------------- MODULE PendingSendsProofs -------------------------
(***************************************************************************)
(* Type correctness of the echoes, and that a message of the transcript    *)
(* has no echo beside it, for any set of messages, any number of lists,    *)
(* and whatever the user does while requests are out.  And for a user who  *)
(* stays while a request is out (Attended): a message neither disappears   *)
(* before it lands nor comes back after it was taken back.                 *)
(***************************************************************************)
EXTENDS PendingSends, TLAPS

SavedRows == [Sends -> {"none"} \cup Listed]

\* What is saved of a list is a row of saved echoes.
LEMMA SavingType == ASSUME NEW list \in [Sends -> Echoes]
                    PROVE  Saving(list) \in SavedRows
  BY DEF Saving, SavedRows, Echoes, Listed

\* Marking an entry leaves an entry.
LEMMA MarkedType == ASSUME NEW e \in Echoes, NEW a
                    PROVE  Marked(e, a) \in Echoes
  BY DEF Marked, Echoes, Listed

\* Removing an entry changes the types of neither the lists nor the saved rows.
LEMMA RemoveType ==
  ASSUME TypeOK, NEW l, NEW s, Remove(l, s)
  PROVE  /\ echo' \in [Lists -> [Sends -> Echoes]]
         /\ saved' \in [Sends -> {"none"} \cup Listed]
<1>1. echo' \in [Lists -> [Sends -> Echoes]]
  BY DEF TypeOK, Remove, Echoes
<1>2. echo'[current] \in [Sends -> Echoes]
  BY <1>1 DEF TypeOK
<1>3. Saving(echo'[current]) \in SavedRows
  BY <1>2, SavingType
<1> QED
  BY <1>1, <1>3 DEF TypeOK, Remove, SavedRows

\* The four operators that a fetch applies to a list yield a list.
LEMMA FetchTypes ==
  ASSUME TypeOK, NEW list \in [Sends -> Echoes], NEW kept \in SavedRows, NEW others
  PROVE  /\ Reconciled(list, others) \in [Sends -> Echoes]
         /\ Paired(list) \in [Sends -> Echoes]
         /\ Restored(list, kept) \in [Sends -> Echoes]
         /\ \A before : Resaved(before, list, kept) \in SavedRows
<1>1. Reconciled(list, others) \in [Sends -> Echoes] /\ Paired(list) \in [Sends -> Echoes]
  BY DEF Reconciled, Paired, Echoes, Listed
<1>2. Restored(list, kept) \in [Sends -> Echoes]
  BY DEF Restored, SavedRows, Echoes
<1>3. \A before : Resaved(before, list, kept) \in SavedRows
  BY SavingType DEF Resaved, SavedRows
<1> QED
  BY <1>1, <1>2, <1>3

\* The pane starts well typed.
LEMMA InitType == Init => TypeOK
  BY ListsExist DEF Init, TypeOK, All, Lists, NoList, Echoes, Listed

\* Every step keeps the types.
LEMMA StepType == TypeOK /\ [Next]_vars => TypeOK'
<1> SUFFICES ASSUME TypeOK, [Next]_vars PROVE TypeOK'
  OBVIOUS
<1> USE DEF TypeOK
<1>1. ASSUME NEW s \in Sends, Send(s) PROVE TypeOK'
  <2>1. echo' \in [Lists -> [Sends -> Echoes]]
    BY <1>1 DEF Send, Echoes, Listed
  <2>2. saved' \in SavedRows
    BY <1>1, <2>1, SavingType DEF Send
  <2> QED
    BY <1>1, <2>1, <2>2 DEF Send, SavedRows, paneVars
<1>2. ASSUME NEW s \in Sends, Dismiss(s) PROVE TypeOK'
  BY <1>2, RemoveType DEF Dismiss, paneVars
<1>3. ASSUME NEW s \in Sends, Cancel(s) PROVE TypeOK'
  BY <1>3 DEF Cancel, paneVars
<1>4. ASSUME NEW s \in Sends, CancelAnswered(s) PROVE TypeOK'
  BY <1>4, RemoveType DEF CancelAnswered, paneVars, NoList
<1>5. ASSUME NEW s \in Sends, Land(s) PROVE TypeOK'
  BY <1>5 DEF Land, paneVars
<1>6. CASE Open
  <2>1. saved' \in SavedRows
    <3>1. Saving(echo[current]) \in SavedRows /\ All("none") \in SavedRows
      BY SavingType DEF All, SavedRows
    <3>2. saved \in SavedRows
      BY DEF SavedRows
    <3> QED
      BY <1>6, <3>1, <3>2 DEF Open
  <2>2. current' \in Lists
    BY <1>6, ListsExist DEF Open, Lists
  <2> QED
    BY <1>6, <2>1, <2>2 DEF Open, SavedRows, sendVars
<1>7. CASE Focus
  BY <1>7 DEF Focus, sendVars
<1>8. ASSUME NEW s \in Sends, NEW a \in Answers, Serve(s, a) PROVE TypeOK'
  BY <1>8 DEF Serve, paneVars
<1>9. ASSUME NEW s \in Sends, Refused(s) PROVE TypeOK'
  BY <1>9, RemoveType DEF Refused, Hear, paneVars
<1>10. ASSUME NEW s \in Sends, Accepted(s) PROVE TypeOK'
  <2>1. echo' \in [Lists -> [Sends -> Echoes]]
    BY <1>10, MarkedType DEF Accepted
  <2>2. home[s] \in Lists \/ home[s] = NoList
    OBVIOUS
  <2>3. saved' \in SavedRows
    <3>1. CASE home[s] \in Lists
      BY <1>10, <2>1, <3>1, SavingType DEF Accepted, SavedRows
    <3>2. Saving(echo'[home[s]]) \in SavedRows
      BY DEF Saving, SavedRows, Listed
    <3> QED
      BY <1>10, <3>2 DEF Accepted, SavedRows
  <2> QED
    BY <1>10, <2>1, <2>3 DEF Accepted, Hear, SavedRows, paneVars
<1>11. ASSUME NEW s \in Sends, Age(s) PROVE TypeOK'
  BY <1>11 DEF Age, paneVars
<1>12. ASSUME NEW l \in Lists, NEW s \in Sends, Expire(l, s) PROVE TypeOK'
  BY <1>12 DEF Expire, paneVars, sendVars, Echoes
<1>13. CASE Fetch
  <2> PICK others \in RetiredEarly(echo[current]) : Render(others)
    BY <1>13 DEF Fetch
  <2> DEFINE old == echo[current]
             list == Reconciled(old, others)
             kept == IF Saving(list) # Saving(old) THEN Saving(list) ELSE saved
             new == Paired(Restored(Paired(list), kept))
  <2>1. old \in [Sends -> Echoes]
    OBVIOUS
  <2>2. list \in [Sends -> Echoes]
    BY <2>1, FetchTypes DEF SavedRows
  <2>3. kept \in SavedRows
    BY <2>2, SavingType DEF SavedRows
  <2>4. Paired(list) \in [Sends -> Echoes]
    BY <2>2, <2>3, FetchTypes
  <2>5. Restored(Paired(list), kept) \in [Sends -> Echoes]
    BY <2>3, <2>4, FetchTypes
  <2>6. new \in [Sends -> Echoes]
    BY <2>3, <2>5, FetchTypes
  <2>7. Resaved(list, new, kept) \in SavedRows
    BY <2>3, <2>6, FetchTypes
  <2>8. /\ echo' = [echo EXCEPT ![current] = new]
        /\ saved' = Resaved(list, new, kept)
        /\ fetched' = TRUE /\ inView' = Landed /\ early' = early \cup others
        /\ UNCHANGED <<focus, shown, current, sendVars>>
    BY DEF Render
  <2>9. others \subseteq Sends
    BY DEF RetiredEarly
  <2> HIDE DEF new, kept, list, old
  <2> QED
    BY <2>6, <2>7, <2>8, <2>9 DEF sendVars, SavedRows, Landed
<1>14. CASE UNCHANGED vars
  BY <1>14 DEF vars, paneVars, sendVars
<1> QED
  BY <1>1, <1>2, <1>3, <1>4, <1>5, <1>6, <1>7, <1>8, <1>9, <1>10, <1>11,
     <1>12, <1>13, <1>14
  DEF Next, ServeSome, HearSome, AgeSome, ExpireSome

\* Every variable keeps its type.
THEOREM TypeCorrect == Spec => []TypeOK
  BY InitType, StepType, PTL DEF Spec

-----------------------------------------------------------------------------
(***************************************************************************)
(* The invariant behind LandedHasNoEcho: a row of the transcript is a      *)
(* message that landed, and a landed message never leaves that state, so   *)
(* neither a late answer nor a restored copy starts an echo of it again.   *)
(***************************************************************************)
ViewInv == inView \subseteq Landed

EchoInv == ViewInv /\ LandedHasNoEcho

\* Nothing has landed at the start.
LEMMA InitEcho == Init => EchoInv
  BY DEF Init, EchoInv, ViewInv, LandedHasNoEcho, Rendered, All

\* No step takes a landed message back.
LEMMA LandedStays == TypeOK /\ [Next]_vars => Landed \subseteq Landed'
<1> SUFFICES ASSUME TypeOK, [Next]_vars, NEW m \in Sends, server[m] = "landed"
             PROVE  server'[m] = "landed"
  BY DEF Landed
<1> USE DEF TypeOK
<1>1. ASSUME NEW s \in Sends, Send(s) \/ Dismiss(s) \/ Cancel(s) \/ CancelAnswered(s) \/ Land(s)
      PROVE  server'[m] = "landed"
  BY <1>1 DEF Send, Dismiss, Cancel, CancelAnswered, Land
<1>2. ASSUME NEW s \in Sends, NEW a \in Answers, Serve(s, a) PROVE server'[m] = "landed"
  BY <1>2 DEF Serve
<1>3. ASSUME NEW s \in Sends, Refused(s) \/ Accepted(s) \/ Age(s) PROVE server'[m] = "landed"
  BY <1>3 DEF Refused, Accepted, Age
<1>4. CASE Open \/ Focus \/ ExpireSome \/ Fetch \/ UNCHANGED vars
  BY <1>4 DEF Open, Focus, ExpireSome, Expire, Fetch, Render, vars, sendVars
<1> QED
  BY <1>1, <1>2, <1>3, <1>4 DEF Next, ServeSome, HearSome, AgeSome

\* After a fetch no landed message has an entry in the pane's list.
LEMMA FetchClears ==
  ASSUME TypeOK, Fetch, NEW m \in Landed
  PROVE  echo'[current][m] = "none"
<1> PICK others \in RetiredEarly(echo[current]) : Render(others)
  BY DEF Fetch
<1> DEFINE list == Reconciled(echo[current], others)
           kept == IF Saving(list) # Saving(echo[current]) THEN Saving(list) ELSE saved
           new == Paired(Restored(Paired(list), kept))
<1>1. m \in Sends /\ server[m] = "landed"
  BY DEF Landed
<1>2. list[m] = "none"
  BY <1>1 DEF Reconciled
<1>3. Paired(list)[m] = "none"
  BY <1>1, <1>2 DEF Paired
<1>4. Restored(Paired(list), kept)[m] = "none"
  BY <1>1, <1>3 DEF Restored
<1>5. new[m] = "none"
  BY <1>1, <1>4 DEF Paired
<1>6. echo' = [echo EXCEPT ![current] = new]
  BY DEF Render
<1> QED
  BY <1>5, <1>6 DEF TypeOK

\* The strengthened invariant is inductive.
LEMMA StepEcho == TypeOK /\ EchoInv /\ [Next]_vars => EchoInv'
<1> SUFFICES ASSUME TypeOK, EchoInv, [Next]_vars PROVE EchoInv'
  OBVIOUS
<1> USE DEF TypeOK, EchoInv, ViewInv
<1>1. Landed \subseteq Landed'
  BY LandedStays
<1>2. ViewInv'
  BY <1>1 DEF Next, ServeSome, HearSome, AgeSome, ExpireSome, Send, Dismiss, Cancel,
     CancelAnswered, Land, Open, Focus, Serve, Refused, Accepted, Age, Expire, Fetch, Render,
     paneVars, vars
<1>3. ASSUME NEW m \in Sends, (Rendered /\ m \in inView)' PROVE echo'[current'][m] = "none"
  <2>1. CASE Fetch
    <3>1. current' = current /\ inView' = Landed
      BY <2>1 DEF Fetch, Render
    <3> QED
      BY <1>3, <2>1, <3>1, FetchClears
  <2>2. CASE Open
    BY <1>3, <2>2 DEF Open, Rendered
  <2>3. CASE ~Fetch /\ ~Open
    <3>1. /\ UNCHANGED <<shown, fetched, current, inView>>
      BY <2>3 DEF Next, ServeSome, HearSome, AgeSome, ExpireSome, Send, Dismiss,
         Cancel, CancelAnswered, Land, Focus, Serve, Refused, Accepted, Age, Expire,
         paneVars, vars
    <3>2. echo[current][m] = "none" /\ server[m] = "landed"
      BY <1>3, <3>1 DEF Rendered, LandedHasNoEcho, Landed
    <3>3. ASSUME NEW s \in Sends, Send(s) PROVE echo'[current][m] = "none"
      <4>1. m # s
        BY <3>2, <3>3 DEF Send
      <4> QED
        BY <3>2, <3>3, <4>1 DEF Send
    <3>4. ASSUME NEW s \in Sends, NEW l, Remove(l, s) PROVE echo'[current][m] = "none"
      BY <3>2, <3>4 DEF Remove
    <3>5. ASSUME NEW s \in Sends, Accepted(s) PROVE echo'[current][m] = "none"
      BY <3>2, <3>5 DEF Accepted, Marked
    <3>6. ASSUME NEW s \in Sends, NEW l \in Lists, Expire(l, s)
          PROVE  echo'[current][m] = "none"
      BY <3>2, <3>6 DEF Expire
    <3>7. CASE UNCHANGED echo
      BY <3>1, <3>2, <3>7
    <3> QED
      BY <2>3, <3>1, <3>3, <3>4, <3>5, <3>6, <3>7 DEF Next, ServeSome, HearSome,
         AgeSome, ExpireSome, Dismiss, Cancel, CancelAnswered, Land, Focus, Serve,
         Refused, Age, vars
  <2> QED
    BY <2>1, <2>2, <2>3
<1> QED
  BY <1>2, <1>3 DEF LandedHasNoEcho, Landed

\* A message of the transcript has no echo beside it, however late its answer
\* arrives, whichever list the answer's handler holds and whatever was saved.
THEOREM LandedNeverEchoed == Spec => []LandedHasNoEcho
<1>1. Init => TypeOK /\ EchoInv
  BY InitType, InitEcho
<1>2. (TypeOK /\ EchoInv) /\ [Next]_vars => (TypeOK /\ EchoInv)'
  BY StepType, StepEcho
<1>3. TypeOK /\ EchoInv => LandedHasNoEcho
  BY DEF EchoInv
<1> QED
  BY <1>1, <1>2, <1>3, PTL DEF Spec

-----------------------------------------------------------------------------
(***************************************************************************)
(* Echoes of an attentive user.  Requests that are out belong to the list  *)
(* on screen, a list that no transcript has filled yet is empty, and each  *)
(* echo is where it is looked for: in the list once the transcript has     *)
(* come, in the saved rows until then.                                     *)
(***************************************************************************)
Row(s) == IF fetched THEN echo[current][s] ELSE saved[s]

RequestsHere ==
  /\ \A s \in Sends : cancelling[s] \in {NoList, current}
  /\ \A s \in Sends : server[s] # "none" /\ ~heard[s] => home[s] = current
  /\ Waiting => shown /\ focus /\ fetched
  /\ fetched => shown

EmptyUntilFetched ==
  /\ \A l \in Lists : l > current => echo[l] = All("none")
  /\ ~fetched => echo[current] = All("none")

\* What has not been sent has left no trace, and answers match the server.
Courses == \A s \in Sends :
  /\ server[s] = "none" =>
       /\ ~heard[s] /\ ~aged[s] /\ ~gone[s] /\ cancelling[s] = NoList
       /\ saved[s] = "none" /\ \A l \in Lists : echo[l][s] = "none"
  /\ server[s] \in {"none", "posted"} <=> answer[s] = "none"
  /\ server[s] = "posted" => ~heard[s]
  /\ aged[s] => heard[s]
  /\ answer[s] = "refused" => server[s] = "refused"

Unlanded(s) ==
  server[s] \in {"posted", "accepted", "parked"} /\ ~aged[s] /\ ~gone[s] /\ s \notin early
Confirmed(s) ==
  server[s] = "accepted" /\ answer[s] = "delivered" /\ heard[s] /\ ~gone[s]
  /\ s \notin early
Away(s) == gone[s] \/ (answer[s] = "refused" /\ heard[s])

EchoKept == \A s \in Sends :
  /\ Unlanded(s) => Row(s) \in Listed
  /\ Confirmed(s) => Row(s) \in {"queued", "delivered"}
  /\ Away(s) => echo[current][s] = "none" /\ saved[s] = "none"

AttendedInv ==
  TypeOK /\ RequestsHere /\ EmptyUntilFetched /\ Courses /\ EchoKept

\* The three properties follow.
LEMMA AttendedImplies ==
  AttendedInv => UnlandedStaysVisible /\ DeliveredStaysVisible /\ WithdrawnIsGone
BY DEF AttendedInv, EchoKept, Unlanded, Confirmed, Away, Row, Rendered,
   UnlandedStaysVisible, DeliveredStaysVisible, WithdrawnIsGone, CancelledIsGone,
   RefusedIsGone, Listed

\* They hold at the start.
LEMMA InitAttended == Init => AttendedInv
<1> SUFFICES ASSUME Init PROVE AttendedInv
  OBVIOUS
<1>1. TypeOK
  BY InitType
<1>2. RequestsHere /\ EmptyUntilFetched
  BY DEF Init, RequestsHere, EmptyUntilFetched, Waiting, All
<1>3. Courses /\ EchoKept
  BY DEF Init, Courses, EchoKept, Unlanded, Confirmed, Away, Row, All
<1> QED
  BY <1>1, <1>2, <1>3 DEF AttendedInv

\* The echoes and saved rows a step leaves behind: entries of the list on
\* screen may change, for one message, and what is saved is that list.
LEMMA ListSaved ==
  ASSUME NEW list \in [Sends -> Echoes], NEW s \in Sends
  PROVE  /\ list[s] \in Listed => Saving(list)[s] = list[s]
         /\ list[s] = "none" => Saving(list)[s] = "none"
         /\ Saving(list)[s] \in {"none", list[s]}
BY DEF Saving, Listed

\* A step may change the entry of one message in the list on screen, if that is
\* in use; what it saves is that list.
LEMMA EntryChanges ==
  ASSUME AttendedInv, TypeOK', NEW m \in Sends, NEW e, fetched,
         echo' = [echo EXCEPT ![current][m] = e],
         saved' \in {saved, Saving(echo'[current])},
         UNCHANGED <<current, fetched, early>>,
         \A s \in Sends \ {m} :
           /\ server'[s] = server[s] /\ answer'[s] = answer[s]
           /\ heard'[s] = heard[s] /\ gone'[s] = gone[s] /\ aged'[s] = aged[s]
           /\ cancelling'[s] = cancelling[s],
         server'[m] # "none",
         \/ server'[m] = "posted" /\ answer'[m] = "none" /\ ~heard'[m]
         \/ server'[m] # "posted" /\ answer'[m] # "none",
         aged'[m] => heard'[m],
         answer'[m] = "refused" => server'[m] = "refused",
         Unlanded(m)' => e \in Listed,
         Confirmed(m)' => e \in {"queued", "delivered"},
         Away(m)' => e = "none" /\ (saved'[m] = "none")
  PROVE  EmptyUntilFetched' /\ Courses' /\ EchoKept'
<1>1. /\ TypeOK /\ EmptyUntilFetched /\ Courses /\ EchoKept
  BY DEF AttendedInv
<1>2. /\ echo \in [Lists -> [Sends -> Echoes]] /\ current \in Lists
      /\ echo'[current] \in [Sends -> Echoes]
  BY <1>1 DEF TypeOK
<1>3. /\ echo'[current][m] = e
      /\ \A s \in Sends \ {m} : echo'[current][s] = echo[current][s]
      /\ \A l \in Lists \ {current} : echo'[l] = echo[l]
  BY <1>2
<1>4. \A s \in Sends \ {m} :
        echo[current][s] = "none" /\ saved[s] = "none" => saved'[s] = "none"
  <2> SUFFICES ASSUME NEW s \in Sends \ {m}, echo[current][s] = "none", saved[s] = "none"
               PROVE  saved'[s] = "none"
    OBVIOUS
  <2>1. CASE saved' = saved
    BY <2>1
  <2>2. CASE saved' = Saving(echo'[current])
    <3>1. Saving(echo'[current])[s] = "none"
      BY <1>3 DEF Saving, Listed
    <3> QED
      BY <2>2, <3>1
  <2> QED
    BY <2>1, <2>2
<1>5. EmptyUntilFetched'
  BY <1>1, <1>2, <1>3 DEF EmptyUntilFetched, All, Lists
<1>6. Courses'
  <2>1. ASSUME NEW s \in Sends \ {m}, server'[s] = "none"
        PROVE  saved'[s] = "none" /\ \A l \in Lists : echo'[l][s] = "none"
    BY <1>1, <1>2, <1>3, <1>4, <2>1 DEF Courses
  <2>2. \A s \in Sends \ {m} :
          /\ server'[s] = "none" =>
               /\ ~heard'[s] /\ ~aged'[s] /\ ~gone'[s] /\ cancelling'[s] = NoList
          /\ server'[s] \in {"none", "posted"} <=> answer'[s] = "none"
          /\ server'[s] = "posted" => ~heard'[s]
          /\ aged'[s] => heard'[s]
          /\ answer'[s] = "refused" => server'[s] = "refused"
    BY <1>1 DEF Courses
  <2> QED
    BY <2>1, <2>2 DEF Courses
<1>7. EchoKept'
  <2>1. ASSUME NEW s \in Sends \ {m}
        PROVE  /\ Unlanded(s)' => Row(s)' \in Listed
               /\ Confirmed(s)' => Row(s)' \in {"queued", "delivered"}
               /\ Away(s)' => echo'[current'][s] = "none" /\ saved'[s] = "none"
    <3>1. /\ Unlanded(s)' <=> Unlanded(s)
          /\ Confirmed(s)' <=> Confirmed(s)
          /\ Away(s)' <=> Away(s)
          /\ Row(s)' = Row(s)
      BY <1>3 DEF Unlanded, Confirmed, Away, Row
    <3> QED
      BY <1>1, <1>3, <1>4, <3>1 DEF EchoKept
  <2>2. Row(m)' = e /\ echo'[current'][m] = e
    BY <1>3 DEF Row
  <2> QED
    BY <2>1, <2>2 DEF EchoKept
<1> QED
  BY <1>5, <1>6, <1>7

\* Removing the entry of a message that is away by now.
LEMMA RemoveAttended ==
  ASSUME AttendedInv, TypeOK', NEW m \in Sends, Remove(current, m),
         focus, shown, fetched,
         UNCHANGED <<current, fetched, early>>,
         \A s \in Sends \ {m} :
           /\ server'[s] = server[s] /\ answer'[s] = answer[s]
           /\ heard'[s] = heard[s] /\ gone'[s] = gone[s] /\ aged'[s] = aged[s]
           /\ cancelling'[s] = cancelling[s],
         server'[m] = server[m], answer'[m] = answer[m], server[m] # "none",
         aged'[m] = aged[m],
         \/ heard'[m] = heard[m] /\ gone'[m]
         \/ heard'[m] /\ answer[m] = "refused"
  PROVE  EmptyUntilFetched' /\ Courses' /\ EchoKept'
<1>1. TypeOK /\ Courses
  BY DEF AttendedInv
<1>2. /\ echo' = [echo EXCEPT ![current][m] = "none"]
      /\ saved' = Saving(echo'[current])
  BY DEF Remove
<1>3. echo'[current] \in [Sends -> Echoes] /\ echo'[current][m] = "none"
  BY <1>1, <1>2 DEF TypeOK
<1>4. saved'[m] = "none"
  BY <1>2, <1>3, ListSaved
<1>5. ~Unlanded(m)' /\ ~Confirmed(m)'
  BY <1>1 DEF Unlanded, Confirmed, Courses
<1>6. /\ \/ server'[m] = "posted" /\ answer'[m] = "none" /\ ~heard'[m]
         \/ server'[m] # "posted" /\ answer'[m] # "none"
      /\ aged'[m] => heard'[m]
      /\ answer'[m] = "refused" => server'[m] = "refused"
  BY <1>1 DEF Courses
<1> QED
  BY <1>2, <1>4, <1>5, <1>6, EntryChanges

\* A step that leaves the lists and the saved rows alone.
LEMMA EchoesStay ==
  ASSUME AttendedInv, UNCHANGED <<current, fetched, early, echo, saved>>,
         NEW m \in Sends,
         \A s \in Sends \ {m} :
           /\ server'[s] = server[s] /\ answer'[s] = answer[s]
           /\ heard'[s] = heard[s] /\ gone'[s] = gone[s] /\ aged'[s] = aged[s]
           /\ cancelling'[s] = cancelling[s],
         server[m] # "none", server'[m] # "none",
         \/ server'[m] = "posted" /\ answer'[m] = "none" /\ ~heard'[m]
         \/ server'[m] # "posted" /\ answer'[m] # "none",
         aged'[m] => heard'[m],
         answer'[m] = "refused" => server'[m] = "refused",
         Unlanded(m)' => Unlanded(m),
         Confirmed(m)' => Confirmed(m),
         Away(m)' => Away(m)
  PROVE  EmptyUntilFetched' /\ Courses' /\ EchoKept'
<1>1. EmptyUntilFetched /\ Courses /\ EchoKept
  BY DEF AttendedInv
<1>2. EmptyUntilFetched'
  BY <1>1 DEF EmptyUntilFetched
<1>3. Courses'
  BY <1>1 DEF Courses
<1>4. EchoKept'
  <2>1. \A s \in Sends : /\ Unlanded(s)' => Unlanded(s)
                         /\ Confirmed(s)' => Confirmed(s)
                         /\ Away(s)' => Away(s)
                         /\ Row(s)' = Row(s)
    BY DEF Unlanded, Confirmed, Away, Row
  <2> QED
    BY <1>1, <2>1 DEF EchoKept
<1> QED
  BY <1>2, <1>3, <1>4

\* A request that goes out or comes back concerns one message: the others stay
\* those of the list on screen.
LEMMA RequestsStay ==
  ASSUME RequestsHere, UNCHANGED <<focus, shown, fetched, current>>,
         NEW m \in Sends, shown, focus, fetched,
         \A s \in Sends \ {m} :
           /\ server'[s] = server[s] /\ heard'[s] = heard[s]
           /\ cancelling'[s] = cancelling[s] /\ home'[s] = home[s],
         cancelling'[m] \in {NoList, current},
         server'[m] # "none" /\ ~heard'[m] => home'[m] = current
  PROVE  RequestsHere'
BY DEF RequestsHere, Waiting

\* A step after which no more requests are out than before.
LEMMA RequestsFewer ==
  ASSUME RequestsHere, UNCHANGED <<focus, shown, fetched, current, home>>,
         \A s \in Sends :
           /\ server'[s] # "none" /\ ~heard'[s] => server[s] # "none" /\ ~heard[s]
           /\ cancelling'[s] \in {NoList, cancelling[s]}
  PROVE  RequestsHere'
BY DEF RequestsHere, Waiting

-----------------------------------------------------------------------------
(* A fetch, for one message *)

\* Neither listed nor saved: a fetch brings nothing up.
LEMMA FetchNone ==
  ASSUME TypeOK, Fetch, NEW s \in Sends, echo[current][s] = "none", saved[s] = "none"
  PROVE  echo'[current][s] = "none" /\ saved'[s] = "none"
<1> PICK others \in RetiredEarly(echo[current]) : Render(others)
  BY DEF Fetch
<1> DEFINE list == Reconciled(echo[current], others)
           rows == IF Saving(list) # Saving(echo[current]) THEN Saving(list) ELSE saved
           new == Paired(Restored(Paired(list), rows))
<1>1. list[s] = "none"
  BY DEF Reconciled
<1>2. Saving(list)[s] = "none"
  BY <1>1 DEF Saving, Listed
<1>3. rows[s] = "none"
  <2>1. CASE Saving(list) # Saving(echo[current])
    BY <1>2, <2>1
  <2>2. CASE Saving(list) = Saving(echo[current])
    BY <2>2
  <2> QED
    BY <2>1, <2>2
<1>4. Paired(list)[s] = "none"
  BY <1>1 DEF Paired
<1> HIDE DEF rows, list
<1>5. Restored(Paired(list), rows)[s] = "none"
  BY <1>3, <1>4 DEF Restored
<1>6. new[s] = "none"
  BY <1>5 DEF Paired
<1>7. Saving(new)[s] = "none"
  BY <1>6 DEF Saving, Listed
<1>8. echo' = [echo EXCEPT ![current] = new] /\ saved' = Resaved(list, new, rows)
  BY DEF Render, list, rows
<1>9. saved'[s] = "none"
  <2> HIDE DEF new
  <2> QED
    BY <1>3, <1>7, <1>8 DEF Resaved
<1> QED
  BY <1>6, <1>8, <1>9 DEF TypeOK

\* A listed echo that neither landed nor went for another row stays, as it is or
\* as queued.
LEMMA FetchKeeps ==
  ASSUME TypeOK, Fetch, NEW s \in Sends, s \notin Landed, s \notin early',
         echo[current][s] \in Listed
  PROVE  echo'[current][s] \in {echo[current][s], "queued"}
<1> PICK others \in RetiredEarly(echo[current]) : Render(others)
  BY DEF Fetch
<1> DEFINE list == Reconciled(echo[current], others)
           rows == IF Saving(list) # Saving(echo[current]) THEN Saving(list) ELSE saved
           new == Paired(Restored(Paired(list), rows))
<1>1. list[s] = echo[current][s]
  <2>1. s \notin others
    BY DEF Render
  <2> QED
    BY <2>1 DEF Reconciled
<1> HIDE DEF rows, list
<1>2. Paired(list)[s] \in {echo[current][s], "queued"}
  BY <1>1 DEF Paired
<1>3. Restored(Paired(list), rows)[s] = Paired(list)[s]
  BY <1>2 DEF Restored, Listed
<1>4. new[s] \in {echo[current][s], "queued"}
  BY <1>2, <1>3 DEF Paired
<1>5. echo' = [echo EXCEPT ![current] = new]
  BY DEF Render, list, rows
<1> QED
  BY <1>4, <1>5 DEF TypeOK

\* A saved row that has not landed and is not outdated comes back into a list
\* without entries.
LEMMA FetchRestores ==
  ASSUME TypeOK, Fetch, NEW s \in Sends, s \notin Landed, echo[current] = All("none"),
         Kept(s, saved[s])
  PROVE  echo'[current][s] \in {saved[s], "queued"}
<1> PICK others \in RetiredEarly(echo[current]) : Render(others)
  BY DEF Fetch
<1> DEFINE list == Reconciled(echo[current], others)
           rows == IF Saving(list) # Saving(echo[current]) THEN Saving(list) ELSE saved
           new == Paired(Restored(Paired(list), rows))
<1>1. list = echo[current]
  <2>1. others = {}
    BY DEF RetiredEarly, All
  <2> QED
    BY <2>1 DEF Reconciled, All
<1>2. rows = saved
  BY <1>1
<1>3. echo' = [echo EXCEPT ![current] = new]
  BY DEF Render
<1>4. list[s] = "none"
  BY <1>1 DEF All
<1> HIDE DEF rows, list
<1>5. Paired(list)[s] = "none"
  BY <1>4 DEF Paired
<1>6. Restored(Paired(list), rows)[s] = saved[s]
  BY <1>2, <1>5 DEF Restored
<1>7. new[s] \in {saved[s], "queued"}
  BY <1>6 DEF Paired
<1> QED
  BY <1>3, <1>7 DEF TypeOK

\* A fetch keeps the invariant.
LEMMA FetchAttended ==
  ASSUME AttendedInv, Fetch
  PROVE  RequestsHere' /\ EmptyUntilFetched' /\ Courses' /\ EchoKept'
<1>1. TypeOK /\ RequestsHere /\ EmptyUntilFetched /\ Courses /\ EchoKept
  BY DEF AttendedInv
<1>2. /\ shown /\ fetched' = TRUE /\ early \subseteq early'
      /\ UNCHANGED <<focus, shown, current, server, answer, heard, home, cancelling,
                     gone, aged>>
      /\ \A l \in Lists : l # current => echo'[l] = echo[l]
  BY <1>1 DEF Fetch, Render, sendVars, TypeOK
<1>3. RequestsHere'
  BY <1>1, <1>2 DEF RequestsHere, Waiting
<1>4. EmptyUntilFetched'
  BY <1>1, <1>2 DEF EmptyUntilFetched, TypeOK, Lists
<1>5. Courses'
  <2>1. ASSUME NEW s \in Sends, server[s] = "none"
        PROVE  saved'[s] = "none" /\ \A l \in Lists : echo'[l][s] = "none"
    BY <1>1, <1>2, <2>1, FetchNone DEF Courses, TypeOK
  <2> QED
    BY <1>1, <1>2, <2>1 DEF Courses
<1>6. EchoKept'
  <2> SUFFICES ASSUME NEW s \in Sends
               PROVE  /\ Unlanded(s) /\ s \notin early' => echo'[current][s] \in Listed
                      /\ Confirmed(s) /\ s \notin early'
                           => echo'[current][s] \in {"queued", "delivered"}
                      /\ Away(s) => echo'[current][s] = "none" /\ saved'[s] = "none"
    BY <1>2 DEF EchoKept, Unlanded, Confirmed, Away, Row
  <2>1. ASSUME Away(s) PROVE echo'[current][s] = "none" /\ saved'[s] = "none"
    BY <1>1, <2>1, FetchNone DEF EchoKept
  <2>2. ASSUME Unlanded(s) \/ Confirmed(s)
        PROVE  s \notin Landed
    BY <2>2 DEF Landed, Unlanded, Confirmed
  <2>3. ASSUME Unlanded(s) PROVE Row(s) \in Listed /\ ~aged[s]
    BY <1>1, <2>3 DEF EchoKept, Unlanded
  <2>4. ASSUME Confirmed(s) PROVE Row(s) \in {"queued", "delivered"}
    BY <1>1, <2>4 DEF EchoKept
  <2>5. CASE fetched
    BY <2>1, <2>2, <2>3, <2>4, <2>5, <1>1, FetchKeeps DEF Row, Listed
  <2>6. CASE ~fetched
    <3>1. echo[current] = All("none")
      BY <1>1, <2>6 DEF EmptyUntilFetched
    <3>2. Unlanded(s) \/ Confirmed(s) => Kept(s, saved[s])
      BY <2>3, <2>4, <2>6 DEF Row, Kept, Listed
    <3> QED
      BY <2>1, <2>2, <2>3, <2>4, <2>6, <3>1, <3>2, <1>1, FetchRestores DEF Row, Listed
  <2> QED
    BY <2>5, <2>6
<1> QED
  BY <1>3, <1>4, <1>5, <1>6

\* So does a change of the conversation: what the list held is saved now.
LEMMA OpenAttended ==
  ASSUME Attended, AttendedInv, Open
  PROVE  RequestsHere' /\ EmptyUntilFetched' /\ Courses' /\ EchoKept'
<1>1. TypeOK /\ RequestsHere /\ EmptyUntilFetched /\ Courses /\ EchoKept
  BY DEF AttendedInv
<1>2. /\ ~Waiting /\ (shown => fetched) /\ (fetched => shown) /\ early' = early
      /\ fetched' = FALSE /\ current' = current + 1
      /\ saved' = IF shown THEN Saving(echo[current]) ELSE saved
      /\ UNCHANGED <<echo, server, answer, heard, home, cancelling, gone, aged>>
  BY <1>1 DEF Open, sendVars, RequestsHere
<1>3. /\ echo \in [Lists -> [Sends -> Echoes]] /\ current \in Lists
      /\ current + 1 \in Lists
  BY <1>1, ListsExist DEF TypeOK, Open, Lists
<1>4. echo[current + 1] = All("none")
  BY <1>1, <1>3 DEF EmptyUntilFetched, Lists
<1>5. RequestsHere'
  BY <1>2 DEF RequestsHere, Waiting
<1>6. EmptyUntilFetched'
  BY <1>1, <1>2, <1>3, <1>4 DEF EmptyUntilFetched, Lists
<1>7. \A s \in Sends : /\ Row(s) \in Listed => saved'[s] = Row(s)
                       /\ echo[current][s] = "none" /\ saved[s] = "none" => saved'[s] = "none"
  <2>1. CASE shown
    BY <1>2, <2>1 DEF Row, Saving, Listed
  <2>2. CASE ~shown
    BY <1>2, <2>2 DEF Row
  <2> QED
    BY <2>1, <2>2
<1>8. Courses'
  BY <1>1, <1>2, <1>3, <1>7 DEF Courses
<1>9. EchoKept'
  <2> SUFFICES ASSUME NEW s \in Sends
               PROVE  /\ Unlanded(s) => saved'[s] \in Listed
                      /\ Confirmed(s) => saved'[s] \in {"queued", "delivered"}
                      /\ Away(s) => saved'[s] = "none"
    BY <1>2, <1>4 DEF EchoKept, Unlanded, Confirmed, Away, Row, All
  <2> QED
    BY <1>1, <1>7 DEF EchoKept, Listed
<1> QED
  BY <1>5, <1>6, <1>8, <1>9

-----------------------------------------------------------------------------
\* A send: its echo joins the list on screen.
LEMMA SendAttended ==
  ASSUME Attended, AttendedInv, TypeOK', NEW m \in Sends, Send(m)
  PROVE  RequestsHere' /\ EmptyUntilFetched' /\ Courses' /\ EchoKept'
<1>1. TypeOK /\ RequestsHere /\ Courses
  BY DEF AttendedInv
<1>2. /\ server[m] = "none" /\ shown /\ focus /\ fetched
      /\ echo' = [echo EXCEPT ![current][m] = "sending"]
      /\ saved' = Saving(echo'[current])
      /\ UNCHANGED <<focus, shown, fetched, current, early, answer, heard, cancelling, gone, aged>>
  BY DEF Send, paneVars
<1>3. /\ server'[m] = "posted" /\ home'[m] = current
      /\ \A s \in Sends \ {m} : server'[s] = server[s] /\ home'[s] = home[s]
  BY <1>1 DEF Send, TypeOK
<1>4. /\ answer[m] = "none" /\ ~heard[m] /\ ~aged[m] /\ ~gone[m]
      /\ cancelling[m] = NoList
  BY <1>1, <1>2 DEF Courses
<1>5. RequestsHere'
  BY <1>1, <1>2, <1>3, <1>4, RequestsStay
<1>6. "sending" \in Listed /\ ~Confirmed(m)' /\ ~Away(m)'
  BY <1>2, <1>3, <1>4 DEF Listed, Confirmed, Away
<1>7. EmptyUntilFetched' /\ Courses' /\ EchoKept'
  BY <1>2, <1>3, <1>4, <1>6, EntryChanges
<1> QED
  BY <1>5, <1>7

\* The cross on an echo.
LEMMA DismissAttended ==
  ASSUME Attended, AttendedInv, TypeOK', NEW m \in Sends, Dismiss(m)
  PROVE  RequestsHere' /\ EmptyUntilFetched' /\ Courses' /\ EchoKept'
<1>1. TypeOK /\ RequestsHere /\ EmptyUntilFetched /\ Courses
  BY DEF AttendedInv
<1>2. /\ shown /\ focus /\ echo[current][m] = "sending" /\ Remove(current, m)
      /\ gone' = [gone EXCEPT ![m] = TRUE]
      /\ UNCHANGED <<focus, shown, fetched, current, early, server, answer, heard, home,
                     cancelling, aged>>
  BY DEF Dismiss, paneVars
<1>3. fetched /\ server[m] # "none"
  BY <1>1, <1>2 DEF EmptyUntilFetched, Courses, All, TypeOK
<1>4. gone'[m] /\ \A s \in Sends \ {m} : gone'[s] = gone[s]
  BY <1>1, <1>2 DEF TypeOK
<1>5. RequestsHere'
  BY <1>1, <1>2, RequestsFewer
<1>6. EmptyUntilFetched' /\ Courses' /\ EchoKept'
  BY <1>2, <1>3, <1>4, RemoveAttended
<1> QED
  BY <1>5, <1>6

\* Cancelling a queued card asks the server to withdraw the message.
LEMMA CancelAttended ==
  ASSUME Attended, AttendedInv, TypeOK', NEW m \in Sends, Cancel(m)
  PROVE  RequestsHere' /\ EmptyUntilFetched' /\ Courses' /\ EchoKept'
<1>1. TypeOK /\ RequestsHere /\ EmptyUntilFetched /\ Courses
  BY DEF AttendedInv
<1>2. /\ shown /\ focus /\ echo[current][m] = "queued"
      /\ UNCHANGED <<focus, shown, fetched, current, early, echo, saved, answer, heard, home,
                     gone, aged>>
  BY DEF Cancel, paneVars
<1>3. /\ cancelling'[m] = current
      /\ server'[m] = IF server[m] = "parked" THEN "withdrawn" ELSE server[m]
      /\ \A s \in Sends \ {m} : cancelling'[s] = cancelling[s] /\ server'[s] = server[s]
  BY <1>1 DEF Cancel, TypeOK
<1>4. fetched /\ server[m] # "none"
  BY <1>1, <1>2 DEF EmptyUntilFetched, Courses, All, TypeOK
<1>5. RequestsHere'
  <2>1. server'[m] # "none" /\ ~heard'[m] => home'[m] = current
    BY <1>1, <1>2, <1>4 DEF RequestsHere
  <2> QED
    BY <1>1, <1>2, <1>3, <1>4, <2>1, RequestsStay
<1>6. /\ server'[m] # "none"
      /\ \/ server'[m] = "posted" /\ answer'[m] = "none" /\ ~heard'[m]
         \/ server'[m] # "posted" /\ answer'[m] # "none"
      /\ aged'[m] => heard'[m]
      /\ answer'[m] = "refused" => server'[m] = "refused"
  BY <1>1, <1>2, <1>3, <1>4 DEF Courses
<1>7. /\ Unlanded(m)' => Unlanded(m)
      /\ Confirmed(m)' => Confirmed(m)
      /\ Away(m)' => Away(m)
  BY <1>2, <1>3 DEF Unlanded, Confirmed, Away
<1>8. EmptyUntilFetched' /\ Courses' /\ EchoKept'
  BY <1>2, <1>3, <1>4, <1>6, <1>7, EchoesStay
<1> QED
  BY <1>5, <1>8

\* The answer to the cancel takes the echo away.
LEMMA CancelAnsweredAttended ==
  ASSUME Attended, AttendedInv, TypeOK', NEW m \in Sends, CancelAnswered(m)
  PROVE  RequestsHere' /\ EmptyUntilFetched' /\ Courses' /\ EchoKept'
<1>1. TypeOK /\ RequestsHere /\ Courses
  BY DEF AttendedInv
<1>2. /\ cancelling[m] # NoList /\ Remove(cancelling[m], m)
      /\ gone' = [gone EXCEPT ![m] = TRUE]
      /\ cancelling' = [cancelling EXCEPT ![m] = NoList]
      /\ UNCHANGED <<focus, shown, fetched, current, early, server, answer, heard, home, aged>>
  BY DEF CancelAnswered, paneVars
<1>3. cancelling[m] = current /\ shown /\ focus /\ fetched /\ server[m] # "none"
  BY <1>1, <1>2 DEF RequestsHere, Waiting, Courses
<1>4. /\ gone'[m] /\ cancelling'[m] = NoList
      /\ \A s \in Sends \ {m} : gone'[s] = gone[s] /\ cancelling'[s] = cancelling[s]
  BY <1>1, <1>2 DEF TypeOK
<1>5. RequestsHere'
  <2>1. \A s \in Sends : cancelling'[s] \in {NoList, cancelling[s]}
    BY <1>4
  <2> QED
    BY <1>1, <1>2, <2>1, RequestsFewer
<1>6. EmptyUntilFetched' /\ Courses' /\ EchoKept'
  BY <1>2, <1>3, <1>4, RemoveAttended
<1> QED
  BY <1>5, <1>6

-----------------------------------------------------------------------------
\* What the server and the agent do changes no list.
LEMMA ServerAttended ==
  ASSUME AttendedInv, NEW m \in Sends,
         Land(m) \/ \E a \in Answers : Serve(m, a)
  PROVE  RequestsHere' /\ EmptyUntilFetched' /\ Courses' /\ EchoKept'
<1>1. TypeOK /\ RequestsHere /\ Courses
  BY DEF AttendedInv
<1>2. /\ UNCHANGED <<focus, shown, fetched, current, early, echo, saved, heard, home,
                     cancelling, gone, aged>>
      /\ \A s \in Sends \ {m} : server'[s] = server[s] /\ answer'[s] = answer[s]
      /\ server[m] # "none"
  BY <1>1 DEF Land, Serve, paneVars, TypeOK
<1>3. RequestsHere'
  <2>1. \A s \in Sends : server'[s] # "none" /\ ~heard'[s] => server[s] # "none" /\ ~heard[s]
    BY <1>2
  <2> QED
    BY <1>1, <1>2, <2>1, RequestsFewer
<1>4. /\ server'[m] # "none" /\ server'[m] # "posted" /\ answer'[m] # "none"
      /\ answer'[m] = "refused" => server'[m] = "refused"
      /\ Unlanded(m)' => Unlanded(m)
      /\ Confirmed(m)' => Confirmed(m)
      /\ Away(m)' => Away(m)
  <2>1. CASE Land(m)
    <3>1. server[m] \in {"accepted", "parked"} /\ server'[m] = "landed" /\ answer' = answer
      BY <1>1, <2>1 DEF Land, TypeOK
    <3> QED
      BY <1>1, <1>2, <3>1 DEF Courses, Unlanded, Confirmed, Away
  <2>2. CASE \E a \in Answers : Serve(m, a)
    <3> PICK a \in Answers : Serve(m, a)
      BY <2>2
    <3>1. /\ server[m] = "posted" /\ answer'[m] = a
          /\ server'[m] = CASE a = "refused" -> "refused"
                            [] a = "queued" -> "parked"
                            [] OTHER -> "accepted"
      BY <1>1 DEF Serve, TypeOK
    <3>2. ~heard'[m]
      BY <1>1, <1>2, <3>1 DEF Courses
    <3> QED
      BY <1>2, <3>1, <3>2 DEF Answers, Unlanded, Confirmed, Away
  <2> QED
    BY <2>1, <2>2
<1>5. aged'[m] => heard'[m]
  BY <1>1, <1>2 DEF Courses
<1>6. EmptyUntilFetched' /\ Courses' /\ EchoKept'
  BY <1>2, <1>4, <1>5, EchoesStay
<1> QED
  BY <1>3, <1>6

-----------------------------------------------------------------------------
\* A refusal takes the echo away.
LEMMA RefusedAttended ==
  ASSUME AttendedInv, TypeOK', NEW m \in Sends, Refused(m)
  PROVE  RequestsHere' /\ EmptyUntilFetched' /\ Courses' /\ EchoKept'
<1>1. TypeOK /\ RequestsHere /\ Courses
  BY DEF AttendedInv
<1>2. /\ answer[m] = "refused" /\ ~heard[m] /\ Remove(home[m], m)
      /\ UNCHANGED <<focus, shown, fetched, current, early, server, answer, home, cancelling,
                     gone, aged>>
  BY DEF Refused, paneVars
<1>3. server[m] = "refused" /\ home[m] = current /\ shown /\ focus /\ fetched
  BY <1>1, <1>2 DEF RequestsHere, Waiting, Courses
<1>4. heard'[m] /\ \A s \in Sends \ {m} : heard'[s] = heard[s]
  BY <1>1 DEF Refused, Hear, TypeOK
<1>5. RequestsHere'
  BY <1>1, <1>2, <1>4, RequestsFewer
<1>6. EmptyUntilFetched' /\ Courses' /\ EchoKept'
  BY <1>2, <1>3, <1>4, RemoveAttended
<1> QED
  BY <1>5, <1>6

\* Any other answer marks it.
LEMMA AcceptedAttended ==
  ASSUME AttendedInv, TypeOK', NEW m \in Sends, Accepted(m)
  PROVE  RequestsHere' /\ EmptyUntilFetched' /\ Courses' /\ EchoKept'
<1>1. TypeOK /\ RequestsHere /\ Courses /\ EchoKept
  BY DEF AttendedInv
<1>2. /\ answer[m] \in Answers \ {"refused"} /\ ~heard[m]
      /\ echo' = [echo EXCEPT ![home[m]][m] = Marked(echo[home[m]][m], answer[m])]
      /\ saved' = IF shown THEN Saving(echo'[home[m]]) ELSE saved
      /\ UNCHANGED <<focus, shown, fetched, current, early, server, answer, home, cancelling,
                     gone, aged>>
  BY <1>1 DEF Accepted, paneVars, TypeOK
<1>3. /\ server[m] \notin {"none", "posted"} /\ home[m] = current
      /\ shown /\ focus /\ fetched /\ ~aged[m]
  BY <1>1, <1>2 DEF RequestsHere, Waiting, Courses, Answers
<1>4. heard'[m] /\ \A s \in Sends \ {m} : heard'[s] = heard[s]
  BY <1>1 DEF Accepted, Hear, TypeOK
<1>5. RequestsHere'
  BY <1>1, <1>2, <1>4, RequestsFewer
<1> DEFINE e == Marked(echo[current][m], answer[m])
<1>6. /\ echo' = [echo EXCEPT ![current][m] = e]
      /\ saved' = Saving(echo'[current])
  BY <1>2, <1>3
<1>7. Unlanded(m) => echo[current][m] \in Listed
  BY <1>1, <1>3 DEF EchoKept, Row
<1>8. Unlanded(m)' => e \in Listed
  BY <1>2, <1>3, <1>7 DEF Unlanded, Marked, Listed
<1>9. Confirmed(m)' => e \in {"queued", "delivered"}
  BY <1>2, <1>3, <1>7 DEF Unlanded, Confirmed, Marked, Listed
<1>10. Away(m)' => e = "none" /\ saved'[m] = "none"
  <2> SUFFICES ASSUME Away(m)' PROVE e = "none" /\ saved'[m] = "none"
    OBVIOUS
  <2>1. gone[m] /\ echo[current][m] = "none"
    BY <1>1, <1>2 DEF Away, EchoKept
  <2>2. e = "none"
    BY <2>1 DEF Marked
  <2>3. echo'[current][m] = "none"
    BY <1>1, <1>6, <2>2 DEF TypeOK
  <2> QED
    BY <1>6, <2>2, <2>3 DEF Saving, Listed
<1>11. /\ server'[m] # "none" /\ server'[m] # "posted" /\ answer'[m] # "none"
       /\ answer'[m] = "refused" => server'[m] = "refused"
       /\ saved' \in {saved, Saving(echo'[current])}
  BY <1>2, <1>3, <1>6 DEF Answers
<1> HIDE DEF e
<1>12. EmptyUntilFetched' /\ Courses' /\ EchoKept'
  BY <1>2, <1>3, <1>4, <1>6, <1>8, <1>9, <1>10, <1>11, EntryChanges
<1> QED
  BY <1>5, <1>12

\* Time passes for one message.
LEMMA AgeAttended ==
  ASSUME Attended, AttendedInv, NEW m \in Sends, Age(m)
  PROVE  RequestsHere' /\ EmptyUntilFetched' /\ Courses' /\ EchoKept'
<1>1. TypeOK /\ RequestsHere /\ Courses
  BY DEF AttendedInv
<1>2. /\ server[m] # "none" /\ heard[m]
      /\ UNCHANGED <<focus, shown, fetched, current, early, echo, saved, server, answer, heard,
                     home, cancelling, gone>>
      /\ aged'[m] /\ \A s \in Sends \ {m} : aged'[s] = aged[s]
  BY <1>1 DEF Age, paneVars, TypeOK
<1>3. RequestsHere'
  BY <1>1, <1>2, RequestsFewer
<1>4. /\ server'[m] # "none"
      /\ \/ server'[m] = "posted" /\ answer'[m] = "none" /\ ~heard'[m]
         \/ server'[m] # "posted" /\ answer'[m] # "none"
      /\ aged'[m] => heard'[m]
      /\ answer'[m] = "refused" => server'[m] = "refused"
      /\ Unlanded(m)' => Unlanded(m)
      /\ Confirmed(m)' => Confirmed(m)
      /\ Away(m)' => Away(m)
  BY <1>1, <1>2 DEF Courses, Unlanded, Confirmed, Away
<1>5. EmptyUntilFetched' /\ Courses' /\ EchoKept'
  BY <1>2, <1>4, EchoesStay
<1> QED
  BY <1>3, <1>5

\* A timer takes an echo that nothing confirmed off its list.
LEMMA ExpireAttended ==
  ASSUME AttendedInv, TypeOK', NEW l \in Lists, NEW m \in Sends, Expire(l, m)
  PROVE  RequestsHere' /\ EmptyUntilFetched' /\ Courses' /\ EchoKept'
<1>1. TypeOK /\ RequestsHere /\ EmptyUntilFetched /\ Courses /\ EchoKept
  BY DEF AttendedInv
<1>2. /\ aged[m] /\ heard[m] /\ server[m] # "none" /\ echo[l][m] = "sending"
      /\ echo' = [echo EXCEPT ![l][m] = "unacked"]
      /\ UNCHANGED <<focus, shown, fetched, current, early, saved, server, answer, heard, home,
                     cancelling, gone, aged>>
  BY <1>1 DEF Expire, paneVars, sendVars, Courses
<1>3. RequestsHere'
  BY <1>1, <1>2, RequestsFewer
<1>4. CASE l = current
  <2>1. fetched
    BY <1>1, <1>2, <1>4 DEF EmptyUntilFetched, All
  <2>2. ~Unlanded(m)' /\ ~Confirmed(m)' /\ ~Away(m)'
    BY <1>1, <1>2, <1>4, <2>1 DEF EchoKept, Unlanded, Confirmed, Away, Row
  <2>3. /\ \/ server'[m] = "posted" /\ answer'[m] = "none" /\ ~heard'[m]
           \/ server'[m] # "posted" /\ answer'[m] # "none"
        /\ answer'[m] = "refused" => server'[m] = "refused"
    BY <1>1, <1>2 DEF Courses
  <2>4. EmptyUntilFetched' /\ Courses' /\ EchoKept'
    BY <1>2, <1>4, <2>1, <2>2, <2>3, EntryChanges
  <2> QED
    BY <1>3, <2>4
<1>5. CASE l # current
  <2>1. /\ echo'[current] = echo[current] /\ current \in Lists
        /\ \A k \in Lists \ {l} : echo'[k] = echo[k]
        /\ \A s \in Sends \ {m} : echo'[l][s] = echo[l][s]
    BY <1>1, <1>2, <1>5 DEF TypeOK
  <2>2. ~(l > current)
    BY <1>1, <1>2 DEF EmptyUntilFetched, All
  <2>3. EmptyUntilFetched'
    BY <1>1, <1>2, <2>1, <2>2 DEF EmptyUntilFetched
  <2>4. Courses'
    <3>1. ASSUME NEW s \in Sends, server[s] = "none", NEW k \in Lists
          PROVE  echo'[k][s] = "none"
      <4>1. s # m /\ echo[k][s] = "none"
        BY <1>1, <1>2, <3>1 DEF Courses
      <4> QED
        BY <2>1, <4>1
    <3> QED
      BY <1>1, <1>2, <3>1 DEF Courses
  <2>5. EchoKept'
    BY <1>1, <1>2, <2>1 DEF EchoKept, Unlanded, Confirmed, Away, Row
  <2> QED
    BY <1>3, <2>3, <2>4, <2>5
<1> QED
  BY <1>4, <1>5

\* Another pane becomes active, or nothing happens.
LEMMA IdleAttended ==
  ASSUME Attended, AttendedInv, Focus \/ UNCHANGED vars
  PROVE  RequestsHere' /\ EmptyUntilFetched' /\ Courses' /\ EchoKept'
<1>1. /\ RequestsHere /\ EmptyUntilFetched /\ Courses /\ EchoKept
  BY DEF AttendedInv
<1>2. /\ UNCHANGED <<shown, fetched, current, early, echo, saved, server, answer, heard, home,
                     cancelling, gone, aged>>
      /\ focus' = focus \/ ~Waiting
  BY DEF Focus, vars, paneVars, sendVars
<1>3. RequestsHere'
  BY <1>1, <1>2 DEF RequestsHere, Waiting
<1>4. EmptyUntilFetched' /\ Courses' /\ EchoKept'
  BY <1>1, <1>2 DEF EmptyUntilFetched, Courses, EchoKept, Unlanded, Confirmed, Away, Row
<1> QED
  BY <1>3, <1>4

\* The invariant is inductive for an attentive user.
LEMMA StepAttended == Attended /\ AttendedInv /\ [Next]_vars => AttendedInv'
<1> SUFFICES ASSUME Attended, AttendedInv, [Next]_vars
             PROVE  AttendedInv'
  OBVIOUS
<1>1. TypeOK'
  BY StepType DEF AttendedInv
<1> SUFFICES RequestsHere' /\ EmptyUntilFetched' /\ Courses' /\ EchoKept'
  BY <1>1 DEF AttendedInv
<1>2. ASSUME NEW s \in Sends,
             Send(s) \/ Dismiss(s) \/ Cancel(s) \/ CancelAnswered(s) \/ Land(s)
      PROVE  RequestsHere' /\ EmptyUntilFetched' /\ Courses' /\ EchoKept'
  BY <1>1, <1>2, SendAttended, DismissAttended, CancelAttended, CancelAnsweredAttended,
     ServerAttended
<1>3. CASE Open
  BY <1>3, OpenAttended
<1>4. CASE Focus \/ UNCHANGED vars
  BY <1>4, IdleAttended
<1>5. CASE ServeSome
  BY <1>5, ServerAttended DEF ServeSome
<1>6. CASE HearSome
  BY <1>1, <1>6, RefusedAttended, AcceptedAttended DEF HearSome
<1>7. CASE AgeSome
  BY <1>7, AgeAttended DEF AgeSome
<1>8. CASE ExpireSome
  BY <1>1, <1>8, ExpireAttended DEF ExpireSome
<1>9. CASE Fetch
  BY <1>9, FetchAttended
<1> QED
  BY <1>2, <1>3, <1>4, <1>5, <1>6, <1>7, <1>8, <1>9 DEF Next

\* Nothing of what an attentive user sent is lost from view, however often the
\* conversation is left and opened again and whatever order the answers, the
\* timers and the transcript come in.
THEOREM AttendedInductive == ASSUME Attended PROVE Spec => []AttendedInv
<1>1. AttendedInv /\ [Next]_vars => AttendedInv'
  BY StepAttended
<1> QED
  BY <1>1, InitAttended, PTL DEF Spec

\* A message on its way stays on screen until it ages or another message's row,
\* one without an echo, retires its own.
THEOREM UnlandedStays == ASSUME Attended PROVE Spec => []UnlandedStaysVisible
  BY AttendedInductive, AttendedImplies, PTL

\* A confirmed echo stays for as long as the turn runs, unless a row without an
\* echo retires it.
THEOREM DeliveredStays == ASSUME Attended PROVE Spec => []DeliveredStaysVisible
  BY AttendedInductive, AttendedImplies, PTL

\* What was taken back or refused does not come up again.
THEOREM WithdrawnStaysGone == ASSUME Attended PROVE Spec => []WithdrawnIsGone
  BY AttendedInductive, AttendedImplies, PTL
=============================================================================
