---------------------------- MODULE PendingSends ----------------------------
(***************************************************************************)
(* The optimistic echoes of sent messages in one pane of the dashboard     *)
(* (static/app.js).  A send is shown at once, in a list of the pane, and   *)
(* kept in pendingSendsByConv so that it survives a change of the          *)
(* conversation; its POST is answered later; the transcript, fetched again *)
(* and again, is what finally takes the echo away.  The user meanwhile     *)
(* opens another conversation and comes back, or works in another pane.    *)
(*                                                                         *)
(* All sends go to one conversation and differ in their text.  A change of *)
(* conversation gives the pane a new list object; handlers that are still  *)
(* waiting keep the old one, so lists are numbered.  The rows on screen    *)
(* are those of the current list, and the rows "not acknowledged" left     *)
(* behind by a timer.  Every user row of the transcript is one of these    *)
(* sends', in its own words; another pane's list holds none of them.       *)
(***************************************************************************)
EXTENDS Naturals, FiniteSets

CONSTANTS
  Sends,      \* messages the user sends, each at most once
  MaxLists,   \* bound: list objects, one per opening of a conversation
  Attended    \* the user stays in the conversation and the pane while a request
              \* is out, waits for the transcript before typing or leaving, leaves
              \* only in the active pane, and every POST is answered before its
              \* echo ages

ASSUME ListsExist == MaxLists \in Nat \ {0}
ASSUME AttendedIsASwitch == Attended \in BOOLEAN

Lists == 1..MaxLists
NoList == 0

Listed == {"sending", "queued", "delivered"}
Echoes == {"none", "unacked"} \cup Listed
Answers == {"refused", "queued", "delivered", "unmarked"}

VARIABLES
  focus,      \* the pane is the active one
  shown,      \* it shows the conversation of the sends
  fetched,    \* the transcript has been rendered since that was opened
  current,    \* the pane's list object
  echo,       \* echo[l][s]: the entry of s in list l
  saved,      \* pendingSendsByConv of the conversation
  server,     \* where the message is on the server
  answer,     \* what its POST will be or was answered
  heard,      \* that answer has been processed
  home,       \* the list the send's handler holds
  cancelling, \* the list the cancel handler holds
  gone,       \* the user dismissed or cancelled it
  aged,       \* its time stamp is more than _PENDING_SEND_ECHO_MAX_MS old
  inView,     \* transcript rows rendered
  early       \* history: messages whose echo went for another message's row

paneVars == <<focus, shown, fetched, current, inView, early>>
sendVars == <<server, answer, heard, home, cancelling, gone, aged>>
vars == <<paneVars, echo, saved, sendVars>>

All(v) == [s \in Sends |-> v]

Init ==
  /\ focus = TRUE /\ shown = TRUE /\ fetched = TRUE /\ current = 1 /\ inView = {}
  /\ early = {}
  /\ echo = [l \in Lists |-> All("none")] /\ saved = All("none")
  /\ server = All("none") /\ answer = All("none") /\ heard = All(FALSE)
  /\ home = All(NoList) /\ cancelling = All(NoList)
  /\ gone = All(FALSE) /\ aged = All(FALSE)

Waiting == \E s \in Sends :
  (server[s] # "none" /\ ~heard[s]) \/ cancelling[s] # NoList

\* Mutant: a delivered echo ages like any other.
KeptUnlessAged(s, row) ==
  row = "queued" \/ (row \in {"sending", "delivered"} /\ ~aged[s])

\* A saved row that restoring still considers.
Kept(s, row) == row \in {"queued", "delivered"} \/ (row = "sending" /\ ~aged[s])

\* What syncPendingSendsMapForConv saves of a list.
Saving(list) == [s \in Sends |-> IF list[s] \in Listed THEN list[s] ELSE "none"]

-----------------------------------------------------------------------------
(* The user *)

\* appendPendingSendEcho and the POST.
Send(s) ==
  /\ server[s] = "none" /\ shown /\ focus
  /\ Attended => fetched
  /\ server' = [server EXCEPT ![s] = "posted"]
  /\ home' = [home EXCEPT ![s] = current]
  /\ echo' = [echo EXCEPT ![current][s] = "sending"]
  /\ saved' = Saving(echo'[current])
  /\ UNCHANGED <<paneVars, answer, heard, cancelling, gone, aged>>

\* Mutant: leaving does not save the list.
OpenUnsaved ==
  /\ current < MaxLists
  /\ Attended => ~Waiting /\ (shown => fetched /\ focus)
  /\ shown' = ~shown /\ fetched' = FALSE /\ focus' = TRUE /\ inView' = {}
  /\ current' = current + 1
  /\ saved' = IF shown THEN All("none") ELSE saved
  /\ UNCHANGED <<early, echo, sendVars>>

\* selectConversation: leave for another conversation, or come back.  The pane
\* gets a new list, the view is empty.  What is saved for the conversation left
\* behind is the list of the pane active until then, this one's or not.
Open ==
  /\ current < MaxLists
  /\ Attended => ~Waiting /\ (shown => fetched /\ focus)
  /\ shown' = ~shown /\ fetched' = FALSE /\ focus' = TRUE /\ inView' = {}
  /\ current' = current + 1
  /\ saved' = IF ~shown THEN saved
              ELSE IF focus THEN Saving(echo[current]) ELSE All("none")
  /\ UNCHANGED <<early, echo, sendVars>>

\* The user clicks into another pane, or back.
Focus ==
  /\ Attended => ~Waiting
  /\ focus' = ~focus
  /\ UNCHANGED <<shown, fetched, current, inView, early, echo, saved, sendVars>>

\* Mutant: the saved copy of a removed echo stays.
RemoveUnsaved(l, s) ==
  /\ echo' = [echo EXCEPT ![l][s] = "none"]
  /\ UNCHANGED saved

\* removePendingSendEcho on entry s of list l: the saved rows are brought up to
\* date only for the conversation of the active pane.
Remove(l, s) ==
  /\ echo' = [echo EXCEPT ![l][s] = "none"]
  /\ saved' = IF focus /\ shown THEN Saving(echo'[current]) ELSE saved

\* The cross on an echo that is still "sending".
Dismiss(s) ==
  /\ shown /\ focus /\ echo[current][s] = "sending"
  /\ gone' = [gone EXCEPT ![s] = TRUE]
  /\ Remove(current, s)
  /\ UNCHANGED <<paneVars, server, answer, heard, home, cancelling, aged>>

\* Cancel on a queued card; the server withdraws the message if it still has it.
Cancel(s) ==
  /\ shown /\ focus /\ echo[current][s] = "queued" /\ cancelling[s] = NoList
  /\ cancelling' = [cancelling EXCEPT ![s] = current]
  /\ server' = [server EXCEPT ![s] = IF @ = "parked" THEN "withdrawn" ELSE @]
  /\ UNCHANGED <<paneVars, echo, saved, answer, heard, home, gone, aged>>

CancelAnswered(s) ==
  /\ cancelling[s] # NoList
  /\ cancelling' = [cancelling EXCEPT ![s] = NoList]
  /\ gone' = [gone EXCEPT ![s] = TRUE]
  /\ Remove(cancelling[s], s)
  /\ UNCHANGED <<paneVars, server, answer, heard, home, aged>>

-----------------------------------------------------------------------------
(* The server *)

\* It refuses a message, parks it, hands it to the agent and says so, or hands
\* it over on a transport whose answer marks nothing.
Serve(s, a) ==
  /\ server[s] = "posted"
  /\ answer' = [answer EXCEPT ![s] = a]
  /\ server' = [server EXCEPT ![s] =
       CASE a = "refused" -> "refused"
         [] a = "queued" -> "parked"
         [] OTHER -> "accepted"]
  /\ UNCHANGED <<paneVars, echo, saved, heard, home, cancelling, gone, aged>>

\* The agent writes the message to the transcript.
Land(s) ==
  /\ server[s] \in {"accepted", "parked"}
  /\ server' = [server EXCEPT ![s] = "landed"]
  /\ UNCHANGED <<paneVars, echo, saved, answer, heard, home, cancelling, gone, aged>>

-----------------------------------------------------------------------------
(* The answer to the POST *)

Hear(s) == heard' = [heard EXCEPT ![s] = TRUE]

Refused(s) ==
  /\ answer[s] = "refused" /\ ~heard[s]
  /\ Hear(s)
  /\ Remove(home[s], s)
  /\ UNCHANGED <<paneVars, server, answer, home, cancelling, gone, aged>>

\* Mutant: any answer becomes the state of the entry.
MarkedVerbatim(e, a) == IF e = "sending" THEN a ELSE e

\* markPendingSendQueued and markPendingSendDelivered: what becomes of the entry.
Marked(e, a) ==
  CASE e = "sending" /\ a = "queued" -> "queued"
    [] e = "sending" /\ a = "delivered" -> "delivered"
    [] OTHER -> e

\* An accepted send is bound to its delivery id and marked; the handler's list
\* is saved if the pane still shows the conversation.
Accepted(s) ==
  /\ answer[s] \in Answers \ {"refused"} /\ ~heard[s]
  /\ Hear(s)
  /\ echo' = [echo EXCEPT ![home[s]][s] = Marked(@, answer[s])]
  /\ saved' = IF shown THEN Saving(echo'[home[s]]) ELSE saved
  /\ UNCHANGED <<paneVars, server, answer, home, cancelling, gone, aged>>

-----------------------------------------------------------------------------
(* Time *)

Age(s) ==
  /\ server[s] # "none" /\ ~aged[s]
  /\ Attended => heard[s]
  /\ aged' = [aged EXCEPT ![s] = TRUE]
  /\ UNCHANGED <<paneVars, echo, saved, server, answer, heard, home, cancelling, gone>>

\* Mutant: only the first echo of a send has a timer.
ExpireFirst(l, s) ==
  /\ aged[s] /\ echo[l][s] = "sending" /\ l = home[s]
  /\ echo' = [echo EXCEPT ![l][s] = "unacked"]
  /\ UNCHANGED <<paneVars, saved, sendVars>>

\* The timer of an echo: "Not acknowledged by the agent", and off the list.
Expire(l, s) ==
  /\ aged[s] /\ echo[l][s] = "sending"
  /\ echo' = [echo EXCEPT ![l][s] = "unacked"]
  /\ UNCHANGED <<paneVars, saved, sendVars>>

-----------------------------------------------------------------------------
(* The transcript *)

Landed == {s \in Sends : server[s] = "landed"}

\* Mutant: every new row is taken for one that no echo matches.
StraysAll(list) == Landed \ inView

\* The new rows of the transcript that no echo matches.
Strays(list) == {s \in Landed \ inView : list[s] = "none"}

\* Each of these retires one other echo, the oldest ("the echo clears a beat
\* early") or a row left on screen, if the time stamps permit: which ones, and
\* how many of those that may, is left open.
RetiredEarly(list) ==
  {others \in SUBSET {s \in Sends \ Landed : list[s] # "none"} :
     Cardinality(others) <= Cardinality(Strays(list))}

\* Rows of the transcript retire the echoes of their text, and others.
Reconciled(list, others) ==
  [s \in Sends |-> IF s \in Landed \cup others THEN "none" ELSE list[s]]

\* Mutant: every saved row is restored, whatever the transcript shows.
RestoredBlindly(list, rows) ==
  [s \in Sends |->
    IF list[s] = "none" /\ Kept(s, rows[s]) THEN rows[s] ELSE list[s]]

\* restorePendingSendEchoes: a saved row that nothing on screen accounts for
\* comes back, in the state it was saved in.
Restored(list, rows) ==
  [s \in Sends |->
    IF list[s] = "none" /\ s \notin Landed /\ Kept(s, rows[s])
    THEN rows[s] ELSE list[s]]

\* syncQueuedSteerTray: the queue card of a parked message claims its echo.
Paired(list) ==
  [s \in Sends |-> IF server[s] = "parked" /\ list[s] = "sending"
                   THEN "queued" ELSE list[s]]

\* The rows saved after `before' became `after': the list, if an entry was
\* retired, restored or marked; else the old rows without the outdated.
Resaved(before, after, rows) ==
  IF after # before THEN Saving(after)
  ELSE [s \in Sends |-> IF Kept(s, rows[s]) THEN rows[s] ELSE "none"]

\* fetchConversationEvents: render the transcript, restore the saved echoes.
Render(others) ==
  LET old == echo[current]
      list == Reconciled(old, others)
      rows == IF Saving(list) # Saving(old) THEN Saving(list) ELSE saved
      new == Paired(Restored(Paired(list), rows))
  IN
  /\ fetched' = TRUE /\ inView' = Landed
  /\ early' = early \cup others
  /\ echo' = [echo EXCEPT ![current] = new]
  /\ saved' = Resaved(list, new, rows)
  /\ UNCHANGED <<focus, shown, current, sendVars>>

Fetch == shown /\ \E others \in RetiredEarly(echo[current]) : Render(others)

-----------------------------------------------------------------------------
ServeSome == \E s \in Sends, a \in Answers : Serve(s, a)
HearSome == \E s \in Sends : Refused(s) \/ Accepted(s)
AgeSome == \E s \in Sends : Age(s)
ExpireSome == \E l \in Lists, s \in Sends : Expire(l, s)

Next ==
  \/ \E s \in Sends : Send(s) \/ Dismiss(s) \/ Cancel(s) \/ CancelAnswered(s) \/ Land(s)
  \/ Open \/ Focus \/ ServeSome \/ HearSome \/ AgeSome \/ ExpireSome \/ Fetch

Spec == Init /\ [][Next]_vars

\* POSTs are answered, clocks and timers run, the transcript is fetched.
FairSpec ==
  /\ Spec /\ WF_vars(ServeSome) /\ WF_vars(HearSome)
  /\ WF_vars(AgeSome) /\ WF_vars(ExpireSome) /\ WF_vars(Fetch)

-----------------------------------------------------------------------------
\* Every variable is of its type.
TypeOK ==
  /\ {focus, shown, fetched} \subseteq BOOLEAN
  /\ current \in Lists /\ inView \subseteq Sends /\ early \subseteq Sends
  /\ echo \in [Lists -> [Sends -> Echoes]]
  /\ saved \in [Sends -> {"none"} \cup Listed]
  /\ server \in [Sends -> {"none", "posted", "parked", "accepted", "landed",
                           "withdrawn", "refused"}]
  /\ answer \in [Sends -> {"none"} \cup Answers]
  /\ home \in [Sends -> Lists \cup {NoList}]
  /\ cancelling \in [Sends -> Lists \cup {NoList}]
  /\ {heard, gone, aged} \subseteq [Sends -> BOOLEAN]

Rendered == shown /\ fetched

\* A message that has neither landed nor been refused, and that the user has
\* not taken back, is on screen while its conversation is, until it ages or a
\* row without an echo retires its own: what the user typed does not disappear
\* (appendPendingSendEcho, and "they are restored from pendingSendsByConv when
\* this pane re-opens that conv").
UnlandedStaysVisible == \A s \in Sends \ early :
  Rendered /\ server[s] \in {"posted", "accepted", "parked"} /\ ~aged[s] /\ ~gone[s]
    => echo[current][s] # "none"

\* An echo whose delivery was confirmed stays, however long the turn runs
\* (the "delivered" flag of the saved rows, CCC-154), until a row without an
\* echo retires it.
DeliveredStaysVisible == \A s \in Sends \ early :
  Rendered /\ server[s] = "accepted" /\ answer[s] = "delivered" /\ heard[s] /\ ~gone[s]
    => echo[current][s] \in {"queued", "delivered"}

\* "Worst case the echo clears a beat early": an echo goes for another message's
\* row only after a message has landed that the user had taken back, or whose
\* own echo nothing had confirmed in time.  Messages that are all waited for
\* keep theirs.
EarlyNeedsAStray == early # {} => \E s \in Sends :
  server[s] = "landed" /\ (gone[s] \/ (aged[s] /\ answer[s] = "unmarked"))

\* A message the user took back does not come up again (removePendingSendEcho
\* in the cancel handler: "clear the saved echo instead of resurrecting it").
CancelledIsGone == \A s \in Sends :
  Rendered /\ gone[s] => echo[current][s] = "none"

\* Nor does one the server refused.
RefusedIsGone == \A s \in Sends :
  Rendered /\ answer[s] = "refused" /\ heard[s] => echo[current][s] = "none"

\* What has been taken back or refused stays away, whichever conversations the
\* user opens afterwards.
WithdrawnIsGone == CancelledIsGone /\ RefusedIsGone

\* A message that is a row of the transcript has no echo beside it, whatever
\* late answer, old list or saved row still speaks of it.
LandedHasNoEcho == \A s \in Sends :
  Rendered /\ s \in inView => echo[current][s] = "none"

\* Nothing says "sending" for ever.
EchoSettles == \A s \in Sends :
  (shown /\ echo[current][s] = "sending") ~> ~(shown /\ echo[current][s] = "sending")
=============================================================================
