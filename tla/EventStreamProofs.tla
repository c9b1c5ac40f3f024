------------------------- MODULE EventStreamProofs -------------------------
(***************************************************************************)
(* The invariant of the event stream, for any ring, rows, restarts and     *)
(* faults; that the stream implements the change feed: no change is passed *)
(* over unless a reread is scheduled; and that a page that has caught up   *)
(* shows the last write of every row.                                      *)
(***************************************************************************)
EXTENDS EventStream, TLAPS

Positions == [boot : {NoBoot} \cup Boots, at : Nat]

\* Types of the groups of variables that the actions share.
ServerType ==
  /\ disk \in Counts /\ unpublished \subseteq Changes /\ boot \in Boots
  /\ log \in [Boots -> Seq(Events)] /\ versions \in [Rows -> Nat] /\ warm \in BOOLEAN
ConnType ==
  /\ conn \in {"none", "open", "dead"} /\ wire \in Seq(Messages)
  /\ stream \in [boot : {NoBoot} \cup Boots, at : Nat, upto : Nat]
PageType ==
  /\ page \in Nat /\ seen \in Cursors /\ known \in [Rows -> Nat]
  /\ rows \in Counts /\ overlay \in Counts
ReadType ==
  /\ {loaded, timer, again, stale} \subseteq BOOLEAN
  /\ read \in [st : ReadStates, list : Counts]
  /\ raced \subseteq Rows /\ readers \subseteq Readers
  /\ readers = {} <=> read.st = "idle"

\* The types of single variables, as the lemmas below need them.
LEMMA TypeParts ==
  TypeOK <=> ServerType /\ ConnType /\ PageType /\ ReadType /\ faults \in 0..MaxFaults
  BY DEF TypeOK, ServerType, ConnType, PageType, ReadType

\* A page or a hub without rows is well typed.
LEMMA ZeroIsACount == Zero \in Counts /\ Zero \in [Rows -> Nat]
  BY DEF Zero, Counts

\* The bound on faults is kept.
LEMMA FaultCounts == faults \in 0..MaxFaults /\ Fault => faults' \in 0..MaxFaults
  BY StreamBounds DEF Fault

\* The two constant states of a list read are well typed.
LEMMA IdleTypes ==
  /\ Idle \in [st : ReadStates, list : Counts]
  /\ Asked \in [st : ReadStates, list : Counts]
  BY ZeroIsACount DEF Idle, Asked, ReadStates

\* The position before a message under way, and the one after the last.
LEMMA BeforeType ==
  ASSUME TypeOK, NEW i \in 1..(Len(wire) + 1)
  PROVE  Before(i) \in Positions
<1>1. CASE i = 1
  BY <1>1 DEF Before, TypeOK, Cursors, Positions
<1>2. CASE i # 1
  <2>1. wire[i - 1] \in Messages
    BY <1>2 DEF TypeOK
  <2> QED
    BY <1>2, <2>1 DEF Before, Messages, Positions, Boots
<1> QED
  BY <1>1, <1>2

\* What the page makes of the message it receives: whatever it is, the page
\* stands afterwards where the message says, because a message under way is a
\* resync or the next change.
LEMMA ReceiveMoves ==
  ASSUME StreamInv, Receive
  PROVE  /\ wire # <<>> /\ wire' = Tail(wire)
         /\ wire[1] \in Messages /\ InLog(wire[1]) /\ Follows(seen, wire[1])
         /\ seen' = [boot |-> wire[1].boot, at |-> wire[1].at]
         /\ wire[1].kind = "resync" => ApplyResync(wire[1])
         /\ wire[1].kind = "event" =>
              /\ ApplyEvent(wire[1], seen, known)
              /\ wire[1].at > seen.at
              /\ log[wire[1].boot][wire[1].at] \in Events
<1> DEFINE m == wire[1]
<1>1. wire # <<>> /\ wire' = Tail(wire) /\ Head(wire) = m
  BY DEF Receive, StreamInv, TypeOK
<1>2. Len(wire) >= 1 /\ m \in Messages
  BY <1>1 DEF StreamInv, TypeOK
<1>3. InLog(m) /\ Follows(seen, m)
  <2>1. 1 \in 1..Len(wire)
    BY <1>2 DEF StreamInv, TypeOK
  <2>2. Before(1) = seen
    BY DEF Before
  <2> QED
    BY <2>1, <2>2 DEF StreamInv, WireInv
<1>4. CASE m.kind = "resync"
  BY <1>1, <1>2, <1>3, <1>4 DEF Receive, ApplyResync
<1>5. CASE m.kind = "event"
  <2>1. m.at = seen.at + 1 /\ seen.boot \in {NoBoot, m.boot}
    BY <1>3, <1>5 DEF Follows
  <2>2. m.boot \in Boots /\ m.at \in 1..Len(log[m.boot])
    BY <1>2, <1>3, <2>1 DEF InLog, Messages, Boots, NoBoot, StreamInv, TypeOK, Cursors
  <2>3. log[m.boot][m.at] \in Events
    BY <2>2 DEF StreamInv, TypeOK
  <2>4. ApplyEvent(m, seen, known)
    BY <1>1, <1>5, <2>1 DEF Receive
  <2>5. m.at > seen.at
    BY <2>1 DEF StreamInv, TypeOK, Cursors
  <2>6. seen' = [boot |-> m.boot, at |-> m.at]
    BY <2>4, <2>5, <2>2 DEF ApplyEvent, StreamInv, TypeOK, Cursors
  <2> QED
    BY <1>1, <1>2, <1>3, <1>5, <2>3, <2>4, <2>5, <2>6
<1> QED
  BY <1>2, <1>4, <1>5 DEF Messages

-----------------------------------------------------------------------------
(* Types *)

\* The stream starts in step with the page.
LEMMA InitStream == Init => StreamInv
<1> SUFFICES ASSUME Init PROVE StreamInv
  OBVIOUS
<1>1. TypeOK
  <2>1. Boots # {} /\ 1 \in Boots
    BY StreamBounds DEF Boots
  <2>2. FreshProfile \in BOOLEAN
    BY Switches
  <2>3. ServerType
    BY <2>1, ZeroIsACount DEF Init, ServerType
  <2>4. ConnType
    BY DEF Init, ConnType, Messages
  <2>5. PageType
    BY <2>1, <2>2, ZeroIsACount DEF Init, PageType, Cursors
  <2>6. ReadType /\ faults \in 0..MaxFaults
    <3>1. {loaded, timer, again, stale} \subseteq BOOLEAN
      BY DEF Init
    <3>2. 0 \in 0..MaxFaults
      BY StreamBounds
    <3> QED
      BY <3>1, <3>2, IdleTypes DEF Init, ReadType, Idle
  <2> QED
    BY <2>3, <2>4, <2>5, <2>6, TypeParts
<1>2. LogsInv /\ WireInv /\ HandlerInv
  BY StreamBounds DEF Init, LogsInv, WireInv, HandlerInv, InLog, NoBoot, Boots
<1> QED
  BY <1>1, <1>2 DEF StreamInv

\* Receiving a message keeps the types, by cases on the message.
LEMMA ReceiveType == StreamInv /\ Receive => TypeOK'
<1> SUFFICES ASSUME StreamInv, Receive PROVE TypeOK'
  OBVIOUS
<1> DEFINE m == wire[1]
           e == log[m.boot][m.at]
<1>1. TypeOK
  BY DEF StreamInv
<1>2. /\ wire # <<>> /\ wire' = Tail(wire) /\ m \in Messages
      /\ seen' = [boot |-> m.boot, at |-> m.at]
      /\ m.kind = "resync" => ApplyResync(m)
      /\ m.kind = "event" => ApplyEvent(m, seen, known) /\ m.at > seen.at /\ e \in Events
  BY ReceiveMoves
<1>3. UNCHANGED <<serverVars, conn, stream, page, loaded, read, again, readers, stale,
                faults>>
  BY DEF Receive
<1>4. wire' \in Seq(Messages) /\ seen' \in Cursors
  BY <1>1, <1>2 DEF TypeOK, Messages, Cursors
<1>5. known' \in [Rows -> Nat] /\ rows' \in Counts /\ overlay' \in Counts
      /\ timer' \in BOOLEAN /\ raced' \subseteq Rows
  <2>1. CASE m.kind = "resync"
    BY <1>1, <1>2, <2>1, ZeroIsACount DEF ApplyResync, TypeOK
  <2>2. CASE m.kind = "event"
    <3>1. e.row \in Rows /\ e.val \in Nat /\ e.ver \in Nat
      BY <1>2, <2>2 DEF Events
    <3>2. [known EXCEPT ![e.row] = MaxOf(@, e.ver)] \in [Rows -> Nat]
      BY <1>1, <3>1 DEF TypeOK, MaxOf
    <3>3. /\ [rows EXCEPT ![e.row] = e.val] \in Counts
          /\ [overlay EXCEPT ![e.row] = e.val] \in Counts
      BY <1>1, <3>1 DEF TypeOK, Counts
    <3>4. Patch(e.row, e.val) => /\ rows' \in Counts /\ overlay' \in Counts
                                 /\ raced' \subseteq Rows
      BY <1>1, <3>1, <3>3 DEF Patch, TypeOK
    <3>5. ~(m.at <= seen.at)
      BY <1>1, <1>2, <2>2 DEF TypeOK, Cursors, Messages
    <3>6. \/ timer' = TRUE /\ known' = known /\ UNCHANGED <<rows, overlay, raced>>
          \/ /\ UNCHANGED timer
             /\ known' = [known EXCEPT ![e.row] = MaxOf(@, e.ver)]
             /\ UNCHANGED <<rows, overlay, raced>> \/ Patch(e.row, e.val)
      BY <1>2, <2>2, <3>5 DEF ApplyEvent
    <3> HIDE DEF e
    <3> QED
      BY <1>1, <3>2, <3>4, <3>6 DEF TypeOK
  <2> QED
    BY <1>2, <2>1, <2>2 DEF Messages
<1> QED
  BY <1>1, <1>3, <1>4, <1>5 DEF TypeOK, serverVars

\* Every step keeps the types.
LEMMA StepType == StreamInv /\ [Next]_vars => TypeOK'
<1> SUFFICES ASSUME StreamInv, [Next]_vars PROVE TypeOK'
  OBVIOUS
<1>0. ServerType /\ ConnType /\ PageType /\ ReadType /\ faults \in 0..MaxFaults
  BY TypeParts DEF StreamInv
<1> SUFFICES ServerType' /\ ConnType' /\ PageType' /\ ReadType' /\ (faults \in 0..MaxFaults)'
  BY DEF TypeOK, ServerType, ConnType, PageType, ReadType
<1>1. /\ UNCHANGED serverVars => ServerType'
      /\ UNCHANGED connVars => ConnType'
      /\ UNCHANGED pageVars => PageType'
      /\ UNCHANGED readVars => ReadType'
  BY <1>0 DEF serverVars, connVars, pageVars, readVars, ServerType, ConnType, PageType, ReadType
<1>2. \/ UNCHANGED faults
      \/ Fault
      => (faults \in 0..MaxFaults)'
  BY <1>0, FaultCounts
<1>3. NoRead \/ (\E reader \in Readers : StartRead(reader)) =>
        /\ read' \in [st : ReadStates, list : Counts]
        /\ raced' \subseteq Rows /\ readers' \subseteq Readers
        /\ readers' = {} <=> read'.st = "idle"
  <2>1. CASE NoRead
    BY <2>1, IdleTypes DEF NoRead, Idle
  <2>2. ASSUME NEW reader \in Readers, StartRead(reader)
        PROVE  /\ read' \in [st : ReadStates, list : Counts]
               /\ raced' \subseteq Rows /\ readers' \subseteq Readers
               /\ readers' = {} <=> read'.st = "idle"
    BY <2>2, IdleTypes DEF StartRead, Asked
  <2> QED
    BY <2>1, <2>2
<1>24. NextRead => NoRead \/ \E reader \in Readers : StartRead(reader)
  BY DEF NextRead, Readers
<1>4. ASSUME NEW r \in Rows, Write(r) PROVE ServerType'
  <2>1. disk[r] \in Nat /\ disk' \in Counts
    BY <1>0, <1>4 DEF Write, ServerType, Counts
  <2>2. [row |-> r, val |-> disk[r] + 1] \in Changes
    BY <2>1 DEF Changes
  <2> QED
    BY <1>0, <1>4, <2>1, <2>2 DEF Write, ServerType
<1>5. ASSUME NEW c \in unpublished, Publish(c) PROVE ServerType'
  <2>1. c.row \in Rows /\ c.val \in Nat \ {0}
    BY <1>0 DEF ServerType, Changes
  <2>2. versions' \in [Rows -> Nat]
    BY <1>0, <1>5, <2>1 DEF Publish, ServerType
  <2>3. [row |-> c.row, val |-> c.val, ver |-> versions'[c.row]] \in Events
    BY <2>1, <2>2 DEF Events
  <2>4. log' \in [Boots -> Seq(Events)]
    BY <1>0, <1>5, <2>3 DEF Publish, ServerType
  <2> QED
    BY <1>0, <1>5, <2>2, <2>4 DEF Publish, ServerType
<1>6. CASE Crash
  <2>1. boot' \in Boots
    BY <1>0, <1>6, StreamBounds DEF Crash, ServerType, Boots
  <2>2. ServerType' /\ ConnType'
    BY <1>0, <1>6, <2>1, ZeroIsACount DEF Crash, ServerType, ConnType
  <2> QED
    BY <1>1, <1>2, <1>6, <2>2 DEF Crash
<1>7. CASE Connect
  <2>1. ConnType'
    BY <1>0, <1>7 DEF Connect, ConnType, PageType, Cursors
  <2> QED
    BY <1>1, <1>2, <1>7, <2>1 DEF Connect
<1>8. CASE Snapshot
  <2>1. Latest \in Nat /\ boot \in Boots /\ boot \in {NoBoot} \cup Boots
    BY <1>0 DEF ServerType, Latest
  <2>2. Oldest - 1 \in Nat
    BY <2>1, StreamBounds DEF Oldest, MaxOf
  <2>3. Resync(boot, Latest) \in Messages
    BY <2>1 DEF Resync, Messages
  <2>4. MaxOf(stream.at, Oldest - 1) \in Nat /\ MaxOf(stream.at, Latest) \in Nat
    BY <1>0, <2>1, <2>2 DEF MaxOf, ConnType
  <2>5. ConnType'
    BY <1>0, <1>8, <2>1, <2>3, <2>4 DEF Snapshot, ConnType
  <2> QED
    BY <1>1, <1>2, <1>8, <2>5 DEF Snapshot
<1>9. CASE Emit
  <2>1. stream.boot \in Boots
    <3>1. conn # "none" /\ stream.at < stream.upto
      BY <1>9 DEF Emit
    <3> QED
      BY <1>0, <3>1 DEF ConnType, StreamInv, HandlerInv, NoBoot
  <2>2. Event(stream.boot, stream.at + 1) \in Messages
    BY <1>0, <2>1 DEF Event, Messages, ConnType
  <2>3. ConnType'
    BY <1>0, <1>9, <2>2 DEF Emit, ConnType
  <2> QED
    BY <1>1, <1>2, <1>9, <2>3 DEF Emit
<1>10. CASE Disconnect
  <2>1. ConnType'
    BY <1>0, <1>10 DEF Disconnect, ConnType, Messages
  <2> QED
    BY <1>1, <1>2, <1>10, <2>1 DEF Disconnect
<1>11. CASE Receive
  BY <1>11, ReceiveType, TypeParts
  DEF TypeOK, ServerType, ConnType, PageType, ReadType
<1>12. ASSUME NEW r \in Patched, Expire(r) PROVE PageType'
  BY <1>0, <1>12 DEF Expire, PageType, Counts, Rows
<1>13. CASE FireTimer
  <2>1. StartRead("refresh") /\ UNCHANGED again => ReadType'
    BY <1>0, <1>3, <1>13 DEF FireTimer, ReadType, Readers
  <2>2. again' = TRUE /\ UNCHANGED <<read, raced, readers>> => ReadType'
    BY <1>0, <1>13 DEF FireTimer, ReadType
  <2>3. ASSUME readers = {"recovery"}, readers' = Readers,
               read' = [read EXCEPT !.st = IF @ = "answered" THEN "late" ELSE @],
               UNCHANGED <<raced, again>>
        PROVE  ReadType'
    <3>1. read.st \in ReadStates /\ read.st # "idle"
      BY <1>0, <2>3 DEF ReadType
    <3>2. read' \in [st : ReadStates, list : Counts] /\ read'.st # "idle"
      BY <1>0, <2>3, <3>1 DEF ReadType, ReadStates
    <3>3. Readers # {}
      BY DEF Readers
    <3> QED
      BY <1>0, <1>13, <2>3, <3>2, <3>3 DEF FireTimer, ReadType
  <2>4. ReadType'
    BY <1>13, <2>1, <2>2, <2>3 DEF FireTimer
  <2> QED
    BY <1>1, <1>2, <1>13, <2>4 DEF FireTimer
<1>25. CASE Recover
  <2>1. ReadType'
    BY <1>0, <1>3, <1>25 DEF Recover, ReadType, Readers
  <2> QED
    BY <1>1, <1>2, <1>25, <2>1 DEF Recover
<1>14. CASE Answer
  <2>1. ReadType' /\ ServerType'
    BY <1>0, <1>14 DEF Answer, ReadType, ServerType, ReadStates
  <2> QED
    BY <1>1, <1>2, <1>14, <2>1 DEF Answer
<1>23. CASE AnswerSaved
  <2>1. PICK old \in Pasts : read' = [st |-> "saved", list |-> old]
    BY <1>23 DEF AnswerSaved
  <2>2. old \in Counts
    BY StreamBounds DEF Pasts, Counts, MaxOf
  <2>3. ReadType'
    BY <1>0, <1>23, <2>1, <2>2 DEF AnswerSaved, ReadType, ReadStates
  <2> QED
    BY <1>1, <1>2, <1>23, <2>3 DEF AnswerSaved
<1>15. CASE Land
  <2>1. rows' \in Counts
    BY <1>0, <1>15 DEF Land, PageType, ReadType, Counts
  <2>2. PageType'
    BY <1>0, <1>15, <2>1 DEF Land, PageType
  <2>3. ReadType'
    BY <1>0, <1>3, <1>15, <1>24 DEF Land, NextRead, ReadType
  <2> QED
    BY <1>1, <1>2, <1>15, <2>2, <2>3 DEF Land
<1>16. CASE ReadFails
  <2>1. ReadType'
    BY <1>0, <1>3, <1>16, <1>24 DEF ReadFails, NextRead, ReadType
  <2> QED
    BY <1>1, <1>2, <1>16, <2>1 DEF ReadFails
<1>17. ASSUME NEW b \in 1..boot, NEW k \in 0..Len(log[b]), Reload(b, k)
       PROVE  ConnType' /\ PageType' /\ ReadType'
  <2>1. b \in Boots /\ k \in Nat
    <3>1. b \in Boots
      BY <1>0, StreamBounds DEF ServerType, Boots
    <3>2. Len(log[b]) \in Nat
      BY <1>0, <3>1 DEF ServerType
    <3> QED
      BY <3>1, <3>2
  <2>2. ConnType'
    BY <1>0, <1>17 DEF Reload, ConnType, Messages
  <2>3. PageType'
    BY <1>0, <1>17, <2>1, ZeroIsACount DEF Reload, PageType, Cursors
  <2>4. ReadType'
    BY <1>0, <1>3, <1>17 DEF Reload, ReadType, Readers
  <2> QED
    BY <2>2, <2>3, <2>4
<1>18. CASE \E r \in Rows : Write(r)
  BY <1>1, <1>2, <1>4, <1>18 DEF Write, serverVars
<1>19. CASE PublishSome
  BY <1>1, <1>2, <1>5, <1>19 DEF PublishSome, Publish
<1>20. CASE ExpireSome
  BY <1>1, <1>2, <1>12, <1>20 DEF ExpireSome, Expire
<1>21. CASE \E b \in 1..boot : \E k \in 0..Len(log[b]) : Reload(b, k)
  BY <1>1, <1>2, <1>17, <1>21 DEF Reload
<1>22. CASE UNCHANGED vars
  BY <1>1, <1>2, <1>22 DEF vars
<1> QED
  BY <1>6, <1>7, <1>8, <1>9, <1>10, <1>11, <1>13, <1>14, <1>15, <1>16, <1>18,
     <1>19, <1>20, <1>21, <1>22, <1>23, <1>25 DEF Next, AnswerRead

-----------------------------------------------------------------------------
(* The log *)

\* The log only grows, and the boot id with it.
LogGrows ==
  /\ boot <= boot'
  /\ \A b \in Boots : Len(log[b]) <= Len(log'[b])

\* Logs only grow, and only that of the running boot does.
LEMMA LogStep ==
  StreamInv /\ [Next]_vars =>
    LogGrows /\ \A b \in Boots : b > boot' => log'[b] = <<>>
<1> SUFFICES ASSUME StreamInv, [Next]_vars
             PROVE  LogGrows /\ \A b \in Boots : b > boot' => log'[b] = <<>>
  OBVIOUS
<1>1. /\ boot \in Nat /\ log \in [Boots -> Seq(Events)] /\ unpublished \subseteq Changes
      /\ \A b \in Boots : b > boot => log[b] = <<>>
      /\ Boots \subseteq Nat
  <2>1. Boots \subseteq Nat
    BY StreamBounds DEF Boots
  <2>2. boot \in Boots /\ log \in [Boots -> Seq(Events)] /\ unpublished \subseteq Changes
    BY DEF StreamInv, TypeOK
  <2>3. \A b \in Boots : b > boot => log[b] = <<>>
    BY DEF StreamInv, LogsInv
  <2> QED
    BY <2>1, <2>2, <2>3
<1>2. ASSUME NEW c \in unpublished, Publish(c)
      PROVE  LogGrows /\ \A b \in Boots : b > boot' => log'[b] = <<>>
  <2> DEFINE e == [row |-> c.row, val |-> c.val, ver |-> versions'[c.row]]
  <2>1. log' = [log EXCEPT ![boot] = Append(@, e)] /\ boot' = boot
    BY <1>2 DEF Publish
  <2>2. ASSUME NEW b \in Boots
        PROVE  Len(log[b]) <= Len(log'[b]) /\ (b > boot => log'[b] = log[b])
    <3>1. CASE b = boot
      BY <1>1, <2>1, <3>1
    <3>2. CASE b # boot
      BY <1>1, <2>1, <3>2
    <3> QED
      BY <3>1, <3>2
  <2> QED
    BY <1>1, <2>1, <2>2 DEF LogGrows
<1>3. CASE Crash
  BY <1>1, <1>3 DEF Crash, LogGrows
<1>4. CASE UNCHANGED <<boot, log>>
  BY <1>1, <1>4 DEF LogGrows
<1>5. PublishSome \/ Crash \/ UNCHANGED <<boot, log>>
  BY DEF Next, Write, Connect, Snapshot, Emit, Disconnect, Receive, ExpireSome, Expire,
     FireTimer, Recover, AnswerRead, Answer, AnswerSaved, Land, ReadFails, Reload, vars, serverVars
<1> QED
  BY <1>2, <1>3, <1>4, <1>5 DEF PublishSome

\* A position of the log remains one.
LEMMA InLogStays ==
  ASSUME StreamInv, TypeOK', LogGrows,
         NEW b \in {NoBoot} \cup Boots, NEW k \in Nat,
         b <= boot, k <= IF b = NoBoot THEN 0 ELSE Len(log[b])
  PROVE  b <= boot' /\ k <= IF b = NoBoot THEN 0 ELSE Len(log'[b])
<1>1. boot \in Nat /\ boot' \in Nat /\ b \in Nat
  <2>1. Boots \subseteq Nat /\ NoBoot \in Nat
    BY StreamBounds DEF Boots, NoBoot
  <2>2. boot \in Boots /\ boot' \in Boots
    BY DEF StreamInv, TypeOK
  <2> QED
    BY <2>1, <2>2
<1>2. b \in Boots => Len(log[b]) \in Nat /\ Len(log'[b]) \in Nat
  BY DEF StreamInv, TypeOK
<1> QED
  BY <1>1, <1>2 DEF LogGrows

-----------------------------------------------------------------------------
(* The wire *)

\* The messages under way stay in the log.
LEMMA WireInLog ==
  ASSUME StreamInv, TypeOK', LogGrows, NEW i \in 1..Len(wire)
  PROVE  /\ wire[i].boot <= boot'
         /\ wire[i].at <= IF wire[i].boot = NoBoot THEN 0 ELSE Len(log'[wire[i].boot])
<1>1. wire[i] \in Messages
  BY DEF StreamInv, TypeOK
<1>2. wire[i].boot \in {NoBoot} \cup Boots /\ wire[i].at \in Nat
  BY <1>1 DEF Messages
<1>3. InLog(wire[i])
  BY DEF StreamInv, WireInv
<1> QED
  BY <1>2, <1>3, InLogStays DEF InLog

\* Nothing is sent and nothing received.
LEMMA SameWire ==
  ASSUME StreamInv, TypeOK', LogGrows, UNCHANGED <<wire, seen>>,
         conn' = "none" => conn = "none"
  PROVE  WireInv'
<1>1. ASSUME NEW i \in 1..Len(wire) PROVE InLog(wire[i])' /\ Follows(Before(i), wire[i])'
  <2>1. Before(i)' = Before(i)
    BY DEF Before
  <2>2. Follows(Before(i), wire[i])
    BY DEF StreamInv, WireInv
  <2> QED
    BY <2>1, <2>2, WireInLog DEF Follows, InLog
<1> QED
  BY <1>1 DEF WireInv, StreamInv

\* A message that continues the stream is sent.
LEMMA Sent ==
  ASSUME StreamInv, TypeOK', LogGrows, UNCHANGED seen, conn' # "none",
         NEW m \in Messages, wire' = Append(wire, m),
         InLog(m)', Follows(Before(Len(wire) + 1), m)
  PROVE  WireInv'
<1>1. Len(wire) \in Nat /\ Len(wire') = Len(wire) + 1
      /\ \A i \in 1..Len(wire) : wire'[i] = wire[i]
      /\ wire'[Len(wire) + 1] = m
  BY DEF StreamInv, TypeOK
<1>2. ASSUME NEW i \in 1..(Len(wire) + 1) PROVE Before(i)' = Before(i)
  BY <1>1 DEF Before
<1>3. ASSUME NEW i \in 1..Len(wire') PROVE (InLog(wire[i]) /\ Follows(Before(i), wire[i]))'
  <2>1. CASE i \in 1..Len(wire)
    <3>1. wire'[i] = wire[i] /\ Before(i)' = Before(i)
      BY <1>1, <1>2, <2>1
    <3>2. Follows(Before(i), wire[i])
      BY <2>1 DEF StreamInv, WireInv
    <3> QED
      BY <2>1, <3>1, <3>2, WireInLog DEF Follows, InLog
  <2>2. CASE i = Len(wire) + 1
    BY <1>1, <1>2, <2>2 DEF Follows, InLog
  <2> QED
    BY <1>1, <2>1, <2>2
<1> QED
  BY <1>3 DEF WireInv

\* What a received message leaves behind continues the page's new position.
LEMMA Received ==
  ASSUME StreamInv, TypeOK', LogGrows, Receive
  PROVE  /\ WireInv'
         /\ \A i \in 1..Len(wire) : Before(i)' = Before(i + 1)
         /\ Len(wire') = Len(wire) - 1
<1>1. /\ wire # <<>> /\ wire' = Tail(wire)
      /\ seen' = [boot |-> wire[1].boot, at |-> wire[1].at]
  BY ReceiveMoves
<1>2. Len(wire) \in Nat \ {0} /\ Len(wire') = Len(wire) - 1
      /\ \A i \in 1..Len(wire') : wire'[i] = wire[i + 1]
  BY <1>1 DEF StreamInv, TypeOK
<1>3. ASSUME NEW i \in 1..Len(wire) PROVE Before(i)' = Before(i + 1)
  BY <1>1, <1>2 DEF Before
<1>4. ASSUME NEW i \in 1..Len(wire') PROVE (InLog(wire[i]) /\ Follows(Before(i), wire[i]))'
  <2>1. i + 1 \in 1..Len(wire) /\ i \in 1..Len(wire)
    BY <1>2
  <2>2. wire'[i] = wire[i + 1] /\ Before(i)' = Before(i + 1)
    BY <1>2, <1>3, <2>1
  <2>3. Follows(Before(i + 1), wire[i + 1])
    BY <2>1 DEF StreamInv, WireInv
  <2> QED
    BY <2>1, <2>2, <2>3, WireInLog DEF Follows, InLog
<1>5. conn' # "none"
  BY <1>1 DEF Receive, StreamInv, WireInv
<1> QED
  BY <1>2, <1>3, <1>4, <1>5 DEF WireInv

-----------------------------------------------------------------------------
(* The handler *)

\* Where the handler stands stays in the log.
LEMMA HandlerInLog ==
  ASSUME StreamInv, TypeOK', LogGrows, conn # "none"
  PROVE  /\ stream.boot <= boot'
         /\ stream.upto <= IF stream.boot = NoBoot THEN 0 ELSE Len(log'[stream.boot])
<1>1. stream.boot \in {NoBoot} \cup Boots /\ stream.upto \in Nat
  BY DEF StreamInv, TypeOK
<1>2. /\ stream.boot <= boot
      /\ stream.upto <= IF stream.boot = NoBoot THEN 0 ELSE Len(log[stream.boot])
  BY DEF StreamInv, HandlerInv
<1> QED
  BY <1>1, <1>2, InLogStays

\* The handler neither moves nor sends, and nothing is received.
LEMMA SameHandler ==
  ASSUME StreamInv, TypeOK', LogGrows, UNCHANGED <<wire, seen, stream>>,
         conn' = "none" \/ conn # "none"
  PROVE  HandlerInv'
<1>1. Before(Len(wire) + 1)' = Before(Len(wire) + 1)
  BY DEF Before
<1> QED
  BY <1>1, HandlerInLog DEF HandlerInv, StreamInv

\* Every step leaves the handler where the last message under way ends.
LEMMA StepHandler ==
  StreamInv /\ TypeOK' /\ LogGrows /\ [Next]_vars => WireInv' /\ HandlerInv'
<1> SUFFICES ASSUME StreamInv, TypeOK', LogGrows, [Next]_vars
             PROVE  WireInv' /\ HandlerInv'
  OBVIOUS
<1>0. /\ Len(wire) \in Nat /\ stream.at \in Nat /\ stream.upto \in Nat
      /\ stream.boot \in {NoBoot} \cup Boots /\ boot \in Boots /\ Boots \subseteq Nat \ {0}
      /\ Len(log[boot]) \in Nat
  <2>1. Boots \subseteq Nat \ {0}
    BY StreamBounds DEF Boots
  <2> QED
    BY <2>1 DEF StreamInv, TypeOK
<1>1. CASE Connect
  <2>1. wire = <<>> /\ wire' = <<>> /\ seen' = seen
    BY <1>1 DEF Connect, StreamInv, WireInv, pageVars
  <2>2. /\ conn' = "open"
        /\ stream' = [boot |-> seen.boot, at |-> seen.at, upto |-> seen.at]
        /\ UNCHANGED <<boot, log>>
    BY <1>1 DEF Connect, serverVars
  <2>3. seen \in Cursors /\ InLog(seen)
    BY DEF StreamInv, TypeOK, LogsInv
  <2>4. WireInv'
    BY <2>1, <2>2 DEF WireInv
  <2>5. Before(Len(wire) + 1)' = seen
    BY <2>1 DEF Before
  <2> QED
    BY <2>2, <2>3, <2>4, <2>5 DEF HandlerInv, InLog, Cursors
<1>2. CASE Snapshot
  <2> DEFINE last == Before(Len(wire) + 1)
  <2>1. /\ stream.at = last.at /\ stream.boot <= boot /\ last.boot \in {NoBoot, stream.boot}
        /\ stream.upto = stream.at
        /\ stream.upto <= IF stream.boot = NoBoot THEN 0 ELSE Len(log[stream.boot])
    BY <1>2 DEF Snapshot, StreamInv, HandlerInv
  <2>2. seen' = seen /\ boot' = boot /\ log' = log /\ conn' = "open" /\ conn = "open"
    BY <1>2 DEF Snapshot, pageVars, serverVars
  <2>3. CASE TooOld(stream)
    <3>1. /\ wire' = Append(wire, Resync(boot, Latest))
          /\ stream' = [boot |-> boot, at |-> Latest, upto |-> Latest]
      BY <1>2, <2>3 DEF Snapshot
    <3>2. PICK m \in Messages : m = Resync(boot, Latest)
      BY <1>0 DEF Resync, Messages, Latest
    <3>3. InLog(m)' /\ Follows(last, m)
      BY <1>0, <2>2, <3>2 DEF InLog, Follows, Resync, Latest, NoBoot
    <3>4. WireInv'
      BY <2>2, <3>1, <3>2, <3>3, Sent
    <3>5. Before(Len(wire) + 1)' = [boot |-> boot, at |-> Latest]
      <4>1. wire'[Len(wire')] = Resync(boot, Latest) /\ Len(wire') = Len(wire) + 1
        BY <3>1, <3>2 DEF StreamInv, TypeOK
      <4> QED
        BY <1>0, <4>1 DEF Before, Resync
    <3> QED
      BY <1>0, <2>2, <3>1, <3>4, <3>5 DEF HandlerInv, Latest, NoBoot
  <2>4. CASE ~TooOld(stream)
    <3>1. /\ stream' = [boot |-> boot, at |-> MaxOf(stream.at, Oldest - 1),
                        upto |-> MaxOf(stream.at, Latest)]
          /\ wire' = wire
      BY <1>2, <2>4 DEF Snapshot
    <3>2. WireInv'
      BY <2>2, <3>1, SameWire
    <3>3. stream.boot \in {NoBoot, boot} /\ stream.at >= Oldest - 1
      BY <1>0, <2>4, StreamBounds DEF TooOld, Oldest, MaxOf, Latest
    <3>4. stream.at <= Latest
      BY <1>0, <2>1, <3>3 DEF Latest
    <3>5. Latest \in Nat /\ Oldest \in Nat
      BY <1>0, StreamBounds DEF Latest, Oldest, MaxOf
    <3>6. stream' = [boot |-> boot, at |-> stream.at, upto |-> Latest]
      BY <1>0, <3>1, <3>3, <3>4, <3>5 DEF MaxOf
    <3>7. Before(Len(wire) + 1)' = last
      BY <2>2, <3>1 DEF Before
    <3>8. last.boot \in {NoBoot, boot}
      BY <2>1, <3>3
    <3> HIDE DEF last
    <3> QED
      BY <1>0, <2>1, <2>2, <3>2, <3>4, <3>6, <3>7, <3>8 DEF HandlerInv, Latest, NoBoot
  <2> QED
    BY <2>3, <2>4
<1>3. CASE Emit
  <2> DEFINE last == Before(Len(wire) + 1)
  <2>1. /\ stream.at = last.at /\ stream.boot <= boot /\ last.boot \in {NoBoot, stream.boot}
        /\ stream.at < stream.upto
        /\ stream.upto <= IF stream.boot = NoBoot THEN 0 ELSE Len(log[stream.boot])
    BY <1>3 DEF Emit, StreamInv, HandlerInv
  <2>2. seen' = seen /\ boot' = boot /\ log' = log /\ conn' = "open" /\ conn = "open"
    BY <1>3 DEF Emit, pageVars, serverVars
  <2>3. stream.boot \in Boots /\ stream.boot # NoBoot
    <3>1. stream.boot = NoBoot => stream.upto <= 0
      BY <2>1
    <3> QED
      BY <1>0, <2>1, <3>1
  <2>4. PICK m \in Messages : m = Event(stream.boot, stream.at + 1)
    <3>1. stream.at + 1 \in Nat
      BY <1>0
    <3>2. Event(stream.boot, stream.at + 1) \in Messages
      BY <2>3, <3>1 DEF Event, Messages
    <3> QED
      BY <3>2
  <2>5. /\ wire' = Append(wire, m)
        /\ stream' = [stream EXCEPT !.at = @ + 1]
    BY <1>3, <2>4 DEF Emit
  <2>6. InLog(m)' /\ Follows(last, m)
    <3>1. Len(log[stream.boot]) \in Nat
      BY <2>3 DEF StreamInv, TypeOK
    <3> QED
      BY <1>0, <2>1, <2>2, <2>3, <2>4, <3>1 DEF InLog, Follows, Event
  <2>7. WireInv'
    BY <2>2, <2>4, <2>5, <2>6, Sent
  <2>8. Before(Len(wire) + 1)' = [boot |-> stream.boot, at |-> stream.at + 1]
    <3>1. wire'[Len(wire) + 1] = m /\ Len(wire') = Len(wire) + 1
      BY <2>4, <2>5 DEF StreamInv, TypeOK
    <3> QED
      BY <1>0, <2>4, <3>1 DEF Before, Event
  <2>9. stream' = [boot |-> stream.boot, at |-> stream.at + 1, upto |-> stream.upto]
    BY <2>5 DEF StreamInv, TypeOK
  <2> QED
    BY <1>0, <2>1, <2>2, <2>3, <2>7, <2>8, <2>9 DEF HandlerInv
<1>4. CASE Receive
  <2>1. conn # "none" /\ UNCHANGED <<conn, stream>> /\ Len(wire) \in Nat \ {0}
    BY <1>4 DEF Receive, StreamInv, WireInv, TypeOK
  <2>2. PICK n \in Nat \ {0} : n = Len(wire)
    BY <2>1
  <2>3. Before(n)' = Before(n + 1) /\ Len(wire') = n - 1 /\ WireInv'
    BY <1>4, <2>2, Received
  <2>4. Before(Len(wire) + 1)' = Before(Len(wire) + 1)
    BY <2>2, <2>3 DEF Before
  <2> QED
    BY <2>1, <2>3, <2>4, HandlerInLog DEF HandlerInv, StreamInv
<1>5. CASE Disconnect \/ \E b \in 1..boot : \E k \in 0..Len(log[b]) : Reload(b, k)
  <2>1. conn' = "none" /\ wire' = <<>>
    BY <1>5 DEF Disconnect, Reload
  <2> QED
    BY <2>1 DEF WireInv, HandlerInv
<1>6. CASE UNCHANGED <<wire, seen, stream>> /\ (conn' = "none" <=> conn = "none")
  BY <1>6, SameWire, SameHandler
<1>7. \/ Connect \/ Snapshot \/ Emit \/ Receive \/ Disconnect
      \/ \E b \in 1..boot : \E k \in 0..Len(log[b]) : Reload(b, k)
      \/ UNCHANGED <<wire, seen, stream>> /\ (conn' = "none" <=> conn = "none")
  BY DEF Next, Write, PublishSome, Publish, Crash, ExpireSome, Expire, FireTimer, Recover, AnswerRead,
     Answer, AnswerSaved, Land, ReadFails, vars, connVars, pageVars
<1> QED
  BY <1>1, <1>2, <1>3, <1>4, <1>5, <1>6, <1>7

\* The invariant is inductive.
LEMMA StepStream == StreamInv /\ [Next]_vars => StreamInv'
<1> SUFFICES ASSUME StreamInv, [Next]_vars PROVE StreamInv'
  OBVIOUS
<1>1. TypeOK'
  BY StepType
<1>2. LogGrows /\ \A b \in Boots : b > boot' => log'[b] = <<>>
  BY LogStep
<1>3. WireInv' /\ HandlerInv'
  BY <1>1, <1>2, StepHandler
<1>4. InLog(seen)'
  <2>1. CASE UNCHANGED seen
    <3>1. seen.boot \in {NoBoot} \cup Boots /\ seen.at \in Nat /\ InLog(seen)
      BY DEF StreamInv, TypeOK, Cursors, LogsInv
    <3> QED
      BY <1>1, <1>2, <2>1, <3>1, InLogStays DEF InLog
  <2>2. CASE Receive
    <3>1. seen' = [boot |-> wire[1].boot, at |-> wire[1].at] /\ wire # <<>>
      BY <2>2, ReceiveMoves
    <3>2. 1 \in 1..Len(wire)
      BY <3>1 DEF StreamInv, TypeOK
    <3> QED
      BY <1>1, <1>2, <3>1, <3>2, WireInLog DEF InLog
  <2>3. ASSUME NEW b \in 1..boot, NEW k \in 0..Len(log[b]), Reload(b, k)
        PROVE  InLog(seen)'
    <3>1. seen' = [boot |-> b, at |-> k] /\ UNCHANGED <<boot, log>>
      BY <2>3 DEF Reload, serverVars
    <3>2. boot \in Nat /\ b \in Boots /\ b # NoBoot
      BY StreamBounds DEF StreamInv, TypeOK, Boots, NoBoot
    <3> QED
      BY <3>1, <3>2 DEF InLog
  <2> QED
    BY <2>1, <2>2, <2>3 DEF Next, Write, PublishSome, Publish, Crash, Connect, Snapshot,
       Emit, Disconnect, ExpireSome, Expire, FireTimer, Recover, AnswerRead, Answer,
       AnswerSaved, Land, ReadFails, vars, pageVars
<1> QED
  BY <1>1, <1>2, <1>3, <1>4 DEF StreamInv, LogsInv

\* Everything under way continues the page's position, change by change or by
\* a resync, across restarts, lost connections and reloads.
THEOREM StreamHolds == Spec => []StreamInv
  BY InitStream, StepStream, PTL DEF Spec

-----------------------------------------------------------------------------
(* The change feed *)

FeedHead == [b \in Boots |-> Len(log[b])]

\* The stream starts as a feed does.
LEMMA FeedInit == Init => Feed!Init
<1> SUFFICES ASSUME Init PROVE Feed!Init
  OBVIOUS
<1>1. FeedHead = [b \in Boots |-> 0]
  BY DEF Init, FeedHead
<1>2. seen \in {[boot |-> b, at |-> 0] : b \in {NoBoot, 1}}
  BY DEF Init
<1> QED
  BY <1>1, <1>2 DEF Init, FeedHead, Feed!Init, Feed!Boots, Feed!NoBoot, Boots, NoBoot

\* Every step of the stream is one of the feed, or leaves it alone.
LEMMA FeedStep == StreamInv /\ [Next]_vars => [Feed!Next]_(Feed!feedVars)
<1> SUFFICES ASSUME StreamInv, [Next]_vars PROVE [Feed!Next]_(Feed!feedVars)
  OBVIOUS
<1>0. /\ boot \in Boots /\ Boots \subseteq Nat \ {0} /\ seen \in Cursors
      /\ log \in [Boots -> Seq(Events)] /\ timer \in BOOLEAN /\ page \in Nat
      /\ unpublished \subseteq Changes
  <2>1. Boots \subseteq Nat \ {0}
    BY StreamBounds DEF Boots
  <2> QED
    BY <2>1 DEF StreamInv, TypeOK
<1>1. ASSUME NEW b \in Boots PROVE FeedHead[b] = Len(log[b]) /\ FeedHead[b] \in Nat
  BY <1>0 DEF FeedHead
<1>2. UNCHANGED <<boot, log, page, seen, timer>> => UNCHANGED Feed!feedVars
  BY DEF Feed!feedVars
<1>3. ASSUME NEW c \in unpublished, Publish(c) PROVE Feed!Publish
  <2> DEFINE e == [row |-> c.row, val |-> c.val, ver |-> versions'[c.row]]
  <2>1. /\ log' = [log EXCEPT ![boot] = Append(@, e)]
        /\ UNCHANGED <<boot, page, seen, timer>>
    BY <1>3 DEF Publish, pageVars, readVars
  <2>2. ASSUME NEW b \in Boots
        PROVE  Len(log'[b]) = IF b = boot THEN Len(log[b]) + 1 ELSE Len(log[b])
    BY <1>0, <2>1
  <2>3. FeedHead' = [FeedHead EXCEPT ![boot] = @ + 1]
    BY <1>0, <1>1, <2>2 DEF FeedHead
  <2> QED
    BY <2>1, <2>3 DEF Feed!Publish, FeedHead
<1>4. CASE Crash
  <2>1. Feed!Restart
    BY <1>4 DEF Crash, Feed!Restart, pageVars, readVars
  <2> QED
    BY <2>1 DEF Feed!Next
<1>5. CASE Receive
  <2> DEFINE m == wire[1]
  <2>1. /\ m \in Messages /\ InLog(m) /\ Follows(seen, m)
        /\ seen' = [boot |-> m.boot, at |-> m.at]
        /\ m.kind = "resync" => ApplyResync(m)
        /\ m.kind = "event" => ApplyEvent(m, seen, known)
    BY <1>5, ReceiveMoves
  <2>2. m.boot \in Boots /\ m.at \in Nat /\ m.boot \in 1..boot
    <3>1. m.boot \in Boots /\ m.at \in Nat /\ m.boot <= boot
      BY <2>1 DEF Messages, InLog
    <3>2. m.boot \in Nat \ {0} /\ boot \in Nat \ {0}
      BY <1>0, <3>1
    <3> HIDE DEF m
    <3> QED
      BY <3>1, <3>2
  <2>3. m.at \in 0..FeedHead[m.boot]
    BY <1>0, <1>1, <2>1, <2>2 DEF InLog, NoBoot
  <2>4. UNCHANGED <<boot, log, page>> /\ FeedHead' = FeedHead
    BY <1>5 DEF Receive, serverVars, FeedHead
  <2>5. CASE m.kind = "resync"
    <3>1. timer' = TRUE
      BY <2>1, <2>5 DEF ApplyResync
    <3>2. Feed!Jump(m.boot, m.at)
      BY <2>1, <2>3, <2>4, <3>1 DEF Feed!Jump, FeedHead
    <3> QED
      BY <2>2, <2>3, <3>2 DEF Feed!Next, FeedHead
  <2>6. CASE m.kind = "event"
    <3>1. m.at = seen.at + 1 /\ seen.boot \in {NoBoot, m.boot}
      BY <2>1, <2>6 DEF Follows
    <3>2. timer' \in {timer, TRUE}
      BY <2>1, <2>6 DEF ApplyEvent
    <3>3. seen = [boot |-> seen.boot, at |-> m.at - 1]
      BY <1>0, <2>2, <3>1 DEF Cursors
    <3>4. seen \in {[boot |-> m.boot, at |-> m.at - 1], [boot |-> NoBoot, at |-> m.at - 1]}
      BY <3>1, <3>3
    <3>5. m.at <= FeedHead[m.boot]
      BY <2>3
    <3>6. Feed!Advance(m.boot, m.at)
      BY <2>1, <2>4, <3>2, <3>4, <3>5 DEF Feed!Advance, FeedHead, Feed!NoBoot, NoBoot
    <3> QED
      BY <2>2, <2>3, <3>6 DEF Feed!Next, FeedHead
  <2> QED
    BY <2>1, <2>5, <2>6 DEF Messages
<1>6. CASE FireTimer
  <2>1. Feed!Reread
    BY <1>6 DEF FireTimer, Feed!Reread, serverVars, pageVars
  <2> QED
    BY <2>1 DEF Feed!Next
<1>7. ASSUME NEW b \in 1..boot, NEW k \in 0..Len(log[b]), Reload(b, k)
      PROVE  Feed!Next
  <2>1. b \in Boots
    BY <1>0, StreamBounds DEF Boots
  <2>2. k \in 0..FeedHead[b]
    BY <1>1, <2>1
  <2>3. UNCHANGED <<boot, log>> /\ FeedHead' = FeedHead /\ page' = page + 1
        /\ seen' = [boot |-> b, at |-> k] /\ timer' = FALSE
    BY <1>7 DEF Reload, serverVars, FeedHead
  <2>4. Feed!Reopen(b, k)
    BY <2>2, <2>3 DEF Feed!Reopen, FeedHead
  <2> QED
    BY <2>2, <2>4 DEF Feed!Next, FeedHead
<1>8. \/ PublishSome \/ Crash \/ Receive \/ FireTimer
      \/ \E b \in 1..boot : \E k \in 0..Len(log[b]) : Reload(b, k)
      \/ UNCHANGED <<boot, log, page, seen, timer>>
  BY DEF Next, Write, Connect, Snapshot, Emit, Disconnect, ExpireSome, Expire, Recover, AnswerRead, Answer,
     AnswerSaved, Land, ReadFails, vars, serverVars, pageVars, readVars
<1> QED
  BY <1>2, <1>3, <1>4, <1>5, <1>6, <1>7, <1>8 DEF PublishSome, Feed!Next

\* The event stream implements the change feed: whatever the ring drops and
\* whatever connections, servers and pages come and go, the page passes a
\* change only by being handed it or with a reread scheduled.
THEOREM StreamIsAFeed == Spec => Feed!Spec
<1>1. Init => Feed!Init
  BY FeedInit
<1>2. StreamInv /\ [Next]_vars => [Feed!Next]_(Feed!feedVars)
  BY FeedStep
<1> QED
  BY <1>1, <1>2, StreamHolds, PTL DEF Spec, Feed!Spec

-----------------------------------------------------------------------------
(***************************************************************************)
(* A page that has caught up is current.  This needs what the three        *)
(* switches stand for: writes to a row one at a time, a page that starts   *)
(* with a cursor, and reads that land within the 30 s of a patch.          *)
(*                                                                         *)
(* What has been announced of a row ends with its last value, unless that  *)
(* is still to be published.  So either more is to come for a row, or what *)
(* the page holds of it (its patch, the answer to its read, the row        *)
(* itself) is that last value, or it is about to read the list.            *)
(***************************************************************************)
OneAtATime == ~ConcurrentWriters /\ ~FreshProfile /\ ~SlowReads

Announced == log[boot]

AnnouncedInv ==
  /\ \A c \in unpublished : c.val = disk[c.row]
  /\ \A i \in 1..Len(Announced) :
       Announced[i].row \in Patched => Announced[i].ver \in 1..versions[Announced[i].row]
  /\ \A i, j \in 1..Len(Announced) :
       i < j /\ Announced[i].row = Announced[j].row /\ Announced[i].row \in Patched
         => Announced[i].ver < Announced[j].ver
  /\ \A i \in 1..Len(Announced) :
       \/ Announced[i].val = disk[Announced[i].row]
       \/ \E c \in unpublished : c.row = Announced[i].row
       \/ \E j \in 1..Len(Announced) : i < j /\ Announced[j].row = Announced[i].row

More(r) ==
  \/ \E i \in 1..Len(Announced) : seen.at < i /\ Announced[i].row = r
  \/ \E c \in unpublished : c.row = r

\* No event to come is taken for an old one.
KnownInv == \A r \in Patched :
  /\ known[r] <= versions[r]
  /\ \A i \in 1..Len(Announced) :
       seen.at < i /\ Announced[i].row = r => known[r] < Announced[i].ver

RowInv(r) ==
  /\ overlay[r] \in {0, disk[r]}
  /\ \/ timer \/ again \/ read.st \in {"asked", "saved", "late"}
     \/ read.st = "answered" /\ (read.list[r] = disk[r] \/ (r \in raced /\ overlay[r] # 0))
     \/ read.st = "idle" /\ (~loaded \/ stale \/ rows[r] = disk[r])

PageInv ==
  /\ seen.boot # NoBoot
  /\ \A r \in Hinted : overlay[r] = 0
  /\ seen.boot = boot => KnownInv /\ \A r \in Rows : More(r) \/ RowInv(r)

CurrentInv == StreamInv /\ AnnouncedInv /\ PageInv

\* The property follows.
LEMMA CurrentImplies == CurrentInv => CaughtUpIsCurrent
<1> SUFFICES ASSUME CurrentInv, CaughtUp PROVE rows = disk
  BY DEF CaughtUpIsCurrent
<1>1. /\ rows \in [Rows -> Nat] /\ disk \in [Rows -> Nat]
      /\ Len(Announced) \in Nat
  BY DEF CurrentInv, StreamInv, TypeOK, Counts, Announced
<1>2. seen.boot = boot /\ seen.at = Len(Announced) /\ unpublished = {}
  BY DEF CaughtUp, Latest, Announced
<1>3. ASSUME NEW r \in Rows PROVE rows[r] = disk[r]
  <2>1. ~More(r)
    BY <1>1, <1>2 DEF More
  <2>2. RowInv(r)
    BY <1>2, <2>1 DEF CurrentInv, PageInv
  <2> QED
    BY <2>2 DEF RowInv, CaughtUp
<1> QED
  BY <1>1, <1>3

\* Nothing has been written or announced at the start.
LEMMA InitCurrent == OneAtATime /\ Init => CurrentInv
<1> SUFFICES ASSUME OneAtATime, Init PROVE CurrentInv
  OBVIOUS
<1>1. boot \in Boots /\ Announced = <<>> /\ Len(Announced) = 0
  BY InitStream DEF Init, Announced, StreamInv, TypeOK
<1>2. AnnouncedInv
  BY <1>1 DEF AnnouncedInv, Init
<1>3. KnownInv
  BY <1>1 DEF KnownInv, Init, Zero, Rows
<1>4. \A r \in Rows : RowInv(r)
  BY DEF RowInv, Init, Zero, Idle
<1>5. seen.boot # NoBoot /\ \A r \in Hinted : overlay[r] = 0
  BY DEF Init, OneAtATime, NoBoot, Zero, Rows
<1> QED
  BY <1>2, <1>3, <1>4, <1>5, InitStream DEF CurrentInv, PageInv

\* The announcements are events.
LEMMA AnnouncedTypes ==
  ASSUME StreamInv
  PROVE  /\ Announced \in Seq(Events) /\ Len(Announced) \in Nat
         /\ \A i \in 1..Len(Announced) :
              /\ Announced[i].row \in Rows /\ Announced[i].ver \in Nat
              /\ Announced[i].val \in Nat \ {0}
<1>1. Announced \in Seq(Events)
  BY DEF StreamInv, TypeOK, Announced
<1> HIDE DEF Announced
<1>2. \A i \in 1..Len(Announced) : Announced[i] \in Events
  BY <1>1
<1> QED
  BY <1>1, <1>2 DEF Events

\* What a publication appends.
LEMMA PublishAppends ==
  ASSUME StreamInv, NEW c \in unpublished, Publish(c)
  PROVE  LET e == [row |-> c.row, val |-> c.val, ver |-> versions'[c.row]] IN
         /\ boot' = boot /\ Len(Announced) \in Nat /\ Len(Announced') = Len(Announced) + 1
         /\ \A i \in 1..Len(Announced) : Announced'[i] = Announced[i]
         /\ Announced'[Len(Announced) + 1] = e
         /\ \A r \in Rows : versions[r] \in Nat /\ versions'[r] \in Nat
                            /\ versions[r] <= versions'[r]
         /\ c.row \in Patched => versions[c.row] < versions'[c.row]
<1> DEFINE e == [row |-> c.row, val |-> c.val, ver |-> versions'[c.row]]
<1>1. boot \in Boots /\ log \in [Boots -> Seq(Events)] /\ versions \in [Rows -> Nat]
      /\ c.row \in Rows
  BY DEF StreamInv, TypeOK, Changes
<1>2. log' = [log EXCEPT ![boot] = Append(@, e)] /\ boot' = boot
  BY DEF Publish
<1>3. Announced' = Append(Announced, e) /\ Announced \in Seq(Events)
  BY <1>1, <1>2 DEF Announced
<1>4. /\ \A r \in Rows : versions[r] \in Nat /\ versions'[r] \in Nat
                         /\ versions[r] <= versions'[r]
      /\ c.row \in Patched => versions[c.row] < versions'[c.row]
  BY <1>1 DEF Publish
<1> HIDE DEF e
<1>5. /\ Len(Announced) \in Nat /\ Len(Announced') = Len(Announced) + 1
      /\ \A i \in 1..Len(Announced) : Announced'[i] = Announced[i]
      /\ Announced'[Len(Announced) + 1] = e
  BY <1>3
<1> QED
  BY <1>2, <1>4, <1>5 DEF e

\* Announcements end with the last value of each row.
LEMMA StepAnnounced ==
  ASSUME OneAtATime, CurrentInv, TypeOK', [Next]_vars
  PROVE  AnnouncedInv'
<1>1. StreamInv /\ AnnouncedInv /\ TypeOK
  BY DEF CurrentInv, StreamInv
<1>2. ASSUME NEW r \in Rows, Write(r) PROVE AnnouncedInv'
  <2>1. /\ disk' = [disk EXCEPT ![r] = @ + 1]
        /\ unpublished' = unpublished \cup {[row |-> r, val |-> disk[r] + 1]}
        /\ \A c \in unpublished : c.row # r
        /\ UNCHANGED <<boot, log, versions>>
    BY <1>2 DEF Write, OneAtATime
  <2>2. /\ disk'[r] = disk[r] + 1
        /\ \A q \in Rows \ {r} : disk'[q] = disk[q]
        /\ \A c \in unpublished : c.row \in Rows
    BY <1>1, <2>1 DEF TypeOK, Counts, Changes
  <2>3. Announced' = Announced /\ \A i \in 1..Len(Announced) : Announced[i].row \in Rows
    <3>1. Announced' = Announced
      BY <2>1 DEF Announced
    <3> QED
      BY <1>1, <3>1, AnnouncedTypes
  <2>4. \A c \in unpublished' : c.val = disk'[c.row]
    BY <1>1, <2>1, <2>2 DEF AnnouncedInv
  <2>5. \A i \in 1..Len(Announced) :
          \/ Announced[i].val = disk'[Announced[i].row]
          \/ \E c \in unpublished' : c.row = Announced[i].row
          \/ \E j \in 1..Len(Announced) : i < j /\ Announced[j].row = Announced[i].row
    <3> SUFFICES ASSUME NEW i \in 1..Len(Announced),
                        ~ \E c \in unpublished' : c.row = Announced[i].row,
                        ~ \E j \in 1..Len(Announced) :
                            i < j /\ Announced[j].row = Announced[i].row
                 PROVE  Announced[i].val = disk'[Announced[i].row]
      OBVIOUS
    <3>1. Announced[i].row # r
      <4> DEFINE c == [row |-> r, val |-> disk[r] + 1]
      <4>1. c \in unpublished' /\ c.row = r
        BY <2>1
      <4> QED
        BY <4>1
    <3>2. Announced[i].val = disk[Announced[i].row]
      BY <1>1, <2>1 DEF AnnouncedInv
    <3> QED
      BY <2>2, <2>3, <3>1, <3>2
  <2> QED
    BY <1>1, <2>1, <2>3, <2>4, <2>5 DEF AnnouncedInv
<1>3. ASSUME NEW c \in unpublished, Publish(c) PROVE AnnouncedInv'
  <2> DEFINE n == Len(Announced)
             e == [row |-> c.row, val |-> c.val, ver |-> versions'[c.row]]
  <2>1. /\ boot' = boot /\ n \in Nat /\ Len(Announced') = n + 1
        /\ \A i \in 1..n : Announced'[i] = Announced[i]
        /\ Announced'[n + 1] = e
        /\ \A r \in Rows : versions[r] \in Nat /\ versions'[r] \in Nat
                           /\ versions[r] <= versions'[r]
        /\ c.row \in Patched => versions[c.row] < versions'[c.row]
    BY <1>1, <1>3, PublishAppends
  <2>2. disk' = disk /\ unpublished' = unpublished \ {c}
    BY <1>3 DEF Publish
  <2>3. e.row = c.row /\ e.val = disk[c.row] /\ e.ver = versions'[c.row] /\ c.row \in Rows
    BY <1>1 DEF AnnouncedInv, TypeOK, Changes
  <2>4. \A i \in 1..n : Announced[i].row \in Rows /\ Announced[i].ver \in Nat
    BY <1>1, AnnouncedTypes
  <2> HIDE DEF n, e
  <2>5. \A i \in 1..(n + 1) : Announced'[i].row \in Patched
          => Announced'[i].ver \in 1..versions'[Announced'[i].row]
    <3> SUFFICES ASSUME NEW i \in 1..(n + 1), Announced'[i].row \in Patched
                 PROVE  Announced'[i].ver \in 1..versions'[Announced'[i].row]
      OBVIOUS
    <3>1. CASE i = n + 1
      <4>1. Announced'[i].row = c.row /\ Announced'[i].ver = versions'[c.row]
        BY <2>1, <2>3, <3>1
      <4>2. versions'[c.row] \in Nat /\ versions[c.row] \in Nat
            /\ versions[c.row] < versions'[c.row]
        BY <2>1, <2>3, <4>1
      <4> QED
        BY <4>1, <4>2
    <3>2. CASE i \in 1..n
      <4> DEFINE q == Announced[i].row
      <4>1. Announced'[i] = Announced[i] /\ q \in Patched
        BY <2>1, <3>2
      <4>2. Announced[i].ver \in 1..versions[q]
        BY <1>1, <3>2, <4>1 DEF AnnouncedInv, n
      <4>3. q \in Rows /\ versions[q] \in Nat /\ versions'[q] \in Nat
            /\ versions[q] <= versions'[q]
        BY <2>1, <2>4, <3>2
      <4> HIDE DEF q
      <4>4. Announced[i].ver \in 1..versions'[q]
        BY <4>2, <4>3
      <4> QED
        BY <4>1, <4>4 DEF q
    <3> QED
      BY <2>1, <3>1, <3>2
  <2>6. \A i, j \in 1..(n + 1) :
          i < j /\ Announced'[i].row = Announced'[j].row /\ Announced'[i].row \in Patched
            => Announced'[i].ver < Announced'[j].ver
    <3> SUFFICES ASSUME NEW i \in 1..(n + 1), NEW j \in 1..(n + 1), i < j,
                        Announced'[i].row = Announced'[j].row,
                        Announced'[i].row \in Patched
                 PROVE  Announced'[i].ver < Announced'[j].ver
      OBVIOUS
    <3>1. i \in 1..n /\ Announced'[i] = Announced[i]
      BY <2>1
    <3>2. CASE j \in 1..n
      BY <1>1, <2>1, <3>1, <3>2 DEF AnnouncedInv, n
    <3>3. CASE j = n + 1
      <4>1. Announced[i].row = c.row /\ Announced'[j].ver = versions'[c.row]
            /\ c.row \in Patched
        BY <2>1, <2>3, <3>1, <3>3
      <4>2. Announced[i].ver \in 1..versions[c.row]
        BY <1>1, <3>1, <4>1 DEF AnnouncedInv, n
      <4>3. versions'[c.row] \in Nat /\ versions[c.row] \in Nat
            /\ versions[c.row] < versions'[c.row]
        BY <2>1, <2>3, <4>1
      <4> QED
        BY <3>1, <4>1, <4>2, <4>3
    <3> QED
      BY <2>1, <3>2, <3>3
  <2>7. \A i \in 1..(n + 1) :
          \/ Announced'[i].val = disk[Announced'[i].row]
          \/ \E d \in unpublished' : d.row = Announced'[i].row
          \/ \E j \in 1..(n + 1) : i < j /\ Announced'[j].row = Announced'[i].row
    <3> SUFFICES ASSUME NEW i \in 1..(n + 1),
                        Announced'[i].val # disk[Announced'[i].row],
                        ~ \E d \in unpublished' : d.row = Announced'[i].row
                 PROVE  \E j \in 1..(n + 1) : i < j /\ Announced'[j].row = Announced'[i].row
      OBVIOUS
    <3>1. i # n + 1
      BY <2>1, <2>3
    <3>2. i \in 1..n /\ Announced'[i] = Announced[i]
      BY <2>1, <3>1
    <3>3. \/ \E d \in unpublished : d.row = Announced[i].row
          \/ \E j \in 1..n : i < j /\ Announced[j].row = Announced[i].row
      BY <1>1, <3>2 DEF AnnouncedInv, n
    <3>4. CASE \E d \in unpublished : d.row = Announced[i].row
      <4>1. Announced[i].row = c.row
        BY <2>2, <3>2, <3>4
      <4>2. n + 1 \in 1..(n + 1) /\ i < n + 1
        BY <2>1, <3>2
      <4>3. Announced'[n + 1].row = Announced'[i].row
        BY <2>1, <2>3, <3>2, <4>1
      <4> QED
        BY <4>2, <4>3
    <3>5. CASE \E j \in 1..n : i < j /\ Announced[j].row = Announced[i].row
      <4> PICK j \in 1..n : i < j /\ Announced[j].row = Announced[i].row
        BY <3>5
      <4>1. Announced'[j] = Announced[j] /\ j \in 1..(n + 1)
        BY <2>1
      <4> QED
        BY <3>2, <4>1
    <3> QED
      BY <3>3, <3>4, <3>5
  <2>8. \A d \in unpublished' : d.val = disk'[d.row]
    BY <1>1, <2>2 DEF AnnouncedInv
  <2> QED
    BY <2>1, <2>2, <2>5, <2>6, <2>7, <2>8 DEF AnnouncedInv
<1>4. CASE Crash
  <2>1. unpublished' = {} /\ log' = log /\ boot' = boot + 1
    BY <1>4 DEF Crash
  <2>2. boot' \in Boots /\ boot \in Boots /\ boot' > boot
    BY <1>1, <2>1, StreamBounds DEF TypeOK, Boots
  <2>3. Announced' = <<>>
    BY <1>1, <2>1, <2>2 DEF StreamInv, LogsInv, Announced
  <2> QED
    BY <2>1, <2>3 DEF AnnouncedInv
<1>5. CASE UNCHANGED <<disk, unpublished, boot, log, versions>>
  <2>1. Announced' = Announced
    BY <1>5 DEF Announced
  <2> QED
    BY <1>1, <1>5, <2>1 DEF AnnouncedInv
<1>6. \/ \E r \in Rows : Write(r)
      \/ PublishSome \/ Crash
      \/ UNCHANGED <<disk, unpublished, boot, log, versions>>
  BY DEF Next, Connect, Snapshot, Emit, Disconnect, Receive, ExpireSome, Expire,
     FireTimer, Recover, AnswerRead, Answer, AnswerSaved, Land, ReadFails, Reload, vars, serverVars
<1> QED
  BY <1>2, <1>3, <1>4, <1>5, <1>6 DEF PublishSome

\* A change that reaches a page of the running server: a hint schedules a
\* reread, a patch is newer than what the page knows and is applied.
LEMMA EventReceived ==
  ASSUME CurrentInv, TypeOK', Receive, wire[1].kind = "event", seen'.boot = boot'
  PROVE  LET e == Announced[seen.at + 1] IN
         /\ seen.boot = boot /\ seen.at + 1 \in 1..Len(Announced)
         /\ seen'.at = seen.at + 1 /\ e.row \in Rows
         /\ UNCHANGED <<disk, unpublished, boot, log, versions, Announced, loaded, read,
                        again, stale>>
         /\ e.row \in Hinted => timer' = TRUE /\ UNCHANGED <<known, rows, overlay, raced>>
         /\ e.row \notin Hinted =>
              /\ timer' = timer /\ Patch(e.row, e.val)
              /\ known' = [known EXCEPT ![e.row] = e.ver]
<1> DEFINE m == wire[1]
           e == Announced[seen.at + 1]
<1>1. StreamInv /\ TypeOK /\ AnnouncedInv /\ PageInv
  BY DEF CurrentInv, StreamInv
<1>2. /\ UNCHANGED <<disk, unpublished, boot, log, versions, loaded, read, again, stale>>
      /\ Announced' = Announced
  BY DEF Receive, serverVars, Announced
<1>3. /\ m \in Messages /\ InLog(m) /\ Follows(seen, m)
      /\ seen' = [boot |-> m.boot, at |-> m.at]
      /\ ApplyEvent(m, seen, known) /\ m.at > seen.at
  BY <1>1, ReceiveMoves
<1>4. m.boot = boot /\ m.at = seen.at + 1 /\ seen.boot = boot
  BY <1>1, <1>2, <1>3 DEF Follows, PageInv
<1>5. boot # NoBoot
  BY <1>1, <1>4 DEF PageInv
<1>6. seen.at \in Nat /\ m.at <= Len(Announced) /\ Len(Announced) \in Nat
  BY <1>1, <1>3, <1>4, <1>5, AnnouncedTypes DEF InLog, Announced, TypeOK, Cursors
<1>7. seen.at + 1 \in 1..Len(Announced) /\ seen'.at = seen.at + 1
  BY <1>3, <1>4, <1>6
<1>8. log[m.boot][m.at] = e /\ ~(m.at <= seen.at)
  BY <1>4, <1>6 DEF Announced
<1>9. e.row \in Rows /\ e.ver \in Nat
  BY <1>1, <1>7, AnnouncedTypes
<1>10. CASE e.row \in Hinted
  <2>1. timer' = TRUE /\ UNCHANGED <<known, rows, overlay, raced>>
    BY <1>3, <1>8, <1>10 DEF ApplyEvent
  <2> QED
    BY <1>2, <1>4, <1>7, <1>9, <1>10, <2>1
<1>11. CASE e.row \notin Hinted
  <2>1. e.row \in Patched /\ known[e.row] < e.ver /\ known[e.row] \in Nat
    <3>1. e.row \in Patched
      BY <1>9, <1>11 DEF Rows
    <3>2. known[e.row] < e.ver
      BY <1>1, <1>4, <1>6, <1>7, <3>1 DEF PageInv, KnownInv
    <3> QED
      BY <1>1, <1>9, <3>1, <3>2 DEF TypeOK
  <2>2. MaxOf(known[e.row], e.ver) = e.ver /\ ~(e.ver <= known[e.row])
    BY <1>9, <2>1 DEF MaxOf
  <2>3. timer' = timer /\ Patch(e.row, e.val)
        /\ known' = [known EXCEPT ![e.row] = MaxOf(@, e.ver)]
    BY <1>3, <1>8, <1>11, <2>2 DEF ApplyEvent
  <2>4. known' = [known EXCEPT ![e.row] = e.ver]
    BY <2>2, <2>3
  <2> QED
    BY <1>2, <1>4, <1>7, <1>9, <1>11, <2>3, <2>4
<1> QED
  BY <1>10, <1>11

\* No step makes the page take a change to come for an old one.
LEMMA StepKnown ==
  ASSUME CurrentInv, TypeOK', [Next]_vars, seen'.boot = boot'
  PROVE  KnownInv'
<1>1. StreamInv /\ TypeOK /\ AnnouncedInv /\ PageInv
  BY DEF CurrentInv, StreamInv
<1>2. /\ versions \in [Rows -> Nat] /\ versions' \in [Rows -> Nat]
      /\ known \in [Rows -> Nat] /\ seen.at \in Nat /\ Patched \subseteq Rows
      /\ Len(Announced) \in Nat
  BY <1>1, AnnouncedTypes DEF TypeOK, Cursors, Rows
<1>3. ASSUME known' = Zero, UNCHANGED <<boot, log, versions>>
      PROVE  KnownInv'
  <2>1. Announced' = Announced
    BY <1>3 DEF Announced
  <2>2. ASSUME NEW r \in Patched PROVE known'[r] = 0 /\ versions'[r] \in Nat
    BY <1>2, <1>3, <2>2 DEF Zero
  <2>3. ASSUME NEW i \in 1..Len(Announced), Announced[i].row \in Patched
        PROVE  0 < Announced[i].ver
    <3>1. Announced[i].ver \in 1..versions[Announced[i].row]
      BY <1>1, <2>3 DEF AnnouncedInv
    <3>2. versions[Announced[i].row] \in Nat
      BY <1>2, <2>3
    <3> QED
      BY <3>1, <3>2
  <2> QED
    BY <2>1, <2>2, <2>3 DEF KnownInv
<1>4. CASE UNCHANGED <<seen, known, boot, log, versions>>
  <2>1. Announced' = Announced
    BY <1>4 DEF Announced
  <2> QED
    BY <1>1, <1>4, <2>1 DEF PageInv, KnownInv
<1>5. ASSUME NEW c \in unpublished, Publish(c) PROVE KnownInv'
  <2> DEFINE n == Len(Announced)
             e == [row |-> c.row, val |-> c.val, ver |-> versions'[c.row]]
  <2>1. /\ boot' = boot /\ n \in Nat /\ Len(Announced') = n + 1
        /\ \A i \in 1..n : Announced'[i] = Announced[i]
        /\ Announced'[n + 1] = e
        /\ \A r \in Rows : versions[r] \in Nat /\ versions'[r] \in Nat
                           /\ versions[r] <= versions'[r]
        /\ c.row \in Patched => versions[c.row] < versions'[c.row]
    BY <1>1, <1>5, PublishAppends
  <2>2. UNCHANGED <<seen, known>> /\ seen.boot = boot
    BY <1>5, <2>1 DEF Publish, pageVars
  <2>3. KnownInv
    BY <1>1, <2>2 DEF PageInv
  <2>4. e.row = c.row /\ e.ver = versions'[c.row]
    OBVIOUS
  <2> HIDE DEF n, e
  <2> SUFFICES ASSUME NEW r \in Patched
               PROVE  /\ known[r] <= versions'[r]
                      /\ \A i \in 1..(n + 1) :
                           seen.at < i /\ Announced'[i].row = r => known[r] < Announced'[i].ver
    BY <2>1, <2>2 DEF KnownInv
  <2>5. known[r] \in Nat /\ versions[r] \in Nat /\ versions'[r] \in Nat
        /\ versions[r] <= versions'[r] /\ known[r] <= versions[r]
    BY <1>2, <2>1, <2>3 DEF KnownInv
  <2>6. ASSUME NEW i \in 1..(n + 1), seen.at < i, Announced'[i].row = r
        PROVE  known[r] < Announced'[i].ver
    <3>1. CASE i = n + 1
      <4>1. r = c.row /\ Announced'[i].ver = versions'[r]
        BY <2>1, <2>4, <2>6, <3>1
      <4>2. versions[r] < versions'[r]
        BY <2>1, <4>1
      <4> QED
        BY <2>5, <4>1, <4>2
    <3>2. CASE i \in 1..n
      BY <2>1, <2>3, <2>6, <3>2 DEF KnownInv, n
    <3> QED
      BY <2>1, <3>1, <3>2
  <2> QED
    BY <2>5, <2>6
<1>6. CASE Crash
  <2>1. seen' = seen /\ boot' = boot + 1
    BY <1>6 DEF Crash, pageVars
  <2>2. seen.boot <= boot /\ boot \in Nat
    BY <1>1, StreamBounds DEF StreamInv, LogsInv, InLog, TypeOK, Boots
  <2> QED
    BY <2>1, <2>2
<1>7. CASE Receive
  <2>1. wire[1] \in Messages /\ (wire[1].kind = "resync" => ApplyResync(wire[1]))
    BY <1>1, <1>7, ReceiveMoves
  <2>2. UNCHANGED <<boot, log, versions>>
    BY <1>7 DEF Receive, serverVars
  <2>3. CASE wire[1].kind = "resync"
    BY <1>3, <2>1, <2>2, <2>3 DEF ApplyResync
  <2>4. CASE wire[1].kind = "event"
    <3> DEFINE e == Announced[seen.at + 1]
    <3>1. /\ seen.boot = boot /\ seen.at + 1 \in 1..Len(Announced)
          /\ seen'.at = seen.at + 1 /\ e.row \in Rows
          /\ Announced' = Announced /\ versions' = versions
          /\ e.row \in Hinted => known' = known
          /\ e.row \notin Hinted => known' = [known EXCEPT ![e.row] = e.ver]
      BY <1>7, <2>4, EventReceived
    <3>2. KnownInv
      BY <1>1, <3>1 DEF PageInv
    <3> SUFFICES ASSUME NEW r \in Patched
                 PROVE  /\ known'[r] <= versions[r]
                        /\ \A i \in 1..Len(Announced) :
                             seen.at + 1 < i /\ Announced[i].row = r
                               => known'[r] < Announced[i].ver
      BY <3>1 DEF KnownInv
    <3>3. CASE known'[r] = known[r]
      BY <1>2, <3>2, <3>3 DEF KnownInv
    <3>4. CASE known'[r] # known[r]
      <4>1. e.row = r /\ known'[r] = e.ver
        BY <1>2, <3>1, <3>4
      <4>2. e.ver \in 1..versions[r]
        BY <1>1, <3>1, <4>1 DEF AnnouncedInv
      <4>3. \A i \in 1..Len(Announced) :
              seen.at + 1 < i /\ Announced[i].row = r => e.ver < Announced[i].ver
        BY <1>1, <3>1, <4>1 DEF AnnouncedInv
      <4>4. versions[r] \in Nat
        BY <1>2
      <4> HIDE DEF e
      <4> QED
        BY <4>1, <4>2, <4>3, <4>4
    <3> QED
      BY <3>3, <3>4
  <2> QED
    BY <2>1, <2>3, <2>4 DEF Messages
<1>8. ASSUME NEW b \in 1..boot, NEW k \in 0..Len(log[b]), Reload(b, k)
      PROVE  KnownInv'
  BY <1>3, <1>8 DEF Reload, serverVars
<1>9. \/ PublishSome \/ Crash \/ Receive
      \/ \E b \in 1..boot : \E k \in 0..Len(log[b]) : Reload(b, k)
      \/ UNCHANGED <<seen, known, boot, log, versions>>
  BY DEF Next, Write, Connect, Snapshot, Emit, Disconnect, ExpireSome, Expire,
     FireTimer, Recover, AnswerRead, Answer, AnswerSaved, Land, ReadFails, vars, serverVars, pageVars
<1> QED
  BY <1>4, <1>5, <1>6, <1>7, <1>8, <1>9 DEF PublishSome

\* The steps of a list read keep what the page holds of a row, or leave it
\* about to read again.
LEMMA ReadKeepsRow ==
  ASSUME TypeOK, OneAtATime, NEW r \in Rows, RowInv(r),
         FireTimer \/ Recover \/ AnswerRead \/ Land \/ ReadFails \/ ExpireSome
  PROVE  RowInv(r)'
<1>1. /\ overlay[r] \in {0, disk[r]} /\ disk' = disk
      /\ read.st \in ReadStates /\ disk[r] \in Nat
  BY DEF RowInv, TypeOK, Counts, FireTimer, Recover, AnswerRead, Answer, AnswerSaved, Land,
     ReadFails, ExpireSome, Expire, serverVars
<1>2. CASE FireTimer
  <2>1. overlay' = overlay
    BY <1>2 DEF FireTimer, pageVars
  <2>2. CASE StartRead("refresh")
    BY <1>1, <1>2, <2>1, <2>2 DEF FireTimer, StartRead, Asked, RowInv
  <2>3. CASE again' = TRUE /\ UNCHANGED <<read, raced, readers>>
    BY <1>1, <1>2, <2>1, <2>3 DEF FireTimer, RowInv
  <2>4. CASE /\ readers = {"recovery"} /\ readers' = Readers
             /\ read' = [read EXCEPT !.st = IF @ = "answered" THEN "late" ELSE @]
             /\ UNCHANGED <<raced, again>>
    <3>1. read'.st \in {"asked", "saved", "late"}
      BY <1>1, <2>4 DEF TypeOK, ReadStates
    <3> QED
      BY <1>1, <2>1, <3>1 DEF RowInv
  <2> QED
    BY <1>2, <2>2, <2>3, <2>4 DEF FireTimer
<1>8. CASE Recover
  <2>1. overlay' = overlay /\ read'.st = "asked"
    BY <1>8 DEF Recover, pageVars, StartRead, Asked
  <2> QED
    BY <1>1, <2>1 DEF RowInv
<1>3. CASE Answer
  BY <1>1, <1>3 DEF Answer, RowInv, pageVars
<1>4. CASE AnswerSaved
  <2>1. read'.st = "saved" /\ overlay' = overlay
    BY <1>4 DEF AnswerSaved, pageVars
  <2> QED
    BY <1>1, <2>1 DEF RowInv
<1>5. CASE Land
  <2>1. /\ rows'[r] = IF "refresh" \in readers /\ overlay[r] # 0
                        THEN overlay[r] ELSE read.list[r]
        /\ stale' = (read.st # "answered" \/ (readers = {"recovery"} /\ raced # {}))
        /\ read.st \in {"answered", "saved", "late"}
        /\ overlay' = overlay /\ timer' = timer
    BY <1>5 DEF Land
  <2>0. "refresh" \in readers \/ readers = {"recovery"}
    BY <2>1 DEF TypeOK, Readers
  <2>2. CASE again
    BY <1>1, <1>5, <2>1, <2>2 DEF Land, NextRead, StartRead, Asked, RowInv
  <2>3. CASE ~again
    <3>1. read'.st = "idle"
      BY <1>5, <2>3 DEF Land, NextRead, NoRead, Idle
    <3>2. timer' \/ stale' \/ rows'[r] = disk[r]
      <4>1. CASE read.st # "answered"
        BY <2>1, <4>1
      <4>2. CASE read.st = "answered" /\ "refresh" \in readers
        BY <1>1, <2>1, <2>3, <4>2 DEF RowInv
      <4>3. CASE read.st = "answered" /\ readers = {"recovery"}
        <5>1. "refresh" \notin readers
          BY <4>3
        <5>2. timer \/ read.list[r] = disk[r] \/ raced # {}
          BY <2>3, <4>3 DEF RowInv
        <5> QED
          BY <1>1, <2>1, <4>3, <5>1, <5>2
      <4> QED
        BY <2>0, <4>1, <4>2, <4>3
    <3> QED
      BY <1>1, <2>1, <3>1, <3>2 DEF RowInv
  <2> QED
    BY <2>2, <2>3
<1>6. CASE ReadFails
  <2>1. overlay' = overlay /\ stale' = TRUE
    BY <1>6 DEF ReadFails, pageVars
  <2>2. read'.st \in {"asked", "idle"}
    BY <1>6 DEF ReadFails, NextRead, StartRead, NoRead, Asked, Idle
  <2> QED
    BY <1>1, <2>1, <2>2 DEF RowInv
<1>7. ASSUME NEW q \in Patched, Expire(q) PROVE RowInv(r)'
  <2>1. /\ overlay'[r] \in {0, overlay[r]} /\ (r # q => overlay'[r] = overlay[r])
        /\ UNCHANGED <<disk, rows, readVars>>
        /\ read.st = "idle" \/ q \notin raced
    BY <1>7 DEF Expire, serverVars, OneAtATime, TypeOK, Counts
  <2>2. overlay'[r] \in {0, disk'[r]}
    BY <1>1, <2>1
  <2>3. read.st = "answered" /\ r \in raced => overlay'[r] = overlay[r]
    BY <2>1
  <2> QED
    BY <2>1, <2>2, <2>3 DEF RowInv, readVars
<1> QED
  BY <1>2, <1>3, <1>4, <1>5, <1>6, <1>7, <1>8 DEF AnswerRead, ExpireSome

\* For each row more is to come, or the page holds its last value or is about
\* to read it.
LEMMA StepRow ==
  ASSUME OneAtATime, CurrentInv, TypeOK', [Next]_vars, seen'.boot = boot', NEW r \in Rows
  PROVE  More(r)' \/ RowInv(r)'
<1>1. StreamInv /\ TypeOK /\ AnnouncedInv /\ PageInv
  BY DEF CurrentInv, StreamInv
<1>2. seen.boot = boot => More(r) \/ RowInv(r)
  BY <1>1 DEF PageInv
<1>3. ASSUME NEW q \in Rows, Write(q) PROVE More(r)' \/ RowInv(r)'
  <2>1. /\ disk' = [disk EXCEPT ![q] = @ + 1]
        /\ unpublished' = unpublished \cup {[row |-> q, val |-> disk[q] + 1]}
        /\ UNCHANGED <<boot, log, pageVars, readVars>>
    BY <1>3 DEF Write
  <2>2. Announced' = Announced /\ UNCHANGED <<seen, overlay, rows, read, timer, again, raced,
                                              loaded, stale>>
    BY <2>1 DEF Announced, pageVars, readVars
  <2>3. CASE r = q
    <3> DEFINE c == [row |-> q, val |-> disk[q] + 1]
    <3>1. c \in unpublished' /\ c.row = r
      BY <2>1, <2>3
    <3> QED
      BY <3>1 DEF More
  <2>4. CASE r # q
    <3>1. disk'[r] = disk[r]
      BY <1>1, <2>1, <2>4 DEF TypeOK, Counts
    <3>2. More(r) => More(r)'
      BY <2>1, <2>2 DEF More
    <3>3. RowInv(r) => RowInv(r)'
      BY <2>2, <3>1 DEF RowInv
    <3> QED
      BY <1>2, <2>1, <2>2, <3>2, <3>3
  <2> QED
    BY <2>3, <2>4
<1>4. ASSUME NEW c \in unpublished, Publish(c) PROVE More(r)' \/ RowInv(r)'
  <2> DEFINE n == Len(Announced)
             e == [row |-> c.row, val |-> c.val, ver |-> versions'[c.row]]
  <2>1. /\ boot' = boot /\ n \in Nat /\ Len(Announced') = n + 1
        /\ \A i \in 1..n : Announced'[i] = Announced[i]
        /\ Announced'[n + 1] = e
    BY <1>1, <1>4, PublishAppends
  <2>2. unpublished' = unpublished \ {c} /\ UNCHANGED <<disk, pageVars, readVars>>
    BY <1>4 DEF Publish
  <2>3. UNCHANGED <<seen, overlay, rows, read, timer, again, raced, loaded, stale>>
        /\ seen.boot = boot
    BY <2>1, <2>2 DEF pageVars, readVars
  <2>4. seen.at <= n /\ seen.at \in Nat
    BY <1>1, <2>3 DEF StreamInv, LogsInv, InLog, PageInv, Announced, TypeOK, Cursors
  <2>5. e.row = c.row
    OBVIOUS
  <2> HIDE DEF n, e
  <2>6. CASE r = c.row
    <3>1. n + 1 \in 1..(n + 1) /\ seen.at < n + 1 /\ Announced'[n + 1].row = r
      BY <2>1, <2>4, <2>5, <2>6
    <3> QED
      BY <2>1, <2>3, <3>1 DEF More
  <2>7. CASE r # c.row
    <3>1. ASSUME NEW i \in 1..n, seen.at < i, Announced[i].row = r PROVE More(r)'
      <4>1. i \in 1..(n + 1) /\ Announced'[i].row = r
        BY <2>1, <3>1
      <4> QED
        BY <2>1, <2>3, <3>1, <4>1 DEF More
    <3>2. ASSUME NEW d \in unpublished, d.row = r PROVE More(r)'
      BY <2>2, <2>7, <3>2 DEF More
    <3>3. More(r) => More(r)'
      BY <3>1, <3>2 DEF More, n
    <3>4. RowInv(r) => RowInv(r)'
      BY <2>2, <2>3 DEF RowInv
    <3> QED
      BY <1>2, <2>3, <3>3, <3>4
  <2> QED
    BY <2>6, <2>7
<1>5. CASE Crash
  <2>1. seen' = seen /\ boot' = boot + 1
    BY <1>5 DEF Crash, pageVars
  <2>2. seen.boot <= boot /\ boot \in Nat
    BY <1>1, StreamBounds DEF StreamInv, LogsInv, InLog, TypeOK, Boots
  <2> QED
    BY <2>1, <2>2
<1>6. CASE Receive
  <2>1. /\ wire[1] \in Messages
        /\ wire[1].kind = "resync" => ApplyResync(wire[1])
    BY <1>1, <1>6, ReceiveMoves
  <2>2. CASE wire[1].kind = "resync"
    BY <2>1, <2>2 DEF ApplyResync, RowInv, Zero
  <2>3. CASE wire[1].kind = "event"
    <3> DEFINE n == seen.at + 1
               e == Announced[n]
    <3>1. /\ seen.boot = boot /\ n \in 1..Len(Announced)
          /\ seen'.at = n /\ e.row \in Rows
          /\ UNCHANGED <<disk, unpublished, Announced, loaded, read, again, stale>>
          /\ e.row \in Hinted => timer' = TRUE /\ UNCHANGED <<rows, overlay, raced>>
          /\ e.row \notin Hinted => timer' = timer /\ Patch(e.row, e.val)
      BY <1>6, <2>3, EventReceived
    <3>2. seen.at \in Nat /\ Len(Announced) \in Nat /\ e.val \in Nat \ {0}
          /\ raced \subseteq Rows /\ rows \in Counts /\ overlay \in Counts
          /\ read.st \in ReadStates
      BY <1>1, <3>1, AnnouncedTypes DEF TypeOK, Cursors
    <3> HIDE DEF n, e
    <3>3. CASE e.row = r
      <4>1. CASE r \in Hinted
        BY <1>1, <3>1, <3>3, <4>1 DEF PageInv, RowInv
      <4>2. CASE r \notin Hinted
        <5>1. More(r)' \/ e.val = disk[r]
          <6>1. \/ e.val = disk[r]
                \/ \E c \in unpublished : c.row = r
                \/ \E j \in 1..Len(Announced) : n < j /\ Announced[j].row = r
            BY <1>1, <3>1, <3>3 DEF AnnouncedInv, e
          <6> QED
            BY <3>1, <6>1 DEF More
        <5>2. /\ overlay'[r] = e.val /\ timer' = timer
              /\ loaded => rows'[r] = e.val
              /\ read.st # "idle" => r \in raced'
          BY <3>1, <3>2, <3>3, <4>2 DEF Patch, Counts
        <5>3. e.val = disk[r] => RowInv(r)'
          BY <3>1, <3>2, <5>2 DEF RowInv, ReadStates
        <5> QED
          BY <5>1, <5>3
      <4> QED
        BY <4>1, <4>2
    <3>4. CASE e.row # r
      <4>1. More(r) => More(r)'
        <5>1. ASSUME NEW i \in 1..Len(Announced), seen.at < i, Announced[i].row = r
              PROVE  n < i
          <6>1. i # n
            BY <3>4, <5>1 DEF e
          <6>2. n = seen.at + 1
            BY DEF n
          <6> QED
            BY <3>2, <5>1, <6>1, <6>2
        <5> QED
          BY <3>1, <5>1 DEF More
      <4>2. /\ overlay'[r] = overlay[r] /\ rows'[r] = rows[r]
            /\ r \in raced => r \in raced'
            /\ timer => timer'
        <5>1. CASE e.row \in Hinted
          BY <3>1, <5>1
        <5>2. CASE e.row \notin Hinted
          BY <3>1, <3>2, <3>4, <5>2 DEF Patch, Counts
        <5> QED
          BY <5>1, <5>2
      <4>3. RowInv(r) => RowInv(r)'
        BY <3>1, <4>2 DEF RowInv
      <4> QED
        BY <1>2, <3>1, <4>1, <4>3
    <3> QED
      BY <3>3, <3>4
  <2> QED
    BY <2>1, <2>2, <2>3 DEF Messages
<1>7. CASE FireTimer \/ Recover \/ AnswerRead \/ Land \/ ReadFails \/ ExpireSome
  <2>1. UNCHANGED <<seen, boot, log, unpublished>>
    BY <1>7 DEF FireTimer, Recover, AnswerRead, Answer, AnswerSaved, Land, ReadFails, ExpireSome,
       Expire, serverVars, pageVars
  <2>2. More(r) => More(r)'
    BY <2>1 DEF More, Announced
  <2> QED
    BY <1>1, <1>2, <1>7, <2>1, <2>2, ReadKeepsRow
<1>8. ASSUME NEW b \in 1..boot, NEW k \in 0..Len(log[b]), Reload(b, k)
      PROVE  RowInv(r)'
  BY <1>8 DEF Reload, StartRead, Asked, Zero, RowInv
<1>9. CASE UNCHANGED <<serverVars, pageVars, readVars>>
  <2>1. UNCHANGED <<seen, boot, log, unpublished, disk, overlay, rows, read, timer, again,
                    raced, loaded, stale>>
    BY <1>9 DEF serverVars, pageVars, readVars
  <2>2. (More(r) => More(r)') /\ (RowInv(r) => RowInv(r)')
    BY <2>1 DEF More, Announced, RowInv
  <2> QED
    BY <1>2, <2>1, <2>2
<1>10. \/ \E q \in Rows : Write(q)
       \/ PublishSome \/ Crash \/ Receive
       \/ FireTimer \/ Recover \/ AnswerRead \/ Land \/ ReadFails \/ ExpireSome
       \/ \E b \in 1..boot : \E k \in 0..Len(log[b]) : Reload(b, k)
       \/ UNCHANGED <<serverVars, pageVars, readVars>>
  BY DEF Next, Connect, Snapshot, Emit, Disconnect, vars
<1> QED
  BY <1>3, <1>4, <1>5, <1>6, <1>7, <1>8, <1>9, <1>10 DEF PublishSome

\* The invariant of a current page is inductive.
LEMMA StepCurrent == OneAtATime /\ CurrentInv /\ [Next]_vars => CurrentInv'
<1> SUFFICES ASSUME OneAtATime, CurrentInv, [Next]_vars PROVE CurrentInv'
  OBVIOUS
<1>1. StreamInv /\ PageInv /\ TypeOK
  BY DEF CurrentInv, StreamInv
<1>2. StreamInv' /\ TypeOK'
  BY <1>1, StepStream, StepType
<1>3. AnnouncedInv'
  BY <1>2, StepAnnounced
<1>4. seen'.boot # NoBoot
  <2>1. CASE seen' = seen
    BY <1>1, <2>1 DEF PageInv
  <2>2. CASE Receive
    <3>1. wire[1] \in Messages /\ seen' = [boot |-> wire[1].boot, at |-> wire[1].at]
      BY <1>1, <2>2, ReceiveMoves
    <3> QED
      BY <3>1 DEF Messages, Boots, NoBoot
  <2>3. ASSUME NEW b \in 1..boot, NEW k \in 0..Len(log[b]), Reload(b, k)
        PROVE  seen'.boot # NoBoot
    BY <2>3 DEF Reload, NoBoot
  <2> QED
    BY <2>1, <2>2, <2>3 DEF Next, Write, PublishSome, Publish, Crash, Connect, Snapshot,
       Emit, Disconnect, ExpireSome, Expire, FireTimer, Recover, AnswerRead, Answer, AnswerSaved,
       Land, ReadFails, vars, pageVars
<1>5. ASSUME NEW r \in Hinted PROVE overlay'[r] = 0
  <2>1. overlay[r] = 0 /\ r \in Rows /\ overlay \in Counts
    BY <1>1 DEF PageInv, Rows, TypeOK
  <2>2. CASE overlay' = overlay
    BY <2>1, <2>2
  <2>3. CASE Receive
    <3>1. /\ wire[1] \in Messages
          /\ wire[1].kind = "resync" => ApplyResync(wire[1])
          /\ wire[1].kind = "event" => ApplyEvent(wire[1], seen, known)
      BY <1>1, <2>3, ReceiveMoves
    <3>2. CASE wire[1].kind = "resync"
      BY <2>1, <3>1, <3>2 DEF ApplyResync, Zero
    <3>3. CASE wire[1].kind = "event"
      <4> DEFINE e == log[wire[1].boot][wire[1].at]
      <4>1. \/ overlay' = overlay
            \/ e.row \notin Hinted /\ overlay' = [overlay EXCEPT ![e.row] = e.val]
        BY <3>1, <3>3 DEF ApplyEvent, Patch
      <4> HIDE DEF e
      <4> QED
        BY <2>1, <4>1 DEF Counts
    <3> QED
      BY <3>1, <3>2, <3>3 DEF Messages
  <2>4. CASE ExpireSome
    BY <2>1, <2>4 DEF ExpireSome, Expire, Counts
  <2>5. ASSUME NEW b \in 1..boot, NEW k \in 0..Len(log[b]), Reload(b, k)
        PROVE  overlay'[r] = 0
    BY <2>1, <2>5 DEF Reload, Zero
  <2> QED
    BY <2>2, <2>3, <2>4, <2>5 DEF Next, Write, PublishSome, Publish, Crash, Connect,
       Snapshot, Emit, Disconnect, FireTimer, Recover, AnswerRead, Answer, AnswerSaved, Land,
       ReadFails, vars, pageVars
<1>6. PageInv'
  BY <1>2, <1>4, <1>5, StepKnown, StepRow DEF PageInv
<1> QED
  BY <1>2, <1>3, <1>6 DEF CurrentInv

\* A page that has followed the stream to its end and has no reread due shows
\* every row as it was last written, for any ring, any number of rows, writes,
\* restarts, lost connections, failed reads and reloads.
THEOREM CaughtUpStaysCurrent == ASSUME OneAtATime PROVE Spec => []CaughtUpIsCurrent
<1>1. CurrentInv /\ [Next]_vars => CurrentInv'
  BY StepCurrent
<1>2. Init => CurrentInv
  BY InitCurrent
<1> QED
  BY <1>1, <1>2, CurrentImplies, PTL DEF Spec
=============================================================================
