-------------------------- MODULE QueueBoardProofs --------------------------
(***************************************************************************)
(* The page's mirror of the ticket list is always the list of the version  *)
(* it carries, if the server that issued it had a process of its own: for  *)
(* any tickets, numbers of writes, faults and restarts, and however reads  *)
(* are shared between the board and the badges.  With it, the types of all *)
(* of the board.                                                           *)
(***************************************************************************)
EXTENDS QueueBoard, TLAPS

ReadTypes == {NoRead} \cup [st : {"asked"}, since : Tokens]
  \cup [st : {"answered"}, token : Versions, list : Lists, changed : SUBSET Tickets]

\* The part of the state a version passes through, and its types.
VersionsType ==
  /\ store \in Lists
  /\ memo \in [list : Lists, token : Tokens]
  /\ mirror \in [list : Lists, token : Tokens]
  /\ rebuild \in [st : {"none", "due", "read"}, list : Lists]
  /\ read \in ReadTypes

\* Each image after the first was asked for.
ImagesCounted ==
  requests \in 0..MaxRequests /\ image \in 0..requests /\ execed \subseteq 1..image

\* The server's memo is the list of the version this image issued for it, and a
\* request under way names the version the mirror has: the mirror changes only
\* when the one request there is comes back.
MemoIsItsVersion ==
  memo.token # NoToken => memo.token = [image |-> image, list |-> memo.list]
AskedForMirror == read.st = "asked" => read.since = mirror.token

ListInv == VersionsType /\ MemoIsItsVersion /\ AskedForMirror /\ MirrorIsItsVersion

VersionInv == ImagesCounted /\ ListInv

\* No tickets at all make a list.
LEMMA EmptyIsAList == Empty \in Lists
  BY BoardBounds DEF Empty, Lists

\* The version that an answer carries is this image's, of the memo's list.
LEMMA TokenIsMemo ==
  ASSUME VersionInv
  PROVE  Token = [image |-> image, list |-> memo.list] /\ Token \in Versions
<1>1. Token = [image |-> image, list |-> memo.list]
  BY DEF Token, VersionInv, ListInv, MemoIsItsVersion
<1>2. image \in 0..MaxRequests
  BY BoardBounds DEF VersionInv, ImagesCounted
<1> QED
  BY <1>1, <1>2 DEF VersionInv, ListInv, VersionsType, Versions

\* Restarts are among the requests, which are bounded.
LEMMA StepImages == ImagesCounted /\ [Next]_vars => ImagesCounted'
<1> SUFFICES ASSUME ImagesCounted, [Next]_vars PROVE ImagesCounted'
  OBVIOUS
<1> USE BoardBounds DEF ImagesCounted
<1>1. ASSUME NEW exec \in BOOLEAN, Restart(exec) PROVE ImagesCounted'
  BY <1>1 DEF Restart, Request
<1>2. ASSUME UNCHANGED <<image, execed>>, Request \/ UNCHANGED requests
      PROVE  ImagesCounted'
  BY <1>2 DEF Request
<1>3. \/ \E exec \in BOOLEAN : Restart(exec)
      \/ UNCHANGED <<image, execed>> /\ (Request \/ UNCHANGED requests)
  BY DEF Next, MemoStep, ReadStep, EditStep, FileStep, External, Edit, EditServed,
     EditAnswered, File, FileServed, FileAnswered, FileDone, Refresh, RefreshAnswered,
     Churn, RebuildRead, RebuildStore, Build, Answer, Land, ReadFails, Badges, Flush,
     Settle, Poll, StreamDrops, StreamOpens, Show, Hide, serverVars, imageVars, userVars,
     vars
<1> QED
  BY <1>1, <1>2, <1>3

\* At the start nobody carries a version.
LEMMA InitVersions == Init => VersionInv
<1> SUFFICES ASSUME Init PROVE VersionInv
  OBVIOUS
<1>1. store \in Lists
  BY TicketsAreOldOrNew, BoardBounds DEF Init, Lists, Tickets
<1>2. NoToken \in Tokens
  BY DEF Tokens
<1> QED
  BY <1>1, <1>2, EmptyIsAList, BoardBounds
  DEF Init, VersionInv, ImagesCounted, ListInv, VersionsType, ReadTypes, NoRead, NoRebuild,
      MemoIsItsVersion, AskedForMirror, MirrorIsItsVersion

\* The lists a request's version may be taken for, by an image with a process of
\* its own: the mirror's.
LEMMA BaseIsMirror ==
  ASSUME VersionInv, image \notin execed, NEW base \in Bases(mirror.token)
  PROVE  mirror.list = base
<1> DEFINE since == mirror.token
<1>1. since \in Tokens /\ image \in 0..MaxRequests
  BY BoardBounds DEF VersionInv, ImagesCounted, ListInv, VersionsType
<1>2. ~Inherited(since.image)
  <2>1. since.image \in 0..(MaxRequests + 1)
    BY <1>1, BoardBounds DEF Tokens, Versions, NoToken
  <2>2. since.image < image => image \in (since.image + 1)..image
    BY <1>1, <2>1, BoardBounds
  <2> QED
    BY <2>2 DEF Inherited
<1>3. since.image = image /\ base = since.list
  BY <1>2 DEF Bases
<1>4. since # NoToken
  BY <1>1, <1>3, BoardBounds DEF NoToken
<1> QED
  BY <1>3, <1>4 DEF VersionInv, ListInv, MirrorIsItsVersion

\* What the answer does to the mirror, once it is merged.
LEMMA AnswerMerges ==
  ASSUME VersionInv, Answer
  PROVE  ListInv'
<1> DEFINE asked == read.since
<1>1. /\ read \in [st : {"asked"}, since : Tokens]
      /\ asked = mirror.token /\ asked \in Tokens
      /\ read.st = "asked"
  BY DEF Answer, VersionInv, ListInv, VersionsType, ReadTypes, AskedForMirror, NoRead
<1>2. Token = [image |-> image, list |-> memo.list] /\ Token \in Versions
  BY TokenIsMemo
<1>3. memo' = [list |-> memo.list, token |-> Token]
  BY DEF Answer, VersionInv, ListInv, VersionsType
<1>4. PICK changed \in {Tickets} \cup {Changed(base, memo.list) : base \in Bases(asked)} :
        read' = [st |-> "answered", token |-> Token, list |-> memo.list,
                 changed |-> changed]
  BY DEF Answer
<1>5. /\ UNCHANGED <<store, mirror, image, execed>>
      /\ rebuild' \in [st : {"none", "due", "read"}, list : Lists]
  BY EmptyIsAList DEF Answer, Revalidate, VersionInv, ListInv, VersionsType, imageVars
<1>6. VersionsType'
  <2>1. changed \subseteq Tickets
    BY DEF Changed
  <2>2. read' \in [st : {"answered"}, token : Versions, list : Lists, changed : SUBSET Tickets]
    BY <1>2, <1>4, <2>1 DEF VersionInv, ListInv, VersionsType
  <2> QED
    BY <1>2, <1>3, <1>5, <2>2 DEF VersionInv, ListInv, VersionsType, ReadTypes, Tokens
<1>7. ASSUME image \notin execed PROVE Merged' = memo.list
  <2>1. mirror' = mirror /\ mirror.list \in Lists /\ memo.list \in Lists
    BY <1>5 DEF VersionInv, ListInv, VersionsType
  <2>2. ASSUME NEW t \in Tickets
        PROVE (IF t \in read'.changed THEN read'.list[t] ELSE mirror'.list[t]) = memo.list[t]
    <3>1. CASE t \in read'.changed
      BY <1>4, <3>1
    <3>2. CASE t \notin read'.changed
      <4>1. PICK base \in Bases(asked) : changed = Changed(base, memo.list)
        BY <1>4, <3>2
      <4>2. mirror.list = base
        BY <1>1, <1>7, <4>1, BaseIsMirror
      <4>3. base[t] = memo.list[t]
        BY <1>4, <3>2, <4>1 DEF Changed
      <4> QED
        BY <2>1, <3>2, <4>2, <4>3
    <3> QED
      BY <3>1, <3>2
  <2>3. Merged' = [t \in Tickets |-> memo.list[t]]
    BY <2>2 DEF Merged
  <2>4. memo.list = [t \in Tickets |-> memo.list[t]]
    BY <2>1 DEF Lists
  <2> QED
    BY <2>3, <2>4
<1>8. /\ read'.st = "answered" /\ read'.token = Token
      /\ memo'.list = memo.list /\ memo'.token = Token
  BY <1>3, <1>4
<1>9. MirrorIsItsVersion'
  <2>1. mirror'.token # NoToken /\ mirror'.token.image \notin execed'
          => mirror'.list = mirror'.token.list
    BY <1>5 DEF VersionInv, ListInv, MirrorIsItsVersion
  <2>2. read'.token.image \notin execed' => Merged' = read'.token.list
    BY <1>2, <1>5, <1>7, <1>8
  <2> QED
    BY <2>1, <2>2 DEF MirrorIsItsVersion
<1> QED
  BY <1>2, <1>5, <1>6, <1>8, <1>9 DEF ListInv, MemoIsItsVersion, AskedForMirror

\* A step that touches neither the memo nor the mirror, and asks at most for
\* what the mirror lacks.
LEMMA AskingKeeps ==
  ASSUME VersionInv, UNCHANGED <<image, execed, memo, mirror>>,
         read' = read \/ JoinOrAsk,
         store' \in Lists, rebuild' \in [st : {"none", "due", "read"}, list : Lists]
  PROVE  ListInv'
<1>1. read' = read \/ read' = Asked(mirror.token)
  BY DEF JoinOrAsk
<1>2. Asked(mirror.token) \in [st : {"asked"}, since : Tokens]
  BY DEF Asked, VersionInv, ListInv, VersionsType
<1>3. CASE read' = read
  BY <1>3 DEF VersionInv, ListInv, VersionsType, MemoIsItsVersion, AskedForMirror,
              MirrorIsItsVersion, Merged
<1>4. CASE read' = Asked(mirror.token)
  BY <1>2, <1>4 DEF VersionInv, ListInv, VersionsType, ReadTypes, MemoIsItsVersion,
                    AskedForMirror, MirrorIsItsVersion, Asked
<1> QED
  BY <1>1, <1>3, <1>4

\* What is merged from an answer is a list.
LEMMA MergedIsAList == ASSUME VersionsType, read.st = "answered" PROVE Merged \in Lists
<1>1. read.list \in Lists /\ mirror.list \in Lists
  BY DEF VersionsType, ReadTypes, NoRead
<1> QED
  BY <1>1 DEF Merged, Lists

\* The end of a request: the board may ask again, for what the mirror then has.
LEMMA LandingKeeps ==
  ASSUME VersionInv, UNCHANGED <<image, execed, store, memo, rebuild>>,
         mirror' = mirror \/ mirror' = [list |-> Merged, token |-> read.token],
         mirror' = mirror \/ read.st = "answered",
         read' = NoRead \/ read' = Asked(mirror'.token)
  PROVE  ListInv'
<1>1. mirror' \in [list : Lists, token : Tokens]
      /\ (mirror'.token # NoToken /\ mirror'.token.image \notin execed
            => mirror'.list = mirror'.token.list)
  <2>1. CASE mirror' = mirror
    BY <2>1 DEF VersionInv, ListInv, VersionsType, MirrorIsItsVersion
  <2>2. CASE mirror' = [list |-> Merged, token |-> read.token] /\ read.st = "answered"
    <3>1. /\ read.token.image \notin execed => Merged = read.token.list
          /\ read.token \in Tokens /\ Merged \in Lists
      BY <2>2, MergedIsAList DEF VersionInv, ListInv, VersionsType, ReadTypes,
         MirrorIsItsVersion, NoRead, Tokens
    <3> QED
      BY <2>2, <3>1
  <2> QED
    BY <2>1, <2>2
<1>2. read' \in ReadTypes
  BY <1>1 DEF ReadTypes, Asked, NoRead
<1>3. read'.st # "answered" /\ (read'.st = "asked" => read'.since = mirror'.token)
  BY DEF Asked, NoRead
<1> QED
  BY <1>1, <1>2, <1>3
  DEF VersionInv, ListInv, VersionsType, MemoIsItsVersion, AskedForMirror,
      MirrorIsItsVersion

\* A step that replaces the memo takes the version away; the image may be new.
LEMMA NewMemoKeeps ==
  ASSUME VersionInv, execed \subseteq execed',
         UNCHANGED <<store, mirror, read>>, NEW list \in Lists,
         memo' = [list |-> list, token |-> NoToken],
         rebuild' \in [st : {"none", "due", "read"}, list : Lists]
  PROVE  ListInv'
BY DEF VersionInv, ListInv, VersionsType, MemoIsItsVersion, AskedForMirror,
       MirrorIsItsVersion, Merged, Tokens

\* The invariant of the versions is inductive.
LEMMA StepVersions == VersionInv /\ [Next]_vars => VersionInv'
<1> SUFFICES ASSUME VersionInv, [Next]_vars PROVE ListInv'
  BY StepImages DEF VersionInv
<1> DEFINE Kept == /\ UNCHANGED <<image, execed, memo, mirror>>
                   /\ read' = read \/ JoinOrAsk
                   /\ store' \in Lists
                   /\ rebuild' \in [st : {"none", "due", "read"}, list : Lists]
<1>1. Kept => ListInv'
  BY AskingKeeps
<1>2. store \in Lists /\ rebuild \in [st : {"none", "due", "read"}, list : Lists]
  BY DEF VersionInv, ListInv, VersionsType
<1>3. ASSUME NEW t \in Tickets, store[t] < MaxWrites
      PROVE  [store EXCEPT ![t] = @ + 1] \in Lists
  BY <1>2, <1>3, BoardBounds DEF Lists
<1>4. ASSUME NEW t \in Old, External(t) PROVE ListInv'
  BY <1>1, <1>2, <1>3, <1>4 DEF External, readVars, imageVars, Tickets
<1>5. ASSUME NEW t \in Tickets, Edit(t) PROVE ListInv'
  BY <1>1, <1>2, <1>5 DEF Edit, readVars, serverVars, imageVars
<1>6. ASSUME NEW t \in New, File(t) PROVE ListInv'
  BY <1>1, <1>2, <1>6 DEF File, readVars, serverVars, imageVars
<1>7. CASE EditStep
  <2>1. ASSUME NEW t \in Tickets, EditServed(t) PROVE ListInv'
    BY <1>1, <1>2, <1>3, <2>1 DEF EditServed, readVars, imageVars
  <2>2. ASSUME NEW t \in Tickets, EditAnswered(t) PROVE ListInv'
    BY <1>1, <1>2, <2>2 DEF EditAnswered, readVars, serverVars, imageVars
  <2> QED
    BY <1>7, <2>1, <2>2 DEF EditStep
<1>8. CASE FileStep
  <2>1. ASSUME NEW t \in New, FileServed(t) PROVE ListInv'
    <3>1. [store EXCEPT ![t] = 1] \in Lists
      BY <1>2, BoardBounds DEF Lists, Tickets
    <3> QED
      BY <1>1, <1>2, <2>1, <3>1 DEF FileServed, readVars, imageVars
  <2>2. ASSUME NEW t \in New, FileAnswered(t) PROVE ListInv'
    BY <1>1, <1>2, <2>2 DEF FileAnswered, FetchItems, serverVars, imageVars
  <2>3. ASSUME NEW t \in New, FileDone(t) PROVE ListInv'
    BY <1>1, <1>2, <2>3 DEF FileDone, readVars, serverVars, imageVars
  <2> QED
    BY <1>8, <2>1, <2>2, <2>3 DEF FileStep
<1>9. CASE Refresh
  BY <1>2, <1>9, NewMemoKeeps DEF Refresh, readVars, imageVars
<1>10. CASE RefreshAnswered \/ Churn \/ StreamDrops \/ StreamOpens \/ Hide
  BY <1>1, <1>2, <1>10
  DEF RefreshAnswered, Churn, StreamDrops, StreamOpens, Hide, readVars, serverVars, imageVars
<1>11. CASE RebuildRead
  BY <1>1, <1>2, <1>11 DEF RebuildRead, readVars, imageVars
<1>12. CASE RebuildStore
  <2>1. rebuild.list \in Lists /\ NoRebuild \in [st : {"none", "due", "read"}, list : Lists]
    BY <1>2, EmptyIsAList DEF NoRebuild
  <2> QED
    BY <1>12, <2>1, NewMemoKeeps DEF RebuildStore, readVars, imageVars
<1>13. CASE Answer
  BY <1>13, AnswerMerges
<1>14. CASE Land
  <2>1. read' = NoRead \/ read' = Asked(mirror'.token)
    BY <1>14 DEF Land, Resume
  <2> QED
    BY <1>14, <2>1, LandingKeeps DEF Land, serverVars, imageVars
<1>15. CASE ReadFails
  <2>1. read' = NoRead \/ read' = Asked(mirror'.token)
    BY <1>15 DEF ReadFails, Resume
  <2> QED
    BY <1>15, <2>1, LandingKeeps DEF ReadFails, serverVars, imageVars
<1>16. CASE Badges
  BY <1>1, <1>2, <1>16 DEF Badges, serverVars, imageVars
<1>17. CASE Flush
  BY <1>1, <1>2, <1>17 DEF Flush, FetchItems, serverVars, imageVars
<1>18. CASE Settle
  BY <1>1, <1>2, <1>18 DEF Settle, FetchItems, serverVars, imageVars
<1>19. CASE Poll
  BY <1>1, <1>2, <1>19 DEF Poll, FetchItems, serverVars, imageVars
<1>20. CASE Show
  BY <1>1, <1>2, <1>20 DEF Show, Render, FetchItems, serverVars, imageVars
<1>22. CASE Build
  BY <1>2, <1>22, NewMemoKeeps DEF Build, readVars
<1>23. ASSUME NEW exec \in BOOLEAN, Restart(exec) PROVE ListInv'
  <2>1. NoRebuild \in [st : {"none", "due", "read"}, list : Lists]
    BY EmptyIsAList DEF NoRebuild
  <2> QED
    BY <1>23, <2>1, EmptyIsAList, NewMemoKeeps DEF Restart, readVars
<1>21. CASE UNCHANGED vars
  BY <1>1, <1>2, <1>21 DEF vars, readVars, serverVars, imageVars
<1> QED
  BY <1>4, <1>5, <1>6, <1>7, <1>8, <1>9, <1>10, <1>11, <1>12, <1>13, <1>14,
     <1>15, <1>16, <1>17, <1>18, <1>19, <1>20, <1>21, <1>22, <1>23 DEF Next, MemoStep, ReadStep

\* The invariant of the versions holds in every reachable state.
THEOREM VersionsHold == Spec => []VersionInv
  BY InitVersions, StepVersions, PTL DEF Spec

\* The mirror is the very list of the version it carries, so every later delta
\* is computed against what the page really has, unless the version comes from
\* an image that took over a process.
THEOREM MirrorNeverDrifts == Spec => []MirrorIsItsVersion
<1>1. VersionInv => MirrorIsItsVersion
  BY DEF VersionInv, ListInv
<1> QED
  BY <1>1, VersionsHold, PTL

-----------------------------------------------------------------------------
(***************************************************************************)
(* Types.  Those of the panel rest on the versions: what the board takes   *)
(* from an answer is the list of a version.                                *)
(***************************************************************************)
RequestsType ==
  /\ edit \in [Tickets -> [st : {"none", "posted", "served"}, val : 0..MaxWrites]]
  /\ filing \in [New -> {"no", "posted", "refused", "served", "reading", "drawn", "done"}]
  /\ manual \in [st : {"none", "served"}, list : Lists]
  /\ requests \in 0..MaxRequests
  /\ faults \in 0..MaxFaults

PanelType ==
  /\ {fresh, loaded, waiting, void, visible, live, hint, behind, reading, settling, warm}
       \subseteq BOOLEAN
  /\ items \in Lists
  /\ RequestsType

\* The types of the panel at the start.
LEMMA InitPanel == Init => PanelType
<1> SUFFICES ASSUME Init PROVE PanelType
  OBVIOUS
<1>1. NoEdit \in [st : {"none", "posted", "served"}, val : 0..MaxWrites]
  BY BoardBounds DEF NoEdit
<1>2. RequestsType
  BY <1>1, EmptyIsAList, BoardBounds DEF Init, RequestsType, NoManual
<1> QED
  BY <1>2, EmptyIsAList DEF Init, PanelType

\* The panel's flags stay flags.
LEMMA StepFlags ==
  ASSUME PanelType, [Next]_vars
  PROVE  {fresh, loaded, waiting, void, visible, live, hint, behind, reading, settling, warm}'
           \subseteq BOOLEAN
<1>1. {fresh, loaded, waiting, void, visible, live, hint, behind, reading, settling, warm}
        \subseteq BOOLEAN
  BY DEF PanelType
<1>2. CASE \/ \E t \in Old : External(t)
           \/ \E t \in Tickets : Edit(t)
           \/ \E t \in New : File(t)
           \/ EditStep \/ FileStep
  BY <1>1, <1>2 DEF External, Edit, File, EditStep, EditServed, EditAnswered, FileStep,
     FileServed, FileAnswered, FileDone, FetchItems, cacheVars, chainVars, serverVars, imageVars
<1>3. CASE \/ Refresh \/ RefreshAnswered \/ Churn \/ MemoStep \/ Answer \/ (\E exec \in BOOLEAN : Restart(exec))
           \/ Badges \/ UNCHANGED vars
  BY <1>1, <1>3 DEF Refresh, RefreshAnswered, Churn, MemoStep, RebuildRead, RebuildStore, Build, Restart, Answer,
     Badges, cacheVars, chainVars, serverVars, imageVars, vars
<1>4. CASE Land
  <2>1. /\ waiting' \in BOOLEAN /\ void' \in BOOLEAN /\ fresh' \in BOOLEAN
        /\ behind' \in BOOLEAN /\ reading' \in BOOLEAN /\ settling' \in BOOLEAN
    BY <1>1, <1>4 DEF Land, Resume, chainVars
  <2>2. loaded' \in BOOLEAN /\ UNCHANGED <<visible, live, hint, warm>>
    BY <1>1, <1>4 DEF Land, serverVars, imageVars
  <2> QED
    BY <1>1, <2>1, <2>2
<1>5. CASE ReadFails
  <2>1. /\ waiting' \in BOOLEAN /\ void' \in BOOLEAN /\ fresh' \in BOOLEAN
        /\ behind' \in BOOLEAN /\ reading' \in BOOLEAN /\ settling' \in BOOLEAN
    BY <1>1, <1>5 DEF ReadFails, Resume, chainVars
  <2>2. UNCHANGED <<loaded, visible, live, hint, warm>>
    BY <1>5 DEF ReadFails, serverVars, imageVars
  <2> QED
    BY <1>1, <2>1, <2>2
<1>6. CASE Flush \/ Settle \/ Poll
  BY <1>1, <1>6 DEF Flush, Settle, Poll, FetchItems, chainVars, serverVars, imageVars
<1>7. CASE StreamDrops \/ StreamOpens \/ Show \/ Hide
  BY <1>1, <1>7 DEF StreamDrops, StreamOpens, Show, Hide, Render, FetchItems, cacheVars,
     chainVars, serverVars, imageVars
<1> QED
  BY <1>2, <1>3, <1>4, <1>5, <1>6, <1>7 DEF Next, ReadStep

\* What the board shows stays a list: of a version, of the user's refresh, or
\* with a ticket's count brought up to date.
LEMMA StepItems ==
  ASSUME VersionInv, PanelType, [Next]_vars
  PROVE  items' \in Lists
<1>1. items \in Lists /\ RequestsType
  BY DEF PanelType
<1>2. ASSUME NEW t \in Tickets, EditAnswered(t) PROVE items' \in Lists
  BY <1>1, <1>2 DEF EditAnswered, RequestsType, Lists
<1>3. CASE RefreshAnswered
  BY <1>1, <1>3 DEF RefreshAnswered, RequestsType
<1>4. CASE Land
  <2>1. Merged \in Lists
    BY <1>4, MergedIsAList DEF Land, VersionInv, ListInv
  <2> QED
    BY <1>1, <1>4, <2>1 DEF Land
<1>5. CASE UNCHANGED items
  BY <1>1, <1>5
<1>6. \/ \E t \in Tickets : EditAnswered(t)
      \/ RefreshAnswered \/ Land \/ UNCHANGED items
  BY DEF Next, External, Edit, File, EditStep, EditServed, FileStep, FileServed,
     FileAnswered, FileDone, Refresh, Churn, RebuildRead, RebuildStore, Build, Restart, MemoStep,
     ReadStep, Answer, ReadFails,
     Badges, Flush, Settle, Poll, StreamDrops, StreamOpens, Show, Hide, cacheVars, vars
<1> QED
  BY <1>2, <1>3, <1>4, <1>5, <1>6

\* The user's requests and the faults stay within their bounds and states.
LEMMA StepRequests ==
  ASSUME VersionInv, PanelType, [Next]_vars
  PROVE  RequestsType'
<1>1. RequestsType /\ store \in Lists
  BY DEF PanelType, VersionInv, ListInv, VersionsType
<1>2. Request => requests' \in 0..MaxRequests
  BY <1>1, BoardBounds DEF Request, RequestsType
<1>3. Fault => faults' \in 0..MaxFaults
  BY <1>1, BoardBounds DEF Fault, RequestsType
<1>4. ASSUME NEW t \in Tickets, Edit(t) PROVE RequestsType'
  BY <1>1, <1>2, <1>4 DEF Edit, RequestsType
<1>5. ASSUME NEW t \in Tickets, EditServed(t) PROVE RequestsType'
  <2>1. store[t] + 1 \in 0..MaxWrites
    BY <1>1, <1>5, BoardBounds DEF EditServed, Lists
  <2> QED
    BY <1>1, <1>5, <2>1 DEF EditServed, RequestsType
<1>6. ASSUME NEW t \in Tickets, EditAnswered(t) PROVE RequestsType'
  BY <1>1, <1>6, BoardBounds DEF EditAnswered, NoEdit, RequestsType
<1>7. ASSUME NEW t \in New, File(t) PROVE RequestsType'
  BY <1>1, <1>2, <1>7 DEF File, RequestsType
<1>8. ASSUME NEW t \in New, FileServed(t) \/ FileAnswered(t) \/ FileDone(t)
      PROVE  RequestsType'
  BY <1>1, <1>8 DEF FileServed, FileAnswered, FileDone, RequestsType
<1>9. CASE Refresh \/ \E exec \in BOOLEAN : Restart(exec)
  BY <1>1, <1>2, <1>9 DEF Refresh, Restart, RequestsType
<1>10. CASE RefreshAnswered
  BY <1>1, <1>10, EmptyIsAList DEF RefreshAnswered, NoManual, RequestsType
<1>11. CASE Land \/ ReadFails
  <2>1. filing' \in [New -> {"no", "posted", "refused", "served", "reading", "drawn", "done"}]
    BY <1>1, <1>11 DEF Land, ReadFails, Resume, RequestsType
  <2> QED
    BY <1>1, <1>3, <1>11, <2>1 DEF Land, ReadFails, RequestsType
<1>12. CASE StreamDrops
  BY <1>1, <1>3, <1>12 DEF StreamDrops, userVars, RequestsType
<1>13. CASE UNCHANGED <<userVars, faults>>
  BY <1>1, <1>13 DEF userVars, RequestsType
<1>14. \/ \E t \in Tickets : Edit(t) \/ EditServed(t) \/ EditAnswered(t)
       \/ \E t \in New : File(t) \/ FileServed(t) \/ FileAnswered(t) \/ FileDone(t)
       \/ Refresh \/ \E exec \in BOOLEAN : Restart(exec)
       \/ RefreshAnswered \/ Land \/ ReadFails \/ StreamDrops
       \/ UNCHANGED <<userVars, faults>>
  BY DEF Next, EditStep, FileStep, External, Churn, RebuildRead, RebuildStore, Build,
     MemoStep, ReadStep, Answer, Badges, Flush, Settle, Poll, StreamOpens, Show, Hide, vars, userVars
<1> QED
  BY <1>4, <1>5, <1>6, <1>7, <1>8, <1>9, <1>10, <1>11, <1>12, <1>13, <1>14

\* Every variable keeps its type.
THEOREM TypeCorrect == Spec => []TypeOK
<1>1. Init => VersionInv /\ PanelType
  BY InitVersions, InitPanel
<1>2. VersionInv /\ PanelType /\ [Next]_vars => (VersionInv /\ PanelType)'
  BY StepVersions, StepFlags, StepItems, StepRequests DEF PanelType
<1>3. VersionInv /\ PanelType => TypeOK
  BY BoardBounds DEF VersionInv, ImagesCounted, ListInv, VersionsType, ReadTypes,
     PanelType, RequestsType, TypeOK
<1> QED
  BY <1>1, <1>2, <1>3, PTL DEF Spec
=============================================================================
