------------------------------ MODULE TimerWheel ------------------------------
(***************************************************************************)
(* The timers of SocketManager: a wheel of ARRAY_SIZE slots that Run()     *)
(* turns by one slot per pass and by as much as ReadSockets and the        *)
(* callbacks have taken.  A timer is a Timer object of the application and *)
(* a box with its id in some slot; deleting the object only clears its     *)
(* table entry, the box is thrown away when the wheel comes to it.         *)
(*                                                                         *)
(* Time is what the program measures: milliseconds between two looks at    *)
(* the clock, which does not go back.  The application (external) creates  *)
(* and deletes timers in its callbacks, OnTimer and those of ReadSockets;  *)
(* a deleted object's address may be used again.                           *)
(***************************************************************************)
EXTENDS Integers, FiniteSets, Sequences, SequencesExt

CONSTANTS
  Timers,        \* addresses of Timer objects
  HBTimer,       \* p_HBTimer, created by Run()
  HBInterval,    \* MAX_PULSE_TIMEOUT * 1000
  NULL,
  Intervals,     \* intervals of the application's timers, in ms
  ARRAY_SIZE,    \* MAX_ARRAY_SIZE, 1024
  EPOL_WAIT,     \* MAX_EPOL_WAIT, 5
  TIMERS_LIMIT,  \* MAX_TIMERS_LIMIT, 128
  INCREASE,      \* MAX_TIMERS_INCREASE_INTERVAL, 128
  MaxTimerID,    \* bound: largest id handed out
  PosModulus,    \* ui_CurrentPos is an unsigned integer below this (2^32)
  MaxElapsed     \* bound: most ms between two looks at the clock

\* The fields of a Timer object.
TimerFields ==
  [ui_Interval : Intervals \cup {HBInterval}, b_IsRepeated : BOOLEAN,
   ui_TimerID : 0..MaxTimerID, ui_NextFire : Nat]

ASSUME TimerAssumption ==
  /\ HBTimer \in Timers /\ NULL \notin Timers /\ NULL \notin TimerFields
  /\ Intervals \cup {HBInterval} \subseteq Nat \ {0}
  /\ EPOL_WAIT \in Nat \ {0} /\ ARRAY_SIZE \in Nat /\ ARRAY_SIZE > EPOL_WAIT
  /\ TIMERS_LIMIT \in Nat /\ TIMERS_LIMIT > 1 /\ INCREASE \in Nat \ {0}
  /\ MaxTimerID \in Nat /\ MaxTimerID >= TIMERS_LIMIT - 1   \* HBTimer's id
  /\ MaxElapsed \in Nat
  /\ PosModulus \in Nat /\ PosModulus % ARRAY_SIZE = 0
  /\ PosModulus > 2 * MaxElapsed /\ PosModulus > EPOL_WAIT

VARIABLES
  \* the Timer objects
  timer,               \* address -> NULL or the fields of the object
  \* SocketManager
  set_Timers,          \* slot -> boxes
  lst_FireAll,         \* boxes FireAll has collected
  m_ptrTimers,         \* id -> address or NULL
  stack_FreeTimerIDs,  \* top first
  i_MaxTimers,
  ui_CurrentPos,
  ui_TotalDeviation,
  uiPollInterval,      \* a local of Run(), 1 while it has no meaning
  pc,                  \* where Run() is
  pTimeBox,            \* the box in hand while OnTimer runs
  \* history
  left,                \* per id: positions until the timer may fire
  togo,                \* per id: positions until the box's slot comes up,
                       \* 0 once it may be passed over
  passedOver           \* ids whose slot may be passed over, see NotOverlooked

idVars == <<m_ptrTimers, stack_FreeTimerIDs, i_MaxTimers>>
posVars == <<ui_CurrentPos, ui_TotalDeviation, uiPollInterval>>
histVars == <<left, togo, passedOver>>
vars == <<timer, set_Timers, lst_FireAll, idVars, posVars, pc, pTimeBox,
          histVars>>

Slots == 0..(ARRAY_SIZE - 1)
Ids == 1..MaxTimerID
Box == [ui_TimerID : Ids, p_Timer : Timers]
NoBox == [ui_TimerID |-> 0, p_Timer |-> NULL]

\* ui_CurrentPos + offset, unsigned; the slot there.
Pos(offset) == (ui_CurrentPos + offset) % PosModulus
Slot(offset) == Pos(offset) % ARRAY_SIZE

IdsInWheel(w) ==
  UNION {{w[s][i].ui_TimerID : i \in 1..Len(w[s])} : s \in Slots}

\* AddToDeletedTimerSet clears the entry.
IsTimerLive(id) == m_ptrTimers[id] # NULL

\* Mutant: what is left of a long interval is one short.
MutPlace(interval) ==
  IF interval < ARRAY_SIZE
    THEN [offset |-> interval, nextFire |-> 0]
    ELSE [offset |-> ARRAY_SIZE - 1, nextFire |-> interval - ARRAY_SIZE]

\* Mutant: a turn of a long interval is not counted.
MutPlaceKeeps(interval) ==
  IF interval < ARRAY_SIZE
    THEN [offset |-> interval, nextFire |-> 0]
    ELSE [offset |-> ARRAY_SIZE - 1, nextFire |-> interval]

\* How far ahead a box is put, and how much of the interval comes after that.
Place(interval) ==
  IF interval < ARRAY_SIZE
    THEN [offset |-> interval, nextFire |-> 0]
    ELSE [offset |-> ARRAY_SIZE - 1, nextFire |-> interval - ARRAY_SIZE + 1]

-----------------------------------------------------------------------------
(* Run() has created p_HBTimer with the id on top of the stack.            *)

Init ==
  LET id == TIMERS_LIMIT - 1
      at == Place(HBInterval)
  IN
  /\ timer = [t \in Timers |->
                IF t = HBTimer
                  THEN [ui_Interval |-> HBInterval, b_IsRepeated |-> TRUE,
                        ui_TimerID |-> id, ui_NextFire |-> at.nextFire]
                  ELSE NULL]
  /\ ui_CurrentPos = 1
  /\ ui_TotalDeviation = 0
  /\ uiPollInterval = 1
  /\ set_Timers = [s \in Slots |->
                     IF s = (1 + at.offset) % ARRAY_SIZE
                       THEN <<[ui_TimerID |-> id, p_Timer |-> HBTimer]>>
                       ELSE <<>>]
  /\ lst_FireAll = <<>>
  /\ m_ptrTimers = [i \in 0..MaxTimerID |-> IF i = id THEN HBTimer ELSE NULL]
  /\ stack_FreeTimerIDs = [i \in 1..(id - 1) |-> id - i]
  /\ i_MaxTimers = TIMERS_LIMIT
  /\ pc = "slot"
  /\ pTimeBox = NoBox
  /\ left = [i \in Ids |-> IF i = id THEN HBInterval ELSE 0]
  /\ togo = [i \in Ids |-> IF i = id THEN at.offset ELSE 0]
  /\ passedOver = {}

\* A box for an interval that begins now is put into wheel w.
PutBox(w, box, interval) ==
  LET at == Place(interval) IN
  /\ set_Timers' = [w EXCEPT ![Slot(at.offset)] = Append(@, box)]
  /\ togo' = [togo EXCEPT ![box.ui_TimerID] = at.offset]

\* The box is gone and its id free; what is left in the wheel is w.
FreeBox(w, box) ==
  /\ set_Timers' = w
  /\ stack_FreeTimerIDs' = <<box.ui_TimerID>> \o stack_FreeTimerIDs
  /\ togo' = [togo EXCEPT ![box.ui_TimerID] = 0]
  /\ left' = [left EXCEPT ![box.ui_TimerID] = 0]
  /\ passedOver' = passedOver \ {box.ui_TimerID}

\* ui_CurrentPos += d, with w in the wheel.
Advance(d, w) ==
  /\ ui_CurrentPos' = Pos(d)
  /\ left' = [i \in Ids |-> IF left[i] > d THEN left[i] - d ELSE 0]
  /\ togo' = [i \in Ids |-> IF i \in IdsInWheel(w) \ passedOver
                            THEN togo[i] - d ELSE 0]

-----------------------------------------------------------------------------
(* The application (external), inside a callback.                          *)

\* GetTimerIDFromStack: the stack to take the id from; an empty one is filled
\* with the ids of a larger table.
FreeIDs ==
  IF stack_FreeTimerIDs # <<>>
    THEN stack_FreeTimerIDs
    ELSE [i \in 1..INCREASE |-> i_MaxTimers + INCREASE - i]

CreateTimer(t, interval, repeated) ==
  LET id == Head(FreeIDs)
      at == Place(interval)
  IN
  /\ pc \in {"onTimer", "onTimerAll", "read"}
  /\ timer[t] = NULL
  /\ id <= MaxTimerID
  /\ stack_FreeTimerIDs' = Tail(FreeIDs)
  /\ i_MaxTimers' = IF stack_FreeTimerIDs # <<>> THEN i_MaxTimers
                                                 ELSE i_MaxTimers + INCREASE
  /\ timer' = [timer EXCEPT ![t] =
                 [ui_Interval |-> interval, b_IsRepeated |-> repeated,
                  ui_TimerID |-> id, ui_NextFire |-> at.nextFire]]
  /\ m_ptrTimers' = [m_ptrTimers EXCEPT ![id] = t]
  /\ PutBox(set_Timers, [ui_TimerID |-> id, p_Timer |-> t], interval)
  /\ left' = [left EXCEPT ![id] = interval]
  /\ passedOver' = IF pc = "read" THEN passedOver \cup {id} ELSE passedOver
  /\ UNCHANGED <<lst_FireAll, posVars, pc, pTimeBox>>

\* Mutant: the id is free at once.
MutDeleteFreesID(t) ==
  /\ pc \in {"onTimer", "onTimerAll", "read"}
  /\ timer[t] # NULL /\ t # HBTimer
  /\ m_ptrTimers' = [m_ptrTimers EXCEPT ![timer[t].ui_TimerID] = NULL]
  /\ stack_FreeTimerIDs' = <<timer[t].ui_TimerID>> \o stack_FreeTimerIDs
  /\ timer' = [timer EXCEPT ![t] = NULL]
  /\ UNCHANGED <<set_Timers, lst_FireAll, i_MaxTimers, posVars, pc, pTimeBox,
                 histVars>>

\* ~Timer; p_HBTimer is private and never deleted.
DeleteTimer(t) ==
  /\ pc \in {"onTimer", "onTimerAll", "read"}
  /\ timer[t] # NULL /\ t # HBTimer
  /\ m_ptrTimers' = [m_ptrTimers EXCEPT ![timer[t].ui_TimerID] = NULL]
  /\ timer' = [timer EXCEPT ![t] = NULL]
  /\ left' = [i \in Ids |-> IF i = timer[t].ui_TimerID THEN 0 ELSE left[i]]
  /\ UNCHANGED <<set_Timers, lst_FireAll, stack_FreeTimerIDs, i_MaxTimers,
                 posVars, pc, pTimeBox, togo, passedOver>>

Application ==
  \E t \in Timers :
    \/ DeleteTimer(t)
    \/ \E interval \in Intervals, repeated \in BOOLEAN :
         CreateTimer(t, interval, repeated)

-----------------------------------------------------------------------------
(* The two loops that take boxes one by one: Run() over the slot it is at, *)
(* FireAll over lst_FireAll.                                               *)

Boxes == IF pc = "slot" THEN set_Timers[Slot(0)] ELSE lst_FireAll
InLoop == pc \in {"slot", "all"} /\ Boxes # <<>>

\* The next box is taken out; w is what it leaves in the wheel.
WheelLeft ==
  IF pc = "slot" THEN [set_Timers EXCEPT ![Slot(0)] = Tail(@)] ELSE set_Timers
TakeBox == lst_FireAll' = IF pc = "all" THEN Tail(lst_FireAll) ELSE lst_FireAll

\* The timer has been deleted.
DropBox ==
  /\ InLoop /\ ~IsTimerLive(Head(Boxes).ui_TimerID)
  /\ TakeBox
  /\ FreeBox(WheelLeft, Head(Boxes))
  /\ UNCHANGED <<timer, m_ptrTimers, i_MaxTimers, posVars, pc, pTimeBox>>

\* A part of a long interval is over.
RequeueBox ==
  LET box == Head(Boxes)
      next == timer[box.p_Timer].ui_NextFire
  IN
  /\ InLoop /\ IsTimerLive(box.ui_TimerID) /\ next # 0
  /\ TakeBox
  /\ PutBox(WheelLeft, box, next)
  /\ timer' = [timer EXCEPT ![box.p_Timer].ui_NextFire = Place(next).nextFire]
  /\ passedOver' = passedOver \ {box.ui_TimerID}
  /\ UNCHANGED <<idVars, posVars, pc, pTimeBox, left>>

\* OnTimer is called; FireAll has set the next interval before.
FireBox ==
  LET box == Head(Boxes) IN
  /\ InLoop /\ IsTimerLive(box.ui_TimerID)
  /\ timer[box.p_Timer].ui_NextFire = 0
  /\ TakeBox
  /\ set_Timers' = WheelLeft
  /\ pTimeBox' = box
  /\ pc' = IF pc = "slot" THEN "onTimer" ELSE "onTimerAll"
  /\ timer' = IF pc = "slot" THEN timer
              ELSE [timer EXCEPT ![box.p_Timer].ui_NextFire =
                      timer[box.p_Timer].ui_Interval]
  /\ UNCHANGED <<idVars, posVars, histVars>>

InOnTimer == pc \in {"onTimer", "onTimerAll"}
BackInLoop == pc' = IF pc = "onTimer" THEN "slot" ELSE "all"

\* OnTimer has returned, the timer lives and is a repeated one.
RepeatTimer ==
  LET t == pTimeBox.p_Timer IN
  /\ InOnTimer /\ IsTimerLive(pTimeBox.ui_TimerID) /\ timer[t].b_IsRepeated
  /\ PutBox(set_Timers, pTimeBox, timer[t].ui_Interval)
  /\ timer' = [timer EXCEPT ![t].ui_NextFire =
                 Place(timer[t].ui_Interval).nextFire]
  /\ left' = [left EXCEPT ![pTimeBox.ui_TimerID] = timer[t].ui_Interval]
  /\ passedOver' = passedOver \ {pTimeBox.ui_TimerID}
  /\ BackInLoop
  /\ pTimeBox' = NoBox
  /\ UNCHANGED <<lst_FireAll, idVars, posVars>>

\* It is a one-shot timer, or was deleted in OnTimer.  The entry of a one-shot
\* timer stays in the table until its id is given out again.
EndTimer ==
  LET t == pTimeBox.p_Timer
      live == IsTimerLive(pTimeBox.ui_TimerID)
  IN
  /\ InOnTimer
  /\ live => ~timer[t].b_IsRepeated
  /\ FreeBox(set_Timers, pTimeBox)
  /\ timer' = IF live THEN [timer EXCEPT ![t].ui_TimerID = 0] ELSE timer
  /\ BackInLoop
  /\ pTimeBox' = NoBox
  /\ UNCHANGED <<lst_FireAll, m_ptrTimers, i_MaxTimers, posVars>>

-----------------------------------------------------------------------------
(* A pass of Run().                                                        *)

\* The slot is empty: one position on, and a look at the clock.
SlotDone ==
  /\ pc = "slot" /\ Boxes = <<>>
  /\ Advance(1, set_Timers)
  /\ \E elapsed \in 0..MaxElapsed :
       ui_TotalDeviation' = ui_TotalDeviation + elapsed \div 2
  /\ pc' = IF ui_TotalDeviation' > 0 THEN "collect" ELSE "poll"
  /\ UNCHANGED <<timer, set_Timers, lst_FireAll, idVars, uiPollInterval,
                 pTimeBox, passedOver>>

\* Offsets a loop "for ui = ui_CurrentPos; ui < ui_CurrentPos + n" looks at:
\* none when the bound wraps.
Scanned(n) == {k \in 0..(n - 1) : ui_CurrentPos + k < Pos(n)}
Wraps(n) == Scanned(n) = {} /\ n > 0

\* As far as FireAll goes: the deviation, at most one turn; what is more than
\* that is forgotten.
Turn == IF ARRAY_SIZE - 1 \in Scanned(ui_TotalDeviation)
          THEN ARRAY_SIZE - 1 ELSE ui_TotalDeviation

\* Offsets of the slots that FireAll has still to empty.
ToCollect == {k \in Scanned(Turn) : set_Timers[Slot(k)] # <<>>}

\* The first loop of FireAll, box by box: a live one is collected.
CollectBox ==
  LET s == Slot(Min(ToCollect))
      box == Head(set_Timers[s])
      w == [set_Timers EXCEPT ![s] = Tail(@)]
  IN
  /\ pc = "collect" /\ ToCollect # {}
  /\ \/ /\ IsTimerLive(box.ui_TimerID)
        /\ lst_FireAll' = Append(lst_FireAll, box)
        /\ set_Timers' = w
        /\ UNCHANGED <<stack_FreeTimerIDs, histVars>>
     \/ /\ ~IsTimerLive(box.ui_TimerID)
        /\ FreeBox(w, box)
        /\ UNCHANGED lst_FireAll
  /\ UNCHANGED <<timer, m_ptrTimers, i_MaxTimers, posVars, pc, pTimeBox>>

\* The slots are empty: the wheel turns over all of them.
CollectDone ==
  /\ pc = "collect" /\ ToCollect = {}
  /\ Advance(Turn, set_Timers)
  /\ ui_TotalDeviation' = 0
  /\ passedOver' = IF Wraps(Turn) THEN IdsInWheel(set_Timers) ELSE passedOver
  /\ pc' = "all"
  /\ UNCHANGED <<timer, set_Timers, lst_FireAll, idVars, uiPollInterval,
                 pTimeBox>>

\* FireAll returns; half of what it has taken is left for the next pass.
FireAllDone ==
  /\ pc = "all" /\ lst_FireAll = <<>>
  /\ \E elapsed \in 0..MaxElapsed : ui_TotalDeviation' = elapsed \div 2
  /\ pc' = "poll"
  /\ UNCHANGED <<timer, set_Timers, lst_FireAll, idVars, ui_CurrentPos,
                 uiPollInterval, pTimeBox, histVars>>

\* Mutant: no wait for a box in the next slot.
MutPollInterval ==
  LET filled == {k \in Scanned(EPOL_WAIT) : set_Timers[Slot(k)] # <<>>} IN
  /\ pc = "poll"
  /\ uiPollInterval' = IF filled = {} THEN EPOL_WAIT ELSE Min(filled)
  /\ passedOver' = IF Wraps(EPOL_WAIT) THEN IdsInWheel(set_Timers)
                                       ELSE passedOver
  /\ pc' = "read"
  /\ UNCHANGED <<timer, set_Timers, lst_FireAll, idVars, ui_CurrentPos,
                 ui_TotalDeviation, pTimeBox, left, togo>>

\* Wait until the next slot with a box, EPOL_WAIT ms at most.
SetPollInterval ==
  LET filled == {k \in Scanned(EPOL_WAIT) : set_Timers[Slot(k)] # <<>>} IN
  /\ pc = "poll"
  /\ uiPollInterval' = IF filled = {} THEN EPOL_WAIT ELSE Min(filled) + 1
  /\ passedOver' = IF Wraps(EPOL_WAIT) THEN IdsInWheel(set_Timers)
                                       ELSE passedOver
  /\ pc' = "read"
  /\ UNCHANGED <<timer, set_Timers, lst_FireAll, idVars, ui_CurrentPos,
                 ui_TotalDeviation, pTimeBox, left, togo>>

\* Mutant: one position too many.
MutReadOver ==
  /\ pc = "read"
  /\ \E uiRet \in 0..MaxElapsed :
       IF uiPollInterval < uiRet
         THEN /\ ui_TotalDeviation' =
                   ui_TotalDeviation + (uiRet - uiPollInterval)
              /\ Advance(uiPollInterval, set_Timers)
         ELSE /\ Advance(uiRet, set_Timers)
              /\ UNCHANGED ui_TotalDeviation
  /\ uiPollInterval' = 1
  /\ pc' = "slot"
  /\ UNCHANGED <<timer, set_Timers, lst_FireAll, idVars, pTimeBox,
                 passedOver>>

\* ReadSockets (module SocketManager) returns the ms it has taken.
ReadSocketsReturns ==
  /\ pc = "read"
  /\ \E uiRet \in 0..MaxElapsed :
       IF uiPollInterval < uiRet
         THEN /\ ui_TotalDeviation' =
                   ui_TotalDeviation + (uiRet - uiPollInterval) + 1
              /\ Advance(uiPollInterval - 1, set_Timers)
         ELSE /\ Advance(IF uiRet > 0 THEN uiRet - 1 ELSE 0, set_Timers)
              /\ UNCHANGED ui_TotalDeviation
  /\ uiPollInterval' = 1
  /\ pc' = "slot"
  /\ UNCHANGED <<timer, set_Timers, lst_FireAll, idVars, pTimeBox,
                 passedOver>>

Run ==
  \/ DropBox
  \/ RequeueBox
  \/ FireBox
  \/ RepeatTimer
  \/ EndTimer
  \/ SlotDone
  \/ CollectBox
  \/ CollectDone
  \/ FireAllDone
  \/ SetPollInterval
  \/ ReadSocketsReturns

Next == Run \/ Application

Spec == Init /\ [][Next]_vars

\* The thread keeps running, and callbacks return.
FairSpec == Spec /\ WF_vars(Run)

-----------------------------------------------------------------------------
(* Properties.                                                             *)

\* Every variable keeps its type.
TypeOK ==
  /\ timer \in [Timers -> {NULL} \cup TimerFields]
  /\ set_Timers \in [Slots -> Seq(Box)]
  /\ lst_FireAll \in Seq(Box)
  /\ m_ptrTimers \in [0..MaxTimerID -> Timers \cup {NULL}]
  /\ stack_FreeTimerIDs \in Seq(Nat \ {0})
  /\ i_MaxTimers \in Nat
  /\ ui_CurrentPos \in 0..(PosModulus - 1)
  /\ ui_TotalDeviation \in 0..(PosModulus - 1)
  /\ uiPollInterval \in 1..EPOL_WAIT
  /\ pc \in {"slot", "onTimer", "collect", "all", "onTimerAll", "poll", "read"}
  /\ pTimeBox \in Box \cup {NoBox}
  /\ left \in [Ids -> Nat]
  /\ togo \in [Ids -> Int]
  /\ passedOver \subseteq Ids

\* Where boxes are: the slots, lst_FireAll and Run()'s or FireAll's hand.
Shelves == 0..(ARRAY_SIZE + 1)
Shelf(s) ==
  IF s \in Slots THEN set_Timers[s]
  ELSE IF s = ARRAY_SIZE THEN lst_FireAll
  ELSE IF pTimeBox = NoBox THEN <<>> ELSE <<pTimeBox>>

\* A box of a live timer is a box of an object that exists and has its id.
BoxSound(box) ==
  IsTimerLive(box.ui_TimerID) =>
    /\ m_ptrTimers[box.ui_TimerID] = box.p_Timer
    /\ timer[box.p_Timer] # NULL
    /\ timer[box.p_Timer].ui_TimerID = box.ui_TimerID

(***************************************************************************)
(* An id names one timer at a time, although a deleted timer's box stays   *)
(* in the wheel and its id is freed in four places: no id has two boxes,   *)
(* is free twice, or is free while it has a box; OnTimer is never called   *)
(* on a deleted timer, though addresses are used again; and every timer    *)
(* that is not finished has its box.                                       *)
(***************************************************************************)
IdsSound ==
  /\ \A r, s \in Shelves : \A i \in 1..Len(Shelf(r)), j \in 1..Len(Shelf(s)) :
       Shelf(r)[i].ui_TimerID = Shelf(s)[j].ui_TimerID => r = s /\ i = j
  /\ IsInjective(stack_FreeTimerIDs)
  /\ \A s \in Shelves : \A i \in 1..Len(Shelf(s)) :
       /\ \A k \in 1..Len(stack_FreeTimerIDs) :
            stack_FreeTimerIDs[k] # Shelf(s)[i].ui_TimerID
       /\ BoxSound(Shelf(s)[i])
  /\ \A t \in Timers :
       timer[t] # NULL /\ timer[t].ui_TimerID # 0 =>
         /\ m_ptrTimers[timer[t].ui_TimerID] = t
         /\ \E s \in Shelves : \E i \in 1..Len(Shelf(s)) :
              Shelf(s)[i].ui_TimerID = timer[t].ui_TimerID

(***************************************************************************)
(* No timer fires before its interval is over, counted in positions of the *)
(* wheel, on either path, however long intervals are split into turns.     *)
(***************************************************************************)
NeverEarly ==
  [][pTimeBox' # pTimeBox /\ pTimeBox' # NoBox =>
       left[pTimeBox'.ui_TimerID] = 0]_vars

(***************************************************************************)
(* The wheel passes over no slot with a box in it, neither by the poll     *)
(* interval nor by the deviation - with two exceptions: a box put ahead    *)
(* while ReadSockets runs, when the poll interval is chosen already, and   *)
(* boxes around the point where ui_CurrentPos wraps.  Those wait for the   *)
(* next time around.                                                       *)
(***************************************************************************)
NotOverlooked ==
  \A i \in IdsInWheel(set_Timers) \ passedOver : togo[i] >= 0

\* Every timer fires, and fires again, until it is deleted.
EveryTimerFires ==
  \A t \in Timers :
    timer[t] # NULL /\ timer[t].ui_TimerID # 0
      ~> timer[t] = NULL \/ (InOnTimer /\ pTimeBox.p_Timer = t)

-----------------------------------------------------------------------------
(* What the safety properties rest on; with TypeOK and IdsSound WheelInv   *)
(* is inductive (module TimerWheelProofs).                                 *)

\* A box is in hand while OnTimer runs, lst_FireAll is used by FireAll only.
InHand ==
  /\ pTimeBox # NoBox <=> InOnTimer
  /\ lst_FireAll # <<>> => pc \in {"collect", "all", "onTimerAll"}

\* The table is large enough for all ids there are.
IdsInTable ==
  /\ i_MaxTimers >= 1
  /\ \A k \in 1..Len(stack_FreeTimerIDs) : stack_FreeTimerIDs[k] < i_MaxTimers
  /\ \A s \in Shelves : \A i \in 1..Len(Shelf(s)) :
       Shelf(s)[i].ui_TimerID < i_MaxTimers

\* Half of each pass is counted, and half of FireAll's once more.
DeviationBounded ==
  CASE pc \in {"slot", "onTimer"} ->
         ui_TotalDeviation <= MaxElapsed + MaxElapsed \div 2
    [] pc = "collect" -> ui_TotalDeviation <= 2 * MaxElapsed
    [] pc \in {"all", "onTimerAll"} -> ui_TotalDeviation = 0
    [] pc \in {"poll", "read"} -> ui_TotalDeviation <= MaxElapsed \div 2

\* Positions until the slot s comes up.
Ahead(s) == IF s >= Slot(0) THEN s - Slot(0) ELSE s - Slot(0) + ARRAY_SIZE

\* What a timer has to wait is over when its box has come up ui_NextFire after
\* its slot.
DueInTime ==
  /\ \A s \in Slots : \A i \in 1..Len(set_Timers[s]) :
       LET box == set_Timers[s][i] IN
       IsTimerLive(box.ui_TimerID) =>
         left[box.ui_TimerID] <= timer[box.p_Timer].ui_NextFire + Ahead(s)
  /\ \A i \in 1..Len(lst_FireAll) :
       LET box == lst_FireAll[i] IN
       IsTimerLive(box.ui_TimerID) =>
         left[box.ui_TimerID] <= timer[box.p_Timer].ui_NextFire
                                   + (IF pc = "collect" THEN Turn ELSE 0)

\* A box that is not passed over has as far to go as its slot, and the poll
\* interval ends before the first of them.
OnTrack ==
  \A s \in Slots : \A i \in 1..Len(set_Timers[s]) :
    LET id == set_Timers[s][i].ui_TimerID IN
    id \notin passedOver =>
      /\ togo[id] = Ahead(s)
      /\ pc = "read" => Ahead(s) >= uiPollInterval - 1

WheelInv == InHand /\ IdsInTable /\ DeviationBounded /\ DueInTime /\ OnTrack
=============================================================================
