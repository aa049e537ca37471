------------------------- MODULE ConnectOps_proofs ---------------------------
(***************************************************************************)
(* The slot table of the proxy for any number of connections, addresses and *)
(* requests, and whatever the environment does: its types; that no two      *)
(* slots ever hold the same address or the same conn id; what the client is *)
(* told of them; and that slots and links are the same picture, as long as  *)
(* neither task is held up.                                                 *)
(***************************************************************************)
EXTENDS ConnectOps, FiniteSetTheorems, TLAPS

(* The count of free slots the client is told is a number of slots.         *)
LEMMA FreeCount ==
    ASSUME NEW S \in SUBSET Slots
    PROVE  Cardinality(S) \in 0 .. MaxConn
<1>1. IsFiniteSet(Slots) /\ Cardinality(Slots) = MaxConn
  BY MaxConnAssumption, FS_Interval DEF Slots
<1>2. Cardinality(S) \in Nat /\ Cardinality(S) <= MaxConn
  BY <1>1, FS_Subset, FS_CardinalityType
<1> QED BY <1>2, MaxConnAssumption

(* What a slot and a request may hold.                                      *)
LEMMA Records ==
    /\ Free \in Conn /\ NoReq \in Request
    /\ Free.address = None
    /\ \A a \in Addr, c \in ConnId :
           LET r == [address |-> a, connId |-> c]
           IN  r \in Conn /\ r.address = a /\ r.connId = c
    /\ \A r \in Conn : r.address # None => r.address \in Addr /\ r.connId \in ConnId
    /\ \A a \in Addr, o \in {"connect", "disconnect"} :
           LET r == [op |-> o, address |-> a]
           IN  r \in Request /\ r.op = o /\ r.address = a
    /\ \A r \in Request :
           r.op \in {"none", "connect", "disconnect"} /\ (r.op # "none" => r.address \in Addr)
BY NoneAssumption DEF Conn, Request, Free, NoReq

(* One step keeps the type of the slot table.                               *)
LEMMA TypeSlotsStep ==
    ASSUME TypeOK, ConnectPending, [Next]_vars
    PROVE  TypeSlots'
<1> USE DEF TypeOK, TypeSlots
<1>1. CASE SvcFree
  BY <1>1, Records DEF SvcFree
<1>2. CASE AnswerConnected
  <2>1. [address |-> req.address, connId |-> pendConnId] \in Conn
    BY <1>2, Records DEF AnswerConnected, ConnectPending, TypeMailbox
  <2> QED BY <1>2, <2>1 DEF AnswerConnected
<1>3. CASE Disconnect
  BY <1>3, Records DEF Disconnect
<1>4. CASE Reboot
  BY <1>4, Records DEF Reboot
<1>5. CASE UNCHANGED <<conns>>
  BY <1>5
<1> QED
  BY <1>1, <1>2, <1>3, <1>4, <1>5 DEF Next, Client, ApiStep, LoopStep, Away,
     Stack, vars, ClientConnects, ClientLeaves, SvcSkip, SvcRead, SvcClear,
     SvcTail, NoFrame, SubscribeConnectionsFree, RequestDisconnect,
     RequestConnect, RequestRefused, ResetAnswer, Arm, Take, TimeOut,
     AnswerDisconnect, AnswerFailed, ResumeScan, TakeOp, ConnectBegin,
     LinkFound, GiveUp, Cancel, Clear, Give, Stall, ScanWatchdog, LinkUp,
     LinkDrop

(* One step keeps the type of the mailbox, the semaphore and the mask.      *)
LEMMA TypeMailboxStep ==
    ASSUME TypeOK, [Next]_vars
    PROVE  TypeMailbox'
<1> USE DEF TypeOK, TypeMailbox
<1>1. CASE SvcClear
  BY <1>1 DEF SvcClear, mailbox
<1>2. CASE SvcTail
  BY <1>2 DEF SvcTail, mailbox
<1>3. ASSUME NEW a \in Addr, RequestDisconnect(a) PROVE TypeMailbox'
  BY <1>3 DEF RequestDisconnect
<1>4. ASSUME NEW a \in Addr, RequestConnect(a) PROVE TypeMailbox'
  BY <1>4 DEF RequestConnect
<1>5. CASE ResetAnswer
  BY <1>5 DEF ResetAnswer
<1>6. CASE Arm
  BY <1>6, Records DEF Arm, TypeApi
<1>7. CASE Take
  BY <1>7 DEF Take, mailbox
<1>8. CASE ResumeScan
  BY <1>8 DEF ResumeScan, mailbox
<1>9. CASE LinkFound
  BY <1>9 DEF LinkFound, Candidates
<1>10. CASE GiveUp
  BY <1>10 DEF GiveUp
<1>11. CASE Disconnect
  BY <1>11 DEF Disconnect
<1>12. CASE Clear
  BY <1>12 DEF Clear
<1>13. CASE Give
  BY <1>13 DEF Give, mailbox
<1>14. ASSUME NEW c \in ConnId, LinkDrop(c) PROVE TypeMailbox'
  BY <1>14 DEF LinkDrop, mailbox
<1>15. CASE Reboot
  BY <1>15 DEF Reboot
<1>16. CASE UNCHANGED <<pendOp, pendAddr, pendOk, pendConnId, opSem, discMask, resumeScan>>
  BY <1>16
<1> QED
  BY <1>1, <1>2, <1>3, <1>4, <1>5, <1>6, <1>7, <1>8, <1>9, <1>10, <1>11,
     <1>12, <1>13, <1>14, <1>15, <1>16 DEF Next, Client, ApiStep, LoopStep, Away,
     Stack, vars, mailbox, ClientConnects, ClientLeaves, SvcSkip, SvcRead,
     SvcFree, NoFrame, SubscribeConnectionsFree, RequestRefused, TimeOut,
     AnswerDisconnect, AnswerConnected, AnswerFailed, TakeOp, ConnectBegin,
     Cancel, Stall, ScanWatchdog, LinkUp

(* One step keeps the type of the locals of the API task.                   *)
LEMMA TypeApiStep ==
    ASSUME TypeOK, [Next]_vars
    PROVE  TypeApi'
<1> USE DEF TypeOK, TypeApi
<1>1. CASE ClientConnects
  BY <1>1 DEF ClientConnects
<1>2. CASE ClientLeaves
  BY <1>2 DEF ClientLeaves
<1>3. CASE SvcSkip
  BY <1>3 DEF SvcSkip
<1>4. CASE SvcRead
  BY <1>4 DEF SvcRead, TypeMailbox
<1>5. CASE SvcClear
  BY <1>5 DEF SvcClear
<1>6. CASE SvcFree
  BY <1>6 DEF SvcFree
<1>7. CASE SvcTail
  BY <1>7 DEF SvcTail
<1>8. CASE NoFrame
  BY <1>8 DEF NoFrame
<1>9. ASSUME NEW a \in Addr, RequestDisconnect(a) PROVE TypeApi'
  BY <1>9, Records DEF RequestDisconnect
<1>10. ASSUME NEW a \in Addr, RequestConnect(a) PROVE TypeApi'
  <2>1. PICK s \in Lowest(IF SlotsOf(a) # {} THEN SlotsOf(a) ELSE FreeSlots) : slot' = s
    BY <1>10, Zenon DEF RequestConnect
  <2>2. s \in Slots
    BY DEF Lowest, SlotsOf, FreeSlots
  <2>3. req' = [op |-> "connect", address |-> a]
    BY <1>10 DEF RequestConnect
  <2>4. req' \in Request
    BY <2>3, Records
  <2>5. apiPc' = "reset" /\ mask' = mask /\ overdue' = overdue
    BY <1>10 DEF RequestConnect
  <2> QED BY <2>1, <2>2, <2>4, <2>5
<1>11. CASE ResetAnswer
  BY <1>11 DEF ResetAnswer
<1>12. CASE Arm
  BY <1>12 DEF Arm
<1>13. CASE Take
  BY <1>13 DEF Take
<1>14. CASE TimeOut
  BY <1>14 DEF TimeOut
<1>15. CASE AnswerDisconnect
  BY <1>15, Records DEF AnswerDisconnect
<1>16. CASE AnswerConnected
  BY <1>16, Records DEF AnswerConnected
<1>17. CASE AnswerFailed
  BY <1>17, Records DEF AnswerFailed
<1>18. CASE Stall
  BY <1>18 DEF Stall
<1>19. CASE ScanWatchdog
  BY <1>19 DEF ScanWatchdog
<1>20. CASE Reboot
  BY <1>20, Records DEF Reboot
<1>21. CASE UNCHANGED <<apiPc, req, slot, mask, overdue>>
  BY <1>21
<1> QED
  BY <1>1, <1>2, <1>3, <1>4, <1>5, <1>6, <1>7, <1>8, <1>9, <1>10, <1>11,
     <1>12, <1>13, <1>14, <1>15, <1>16, <1>17, <1>18, <1>19, <1>20,
     <1>21 DEF Next, Client, ApiStep, LoopStep, Away, Stack, vars, apiVars,
     SubscribeConnectionsFree, RequestRefused, ResumeScan, TakeOp,
     ConnectBegin, LinkFound, GiveUp, Cancel, Disconnect, Clear, Give,
     LinkUp, LinkDrop

(* One step keeps the type of the locals of loop().                         *)
LEMMA TypeLoopStep ==
    ASSUME TypeOK, [Next]_vars
    PROVE  TypeLoop'
<1> USE DEF TypeOK, TypeLoop
<1>1. CASE TakeOp
  BY <1>1 DEF TakeOp, TypeMailbox
<1>2. CASE ConnectBegin
  BY <1>2 DEF ConnectBegin, TypeMailbox
<1>3. CASE LinkFound
  BY <1>3 DEF LinkFound
<1>4. CASE GiveUp
  BY <1>4 DEF GiveUp
<1>5. CASE Cancel
  BY <1>5 DEF Cancel
<1>6. CASE Disconnect
  BY <1>6 DEF Disconnect
<1>7. CASE Clear
  BY <1>7 DEF Clear
<1>8. CASE Give
  BY <1>8 DEF Give
<1>9. CASE ScanWatchdog
  BY <1>9 DEF ScanWatchdog
<1>10. CASE Reboot
  BY <1>10 DEF Reboot
<1>11. CASE UNCHANGED <<loopPc, runOp, bd>>
  BY <1>11
<1> QED
  BY <1>1, <1>2, <1>3, <1>4, <1>5, <1>6, <1>7, <1>8, <1>9, <1>10, <1>11
     DEF Next, Client,
     ApiStep, LoopStep, Away, Stack, vars, loopVars, ClientConnects,
     ClientLeaves, SvcSkip, SvcRead, SvcClear, SvcFree, SvcTail, NoFrame,
     SubscribeConnectionsFree, RequestDisconnect, RequestConnect,
     RequestRefused, ResetAnswer, Arm, Take, TimeOut, AnswerDisconnect,
     AnswerConnected, AnswerFailed, ResumeScan, Stall, LinkUp, LinkDrop

(* One step keeps the type of the links.                                    *)
LEMMA TypeStackStep ==
    ASSUME TypeOK, [Next]_vars
    PROVE  TypeStack'
<1> USE DEF TypeOK, TypeStack
<1>1. CASE ResumeScan
  BY <1>1 DEF ResumeScan
<1>2. CASE ConnectBegin
  BY <1>2 DEF ConnectBegin, TypeMailbox
<1>3. CASE Cancel
  BY <1>3 DEF Cancel
<1>4. CASE Disconnect
  <2>1. UNCHANGED <<link, creating>> /\ scanning' \in BOOLEAN
    BY <1>4 DEF Disconnect
  <2>2. \A s \in SlotsOf(pendAddr) : conns[s].connId \in ConnId
    BY Records DEF SlotsOf, Used, TypeSlots
  <2>3. closing' \subseteq ConnId
    BY <1>4, <2>2 DEF Disconnect, Lowest
  <2> QED BY <2>1, <2>3
<1>5. CASE ScanWatchdog
  BY <1>5 DEF ScanWatchdog
<1>6. ASSUME NEW c \in ConnId, LinkUp(c) PROVE TypeStack'
  BY <1>6 DEF LinkUp
<1>7. ASSUME NEW c \in ConnId, LinkDrop(c) PROVE TypeStack'
  BY <1>7 DEF LinkDrop
<1>8. CASE Reboot
  BY <1>8 DEF Reboot
<1>9. CASE UNCHANGED <<link, closing, creating, scanning>>
  BY <1>9
<1> QED
  BY <1>1, <1>2, <1>3, <1>4, <1>5, <1>6, <1>7, <1>8, <1>9 DEF Next, Client,
     ApiStep, LoopStep, Away, Stack, vars, stack, ClientConnects,
     ClientLeaves, SvcSkip, SvcRead, SvcClear, SvcFree, SvcTail, NoFrame,
     SubscribeConnectionsFree, RequestDisconnect, RequestConnect,
     RequestRefused, ResetAnswer, Arm, Take, TimeOut, AnswerDisconnect,
     AnswerConnected, AnswerFailed, TakeOp, LinkFound, GiveUp, Clear, Give,
     Stall

(* One step keeps the type of what the client was told, and the history.    *)
LEMMA TypeToldStep ==
    ASSUME TypeOK, ConnectPending, [Next]_vars
    PROVE  TypeTold'
<1> USE DEF TypeOK, TypeTold
<1>1. CASE ClientConnects
  BY <1>1 DEF ClientConnects, history
<1>2. CASE SvcFree
  BY <1>2 DEF SvcFree, history
<1>3. CASE SvcTail
  BY <1>3, FreeCount DEF SvcTail, history, FreeSlots
<1>4. CASE SubscribeConnectionsFree
  BY <1>4, FreeCount DEF SubscribeConnectionsFree, history, FreeSlots
<1>5. ASSUME NEW a \in Addr, RequestDisconnect(a) PROVE TypeTold'
  BY <1>5, MaxReqAssumption DEF RequestDisconnect, told
<1>6. ASSUME NEW a \in Addr, RequestConnect(a) PROVE TypeTold'
  BY <1>6, MaxReqAssumption DEF RequestConnect, told
<1>7. ASSUME NEW a \in Addr, RequestRefused(a) PROVE TypeTold'
  BY <1>7, MaxReqAssumption DEF RequestRefused
<1>8. CASE AnswerDisconnect
  BY <1>8, Records, FreeCount DEF AnswerDisconnect, history, FreeSlots
<1>9. CASE AnswerConnected
  <2>1. req.address \in Addr /\ UNCHANGED history
    BY <1>9 DEF AnswerConnected, ConnectPending
  <2>2. Cardinality(FreeSlots \ {slot}) \in 0 .. MaxConn
    BY FreeCount DEF FreeSlots
  <2> QED BY <1>9, <2>1, <2>2 DEF AnswerConnected, history
<1>10. CASE AnswerFailed
  BY <1>10, Records, FreeCount DEF AnswerFailed, history, FreeSlots
<1>11. CASE TakeOp
  BY <1>11, MaxReqAssumption DEF TakeOp, told
<1>12. CASE Give
  BY <1>12 DEF Give, told
<1>13. CASE Reboot
  BY <1>13, MaxReqAssumption DEF Reboot
<1>14. CASE UNCHANGED <<view, freeTold, asked, running, done>>
  BY <1>14
<1> QED
  BY <1>1, <1>2, <1>3, <1>4, <1>5, <1>6, <1>7, <1>8, <1>9, <1>10, <1>11,
     <1>12, <1>13, <1>14 DEF Next, Client, ApiStep, LoopStep, Away, Stack, vars,
     told, history, ClientLeaves, SvcSkip, SvcRead, SvcClear, NoFrame,
     ResetAnswer, Arm, Take, TimeOut, ResumeScan, ConnectBegin, LinkFound,
     GiveUp, Cancel, Disconnect, Clear, Stall, ScanWatchdog, LinkUp,
     LinkDrop

(* What may happen in a behaviour is settled when it begins.                *)
LEMMA EnvKept == [Next]_vars => env' = env
<1>1. Client \/ UNCHANGED vars => env' = env
  BY DEF Client, vars, ClientConnects, ClientLeaves, SubscribeConnectionsFree,
     RequestDisconnect, RequestConnect, RequestRefused
<1>2. ApiStep => env' = env
  BY DEF ApiStep, SvcSkip, SvcRead, SvcClear, SvcFree, SvcTail, NoFrame,
     ResetAnswer, Arm, Take, TimeOut, AnswerDisconnect, AnswerConnected,
     AnswerFailed
<1>3. LoopStep => env' = env
  BY DEF LoopStep, ResumeScan, TakeOp, ConnectBegin, LinkFound, GiveUp, Cancel,
     Disconnect, Clear, Give
<1>4. Away \/ Reboot \/ Stack => env' = env
  BY DEF Away, Stall, ScanWatchdog, Reboot, Stack, LinkUp, LinkDrop
<1> QED BY <1>1, <1>2, <1>3, <1>4 DEF Next

(* One step of any context keeps the types.                                 *)
LEMMA TypeStep ==
    ASSUME TypeOK, ConnectPending, [Next]_vars
    PROVE  TypeOK'
BY EnvKept, TypeSlotsStep, TypeMailboxStep, TypeApiStep, TypeLoopStep,
   TypeStackStep, TypeToldStep DEF TypeOK, TypeEnv

-----------------------------------------------------------------------------
(* A step that leaves the slot table alone leaves what is read from it      *)
(* alone.                                                                   *)
LEMMA TableKept ==
    ASSUME UNCHANGED conns
    PROVE  /\ \A s \in Slots : Used(s)' <=> Used(s)
           /\ \A a : SlotsOf(a)' = SlotsOf(a)
           /\ \A c : SlotsOn(c)' = SlotsOn(c)
           /\ SlotAddrUnique' <=> SlotAddrUnique
           /\ SlotConnIdUnique' <=> SlotConnIdUnique
BY DEF Used, SlotsOf, SlotsOn, SlotAddrUnique, SlotConnIdUnique

(* Freeing a slot makes no two slots alike and finds no address or conn id  *)
(* in a slot where it was not.                                              *)
LEMMA SlotFreed ==
    ASSUME TypeOK, SlotInv, NEW s \in Slots,
           conns' = [conns EXCEPT ![s] = Free]
    PROVE  /\ SlotAddrUnique' /\ SlotConnIdUnique'
           /\ \A a : SlotsOf(a)' \subseteq SlotsOf(a)
           /\ \A c : SlotsOn(c)' \subseteq SlotsOn(c)
<1>1. ~Used(s)' /\ \A t \in Slots \ {s} : conns'[t] = conns[t]
  BY Records DEF TypeOK, TypeSlots, Used
<1>2. \A t \in Slots : Used(t)' => Used(t) /\ conns'[t] = conns[t]
  BY <1>1 DEF Used
<1> QED
  BY <1>2 DEF SlotInv, SlotAddrUnique, SlotConnIdUnique, SlotsOf, SlotsOn

(* What a connect under way relies on survives any step that frees slots at *)
(* most and leaves the request and the mailbox's answer alone.              *)
LEMMA PendingKept ==
    ASSUME ConnectPending, UNCHANGED <<req, slot, pendConnId, apiPc>>,
           \A a : SlotsOf(a)' \subseteq SlotsOf(a),
           \A c : SlotsOn(c)' \subseteq SlotsOn(c)
    PROVE  ConnectPending'
BY DEF ConnectPending

(* One step of any context keeps the slots apart.                           *)
LEMMA SlotInvStep ==
    ASSUME TypeOK, SlotInv, [Next]_vars
    PROVE  SlotInv'
<1> USE DEF SlotInv
<1>1. CASE SvcFree
  <2>1. UNCHANGED <<req, slot, pendConnId, apiPc>>
    BY <1>1 DEF SvcFree, mailbox
  <2>2. UNCHANGED conns \/ \E s \in Slots : conns' = [conns EXCEPT ![s] = Free]
    BY <1>1 DEF SvcFree, Lowest, SlotsOn
  <2> QED BY <2>1, <2>2, TableKept, SlotFreed, PendingKept
<1>2. CASE Disconnect
  <2>1. UNCHANGED <<req, slot, pendConnId, apiPc>>
    BY <1>2 DEF Disconnect, apiVars
  <2>2. UNCHANGED conns \/ \E s \in Slots : conns' = [conns EXCEPT ![s] = Free]
    BY <1>2 DEF Disconnect, Lowest, SlotsOf
  <2> QED BY <2>1, <2>2, TableKept, SlotFreed, PendingKept
<1>3. CASE AnswerConnected
  <2> DEFINE new == [address |-> req.address, connId |-> pendConnId]
  <2>1. /\ req.address \in Addr /\ slot \in Slots /\ pendConnId \in ConnId
        /\ SlotsOf(req.address) \subseteq {slot}
        /\ SlotsOn(pendConnId) = {}
    BY <1>3 DEF AnswerConnected, ConnectPending, TypeOK, TypeMailbox
  <2>2. /\ conns'[slot] = new /\ new.address = req.address
        /\ new.connId = pendConnId
        /\ \A t \in Slots \ {slot} : conns'[t] = conns[t]
    BY <1>3, <2>1 DEF AnswerConnected, TypeOK, TypeSlots
  <2>3. \A t \in Slots \ {slot} :
            Used(t) => conns[t].address # req.address /\ conns[t].connId # pendConnId
    BY <2>1 DEF SlotsOf, SlotsOn
  <2> HIDE DEF new
  <2>4. SlotAddrUnique' /\ SlotConnIdUnique'
    BY <2>2, <2>3 DEF SlotAddrUnique, SlotConnIdUnique, Used
  <2>5. apiPc' = "recv"
    BY <1>3 DEF AnswerConnected
  <2> QED BY <2>4, <2>5 DEF ConnectPending
<1>4. ASSUME NEW a \in Addr, RequestConnect(a) PROVE SlotInv'
  <2>1. UNCHANGED conns /\ apiPc' = "reset"
    BY <1>4 DEF RequestConnect
  <2>2. req' = [op |-> "connect", address |-> a] /\ slot' \in Slots
    BY <1>4 DEF RequestConnect, Lowest, SlotsOf, FreeSlots
  <2>3. SlotsOf(a) \subseteq {slot'}
    BY <1>4 DEF RequestConnect, Lowest, SlotsOf, SlotAddrUnique
  <2> QED BY <2>1, <2>2, <2>3, TableKept DEF ConnectPending
<1>5. CASE ResetAnswer
  <2>1. /\ UNCHANGED <<conns, req, slot>> /\ apiPc = "reset"
        /\ pendConnId' = None
    BY <1>5 DEF ResetAnswer
  <2> QED BY <2>1, TableKept DEF ConnectPending
<1>6. CASE Arm \/ Take \/ TimeOut
  <2>1. /\ UNCHANGED <<conns, req, slot, pendConnId>>
        /\ apiPc \in {"arm", "wait"}
    BY <1>6 DEF Arm, Take, TimeOut, mailbox
  <2> QED BY <2>1, TableKept DEF ConnectPending
<1>7. CASE LinkFound
  <2>1. UNCHANGED <<conns, req, slot, apiPc>> /\ SlotsOn(pendConnId') = {}
    BY <1>7 DEF LinkFound, Candidates, apiVars
  <2> QED BY <2>1, TableKept DEF ConnectPending
<1>8. ASSUME NEW a \in Addr, RequestDisconnect(a) PROVE SlotInv'
  <2>1. UNCHANGED conns /\ req' = [op |-> "disconnect", address |-> a]
    BY <1>8 DEF RequestDisconnect
  <2> QED BY <2>1, TableKept DEF ConnectPending
<1>9. ASSUME UNCHANGED conns,
             apiPc' \in {"accept", "svc", "svcClear", "svcFree", "recv"}
      PROVE  SlotInv'
  BY <1>9, TableKept DEF ConnectPending
<1>10. ASSUME UNCHANGED <<conns, req, slot, pendConnId, apiPc>> PROVE SlotInv'
  BY <1>10, TableKept DEF ConnectPending
<1>11. CASE \/ ClientConnects \/ ClientLeaves \/ NoFrame
            \/ SvcSkip \/ SvcRead \/ SvcClear \/ SvcTail
            \/ AnswerDisconnect \/ AnswerFailed
  BY <1>9, <1>11 DEF ClientConnects, ClientLeaves, NoFrame, SvcSkip, SvcRead,
     SvcClear, SvcTail, AnswerDisconnect, AnswerFailed
<1>12. CASE \/ SubscribeConnectionsFree \/ \E a \in Addr : RequestRefused(a)
            \/ ResumeScan \/ TakeOp \/ ConnectBegin \/ GiveUp \/ Cancel
            \/ Clear \/ Give \/ Away \/ Stack \/ UNCHANGED vars
  BY <1>10, <1>12 DEF SubscribeConnectionsFree, RequestRefused, ResumeScan,
     TakeOp, ConnectBegin, GiveUp, Cancel, Clear, Give, Away, Stall,
     ScanWatchdog, Stack, LinkUp, LinkDrop, vars, apiVars, mailbox
<1>13. CASE Reboot
  BY <1>13, Records
     DEF Reboot, SlotAddrUnique, SlotConnIdUnique, ConnectPending, Used
<1> QED
  BY <1>1, <1>2, <1>3, <1>4, <1>5, <1>6, <1>7, <1>8, <1>11, <1>12, <1>13
     DEF Next, Client, ApiStep, LoopStep

(* Type correctness and the two uniqueness properties need each other: the  *)
(* slot a connect fills is one of the table's, and no other has its address *)
(* or its conn id.                                                          *)
THEOREM Invariance == Spec => [](TypeOK /\ SlotInv)
<1>1. Init => TypeOK
  <2>1. ASSUME Init PROVE TypeEnv /\ TypeSlots /\ TypeApi
    BY <2>1, Records DEF Init, TypeEnv, TypeSlots, TypeApi
  <2>2. ASSUME Init PROVE TypeMailbox /\ TypeLoop
    BY <2>2 DEF Init, TypeMailbox, TypeLoop
  <2>3. ASSUME Init PROVE TypeStack /\ TypeTold
    BY <2>3, MaxReqAssumption DEF Init, TypeStack, TypeTold
  <2> QED BY <2>1, <2>2, <2>3 DEF TypeOK
<1>2. Init => SlotInv
  BY Records
     DEF Init, SlotInv, SlotAddrUnique, SlotConnIdUnique, ConnectPending, Used
<1>3. TypeOK /\ SlotInv /\ [Next]_vars => TypeOK' /\ SlotInv'
  BY TypeStep, SlotInvStep DEF SlotInv
<1> QED BY <1>1, <1>2, <1>3, PTL DEF Spec

(* Type correctness, for any number of slots and requests, whatever happens.*)
THEOREM TypeCorrect == Spec => []TypeOK
BY Invariance, PTL

(* No two slots hold the same address or the same conn id, and a connect    *)
(* under way will not make it so.                                           *)
THEOREM SlotsStayUnique == Spec => []SlotInv
BY Invariance, PTL

(* No two slots ever hold the same address.                                 *)
THEOREM NoDuplicateAddress == Spec => []SlotAddrUnique
<1>1. SlotInv => SlotAddrUnique
  BY DEF SlotInv
<1> QED BY <1>1, Invariance, PTL

(* No two slots ever hold the same conn id.                                 *)
THEOREM NoDuplicateConnId == Spec => []SlotConnIdUnique
<1>1. SlotInv => SlotConnIdUnique
  BY DEF SlotInv
<1> QED BY <1>1, Invariance, PTL

-----------------------------------------------------------------------------
(* The mailbox has one user at a time.                                      *)
LEMMA MailboxKept == Spec => []MailboxInv
<1>1. Init => MailboxInv
  BY DEF Init, MailboxInv, NoReq
<1>2. TypeOK /\ MailboxInv /\ [Next]_vars => MailboxInv'
  <2> SUFFICES ASSUME TypeOK, MailboxInv, [Next]_vars PROVE MailboxInv'
    OBVIOUS
  <2> USE DEF MailboxInv
  <2>1. ASSUME UNCHANGED <<env, mailbox, opSem, req, overdue, loopVars, history>>,
               apiPc \in {"accept", "svc", "svcClear", "svcFree", "recv"},
               apiPc' \in {"accept", "svc", "svcClear", "svcFree", "recv"}
        PROVE  MailboxInv'
    BY <2>1 DEF mailbox, loopVars, history
  <2>2. CASE \/ ClientConnects \/ ClientLeaves \/ SubscribeConnectionsFree
             \/ SvcSkip \/ SvcRead \/ SvcClear \/ SvcFree \/ SvcTail \/ NoFrame
    BY <2>1, <2>2 DEF ClientConnects, ClientLeaves, SubscribeConnectionsFree,
       SvcSkip, SvcRead, SvcClear, SvcFree, SvcTail, NoFrame, apiVars
  <2>3. ASSUME NEW a \in Addr, RequestDisconnect(a) PROVE MailboxInv'
    BY <2>3 DEF RequestDisconnect, loopVars
  <2>4. ASSUME NEW a \in Addr, RequestConnect(a) PROVE MailboxInv'
    BY <2>4 DEF RequestConnect, loopVars
  <2>5. ASSUME NEW a \in Addr, RequestRefused(a) PROVE MailboxInv'
    BY <2>5 DEF RequestRefused, loopVars, mailbox, apiVars
  <2>6. CASE ResetAnswer
    BY <2>6 DEF ResetAnswer, loopVars, history
  <2>7. CASE Arm
    BY <2>7 DEF Arm, loopVars, history
  <2>8. CASE Take
    BY <2>8 DEF Take, loopVars, history, mailbox
  <2>9. CASE TimeOut
    BY <2>9 DEF TimeOut
  <2>10. CASE AnswerDisconnect
    BY <2>10 DEF AnswerDisconnect, loopVars, history, mailbox
  <2>11. CASE AnswerConnected
    BY <2>11 DEF AnswerConnected, loopVars, history, mailbox
  <2>12. CASE AnswerFailed
    BY <2>12 DEF AnswerFailed, loopVars, history, mailbox
  <2>13. CASE ResumeScan
    BY <2>13 DEF ResumeScan, loopVars, apiVars, history, mailbox
  <2>14. CASE TakeOp
    BY <2>14 DEF TakeOp, apiVars, mailbox
  <2>15. CASE ConnectBegin
    BY <2>15 DEF ConnectBegin, apiVars, history, mailbox
  <2>16. CASE LinkFound
    BY <2>16 DEF LinkFound, apiVars, history
  <2>17. CASE GiveUp
    BY <2>17 DEF GiveUp, apiVars, history
  <2>18. CASE Cancel
    BY <2>18 DEF Cancel, apiVars, history, mailbox
  <2>19. CASE Disconnect
    BY <2>19 DEF Disconnect, apiVars, history
  <2>20. CASE Clear
    BY <2>20 DEF Clear, apiVars, history
  <2>21. CASE Give
    BY <2>21 DEF Give, apiVars, mailbox
  <2>22. CASE Away
    BY <2>22 DEF Away, Stall, ScanWatchdog
  <2>23. CASE Stack
    BY <2>23 DEF Stack, LinkUp, LinkDrop, apiVars, loopVars, history, mailbox
  <2>24. CASE Reboot
    BY <2>24 DEF Reboot
  <2>25. CASE UNCHANGED vars
    BY <2>25 DEF vars, apiVars, loopVars, history, mailbox
  <2> QED
    BY <2>2, <2>3, <2>4, <2>5, <2>6, <2>7, <2>8, <2>9, <2>10, <2>11, <2>12,
       <2>13, <2>14, <2>15, <2>16, <2>17, <2>18, <2>19, <2>20, <2>21, <2>22,
       <2>23, <2>24, <2>25 DEF Next, Client, ApiStep, LoopStep
<1> QED BY <1>1, <1>2, TypeCorrect, PTL DEF Spec

(* If loop() is never away longer than the API task waits, a token in       *)
(* _opSem means that loop() has done with the request that is waiting.      *)
THEOREM TokenIsOwn == Spec => []WakeMeansDone
<1>1. MailboxInv => WakeMeansDone
  BY DEF MailboxInv, WakeMeansDone
<1> QED BY <1>1, MailboxKept, PTL

-----------------------------------------------------------------------------
(* If the stack does not reuse a conn id whose loss is not handled, a bit   *)
(* of the mask means that the link is down.                                 *)
LEMMA MaskedIsDown ==
    Spec => []("reuse" \notin env =>
                   \A c \in ConnId : c \in discMask \cup mask => ~Linked(c))
<1> DEFINE Inv == "reuse" \notin env =>
                      \A c \in ConnId : c \in discMask \cup mask => ~Linked(c)
<1>1. Init => Inv
  BY DEF Init
<1>2. TypeOK /\ Inv /\ [Next]_vars => Inv'
  <2> SUFFICES ASSUME TypeOK, Inv, [Next]_vars PROVE Inv'
    OBVIOUS
  <2>1. ASSUME UNCHANGED <<env, link>>, discMask' \cup mask' \subseteq discMask \cup mask
        PROVE  Inv'
    BY <2>1 DEF Linked
  <2>2. ASSUME NEW c \in ConnId, LinkUp(c) PROVE Inv'
    BY <2>2 DEF LinkUp, Linked, apiVars, TypeOK, TypeStack
  <2>3. ASSUME NEW c \in ConnId, LinkDrop(c) PROVE Inv'
    BY <2>3 DEF LinkDrop, Linked, apiVars, TypeOK, TypeStack
  <2>4. CASE Client
    BY <2>1, <2>4 DEF Client, ClientConnects, ClientLeaves, apiVars, stack,
       SubscribeConnectionsFree, RequestDisconnect, RequestConnect, RequestRefused
  <2>5. CASE SvcRead \/ SvcClear \/ SvcFree
    BY <2>1, <2>5 DEF SvcRead, SvcClear, SvcFree, Lowest, stack
  <2>6. CASE \/ SvcSkip \/ SvcTail \/ NoFrame \/ ResetAnswer \/ Arm \/ Take \/ TimeOut
             \/ AnswerDisconnect \/ AnswerConnected \/ AnswerFailed
    BY <2>1, <2>6 DEF SvcSkip, SvcTail, NoFrame, ResetAnswer, Arm, Take, TimeOut,
       AnswerDisconnect, AnswerConnected, AnswerFailed, stack
  <2>7. CASE LoopStep
    BY <2>1, <2>7 DEF LoopStep, ResumeScan, TakeOp, ConnectBegin, LinkFound,
       GiveUp, Cancel, Disconnect, Clear, Give, apiVars, stack
  <2>8. CASE Away \/ UNCHANGED vars
    BY <2>1, <2>8 DEF Away, Stall, ScanWatchdog, vars, apiVars, stack
  <2>9. CASE Reboot
    BY <2>9 DEF Reboot
  <2> QED
    BY <2>2, <2>3, <2>4, <2>5, <2>6, <2>7, <2>8, <2>9 DEF Next, ApiStep, Stack
<1> HIDE DEF Inv
<1>3. Spec => []Inv
  BY <1>1, <1>2, TypeCorrect, PTL DEF Spec
<1> QED BY <1>3 DEF Inv

(* Under that condition serviceDisconnects never takes the slot, and        *)
(* reports the loss, of a link that is up.                                  *)
THEOREM LiveLinksKeepTheirSlots == Spec => OnlyLostLinksFreed
<1> DEFINE Inv == "reuse" \notin env =>
                      \A c \in ConnId : c \in discMask \cup mask => ~Linked(c)
           Act == SvcFree /\ "reuse" \notin env => \A s \in Slots :
                     Used(s) /\ conns'[s] = Free => ~Connected(conns[s].connId)
<1>1. TypeOK /\ Inv => Act
  <2> SUFFICES ASSUME TypeOK, Inv, SvcFree, "reuse" \notin env, NEW s \in Slots,
                      Used(s), conns'[s] = Free
               PROVE  ~Connected(conns[s].connId)
    OBVIOUS
  <2>1. PICK c \in Lowest(mask) :
            UNCHANGED conns \/ \E t \in Lowest(SlotsOn(c)) :
                                 conns' = [conns EXCEPT ![t] = Free]
    BY DEF SvcFree
  <2>2. conns'[s] # conns[s]
    BY Records DEF Used
  <2>3. s \in SlotsOn(c)
    BY <2>1, <2>2 DEF Lowest, SlotsOn, TypeOK, TypeSlots
  <2>4. conns[s].connId = c /\ c \in mask /\ c \in ConnId
    BY <2>3 DEF SlotsOn, Lowest, TypeOK, TypeApi
  <2> QED BY <2>4 DEF Connected
<1> HIDE DEF Inv, Act
<1>2. Spec => []Inv
  BY MaskedIsDown DEF Inv
<1>3. Spec => [][Act]_vars
  BY <1>1, <1>2, TypeCorrect, PTL
<1> QED BY <1>3 DEF Act, OnlyLostLinksFreed

-----------------------------------------------------------------------------
(* The link of a slot, and the one the mailbox names, is up or in the mask. *)
LEMMA LossKept == Spec => []LossInv
<1>1. Init => LossInv
  BY Records DEF Init, LossInv, MaskInv, SlotsKnowLoss, Used
<1>2. TypeOK /\ SlotInv /\ LossInv /\ [Next]_vars => LossInv'
  <2> SUFFICES ASSUME TypeOK, SlotInv, MaskInv, [Next]_vars, "preempt" \notin env
               PROVE  MaskInv'
    BY EnvKept DEF LossInv
  <2> USE DEF MaskInv
  <2>2. ASSUME UNCHANGED <<conns, link, discMask, mask>>
        PROVE  SlotsKnowLoss' <=> SlotsKnowLoss
    BY <2>2 DEF SlotsKnowLoss, Used, Linked
  <2>3. ASSUME UNCHANGED <<conns, link, discMask, mask>>,
               apiPc' \in {"accept", "svc", "recv", "reset"},
               apiPc \notin {"svcClear", "svcFree"}
        PROVE  MaskInv'
    BY <2>2, <2>3
  <2>4. ASSUME UNCHANGED <<conns, link, discMask, mask, apiPc, req, pendConnId>>
        PROVE  MaskInv'
    BY <2>2, <2>4 DEF Linked
  <2>5. CASE \/ ClientConnects \/ ClientLeaves \/ SvcSkip \/ NoFrame
             \/ AnswerDisconnect \/ AnswerFailed
             \/ \E a \in Addr : RequestConnect(a)
    BY <2>3, <2>5 DEF ClientConnects, ClientLeaves, SvcSkip, NoFrame,
       AnswerDisconnect, AnswerFailed, RequestConnect, stack
  <2>6. CASE \/ SubscribeConnectionsFree \/ \E a \in Addr : RequestRefused(a)
             \/ ResumeScan \/ TakeOp \/ ConnectBegin \/ GiveUp \/ Cancel
             \/ Clear \/ Give \/ Away \/ UNCHANGED vars
    BY <2>4, <2>6 DEF SubscribeConnectionsFree, RequestRefused, ResumeScan,
       TakeOp, ConnectBegin, GiveUp, Cancel, Clear, Give, Away, Stall,
       ScanWatchdog, vars, apiVars, mailbox, stack
  <2>7. CASE SvcRead
    <3>1. /\ UNCHANGED <<conns, link, discMask>> /\ mask' = discMask
          /\ mask = {} /\ apiPc' = "svcClear"
      BY <2>7 DEF SvcRead, stack
    <3>2. SlotsKnowLoss'
      BY <3>1 DEF SlotsKnowLoss, Used, Linked
    <3> QED BY <3>1, <3>2
  <2>8. CASE SvcClear
    <3>1. /\ UNCHANGED <<conns, link, mask>> /\ discMask' = {}
          /\ discMask \subseteq mask /\ apiPc' = "svcFree"
      BY <2>8 DEF SvcClear, stack
    <3>2. SlotsKnowLoss'
      BY <3>1 DEF SlotsKnowLoss, Used, Linked
    <3> QED BY <3>1, <3>2
  <2>9. CASE SvcFree
    <3>1. PICK c \in Lowest(mask) :
              /\ mask' = mask \ {c}
              /\ \/ SlotsOn(c) = {} /\ UNCHANGED conns
                 \/ \E s \in Lowest(SlotsOn(c)) : conns' = [conns EXCEPT ![s] = Free]
      BY <2>9 DEF SvcFree
    <3>2. UNCHANGED <<link, discMask, apiPc>> /\ apiPc = "svcFree"
      BY <2>9 DEF SvcFree, stack
    <3>3. \A t \in Slots : Used(t)' =>
              Used(t) /\ conns'[t] = conns[t] /\ conns[t].connId # c
      <4>1. CASE SlotsOn(c) = {} /\ UNCHANGED conns
        BY <4>1 DEF SlotsOn, Used
      <4>2. ASSUME NEW s \in Lowest(SlotsOn(c)),
                   conns' = [conns EXCEPT ![s] = Free]
            PROVE  \A t \in Slots : Used(t)' =>
                      Used(t) /\ conns'[t] = conns[t] /\ conns[t].connId # c
        <5>1. s \in Slots /\ Used(s) /\ conns[s].connId = c
          BY DEF Lowest, SlotsOn
        <5>2. ~Used(s)' /\ \A t \in Slots \ {s} : conns'[t] = conns[t]
          BY <4>2, <5>1, Records DEF TypeOK, TypeSlots, Used
        <5> QED
          BY <5>1, <5>2 DEF SlotInv, SlotConnIdUnique, Used
      <4> QED BY <3>1, <4>1, <4>2
    <3>4. SlotsKnowLoss'
      BY <3>1, <3>2, <3>3 DEF SlotsKnowLoss, Linked
    <3> QED BY <3>2, <3>4
  <2>10. CASE SvcTail
    <3>1. UNCHANGED <<conns, link, discMask, mask>> /\ mask = {} /\ apiPc' = "recv"
      BY <2>10 DEF SvcTail, stack
    <3> QED BY <2>2, <3>1
  <2>11. ASSUME NEW a \in Addr, RequestDisconnect(a) PROVE MaskInv'
    <3>1. /\ UNCHANGED <<conns, link, discMask, mask>>
          /\ apiPc = "recv" /\ apiPc' = "arm" /\ req'.op = "disconnect"
      BY <2>11 DEF RequestDisconnect, stack
    <3> QED BY <2>2, <3>1
  <2>12. CASE ResetAnswer
    <3>1. /\ UNCHANGED <<conns, link, discMask, mask>> /\ pendConnId' = None
          /\ apiPc = "reset" /\ apiPc' = "arm"
      BY <2>12 DEF ResetAnswer, stack
    <3> QED BY <2>2, <3>1
  <2>13. CASE Arm \/ Take \/ TimeOut
    <3>1. /\ UNCHANGED <<conns, link, discMask, mask, req, pendConnId>>
          /\ apiPc \in {"arm", "wait"} /\ apiPc' \in {"wait", "woke"}
      BY <2>13 DEF Arm, Take, TimeOut, stack, mailbox
    <3> QED BY <2>2, <3>1 DEF Linked
  <2>14. CASE AnswerConnected
    <3>1. /\ UNCHANGED <<link, discMask, mask>> /\ apiPc' = "recv" /\ mask = {}
          /\ conns' = [conns EXCEPT ![slot] = [address |-> req.address,
                                               connId |-> pendConnId]]
          /\ Linked(pendConnId) \/ pendConnId \in discMask
      BY <2>14 DEF AnswerConnected, stack
    <3>2. /\ \A t \in Slots \ {slot} : conns'[t] = conns[t]
          /\ slot \in Slots => conns'[slot].connId = pendConnId
      BY <3>1 DEF TypeOK, TypeSlots
    <3>3. SlotsKnowLoss'
      BY <3>1, <3>2 DEF SlotsKnowLoss, Used, Linked
    <3> QED BY <3>1, <3>3
  <2>15. CASE LinkFound
    <3>1. /\ UNCHANGED <<conns, link, discMask, mask, apiPc, req>>
          /\ Linked(pendConnId')
      BY <2>15 DEF LinkFound, Candidates, Connected, stack, apiVars
    <3> QED BY <2>2, <3>1 DEF Linked
  <2>16. CASE Disconnect
    <3>1. /\ UNCHANGED <<link, discMask, mask, apiPc, req, pendConnId>>
          /\ UNCHANGED conns \/ \E s \in Slots : conns' = [conns EXCEPT ![s] = Free]
      BY <2>16 DEF Disconnect, apiVars, Lowest, SlotsOf
    <3>2. \A t \in Slots : Used(t)' => Used(t) /\ conns'[t] = conns[t]
      BY <3>1, Records DEF Used, TypeOK, TypeSlots
    <3>3. SlotsKnowLoss'
      BY <3>1, <3>2 DEF SlotsKnowLoss, Linked
    <3> QED BY <3>1, <3>3 DEF Linked
  <2>17. ASSUME NEW c \in ConnId, LinkUp(c) PROVE MaskInv'
    <3>1. UNCHANGED <<conns, discMask, mask, apiPc, req, pendConnId>>
      BY <2>17 DEF LinkUp, apiVars, mailbox
    <3>2. \A d \in ConnId : Linked(d) => Linked(d)'
      BY <2>17 DEF LinkUp, Linked, TypeOK, TypeStack
    <3>3. \A s \in Slots : Used(s) => conns[s].connId \in ConnId
      BY Records DEF Used, TypeOK, TypeSlots
    <3>4. SlotsKnowLoss'
      BY <3>1, <3>2, <3>3 DEF SlotsKnowLoss, Used, Linked
    <3>5. pendConnId # None => pendConnId \in ConnId
      BY DEF TypeOK, TypeMailbox
    <3> QED BY <3>1, <3>2, <3>4, <3>5 DEF Linked
  <2>18. ASSUME NEW c \in ConnId, LinkDrop(c) PROVE MaskInv'
    <3>1. /\ UNCHANGED <<conns, mask, apiPc, req, pendConnId>>
          /\ discMask' = discMask \cup {c} /\ apiPc # "svcClear"
      BY <2>18 DEF LinkDrop, apiVars, mailbox
    <3>2. \A d \in ConnId : Linked(d) => Linked(d)' \/ d = c
      BY <2>18 DEF LinkDrop, Linked, TypeOK, TypeStack
    <3>3. \A s \in Slots : Used(s) => conns[s].connId \in ConnId
      BY Records DEF Used, TypeOK, TypeSlots
    <3>4. SlotsKnowLoss'
      BY <3>1, <3>2, <3>3 DEF SlotsKnowLoss, Used, Linked
    <3>5. pendConnId # None => pendConnId \in ConnId
      BY DEF TypeOK, TypeMailbox
    <3> QED BY <3>1, <3>2, <3>4, <3>5 DEF Linked
  <2>19. CASE Reboot
    BY <2>19, Records DEF Reboot, SlotsKnowLoss, Used
  <2> QED
    BY <2>5, <2>6, <2>7, <2>8, <2>9, <2>10, <2>11, <2>12, <2>13, <2>14, <2>15,
       <2>16, <2>17, <2>18, <2>19 DEF Next, Client, ApiStep, LoopStep, Stack
<1> QED BY <1>1, <1>2, Invariance, PTL DEF Spec

(* If no link is lost between the API task's read of the mask and the store *)
(* that clears it, no loss of a link with a slot is ever forgotten.         *)
THEOREM NoLossForgotten == Spec => []LossRemembered
<1>1. LossInv => LossRemembered
  BY DEF LossInv, MaskInv, LossRemembered
<1> QED BY <1>1, LossKept, PTL

-----------------------------------------------------------------------------
(* What the client is told of the slots is so, whatever happens; and, as    *)
(* long as neither task is held up, slots and links are the same picture.   *)


(* Freeing a slot leaves the others as they are.                            *)
LEMMA Freed ==
    ASSUME TypeOK, NEW s \in Slots, conns' = [conns EXCEPT ![s] = Free]
    PROVE  /\ ~Used(s)'
           /\ \A t \in Slots \ {s} : conns'[t] = conns[t] /\ (Used(t)' <=> Used(t))
           /\ \A t \in Slots : Used(t)' => t # s /\ Used(t) /\ conns'[t] = conns[t]
BY Records DEF TypeOK, TypeSlots, Used

(* Filling a slot leaves the others as they are.                            *)
LEMMA Filled ==
    ASSUME TypeOK, ConnectPending, AnswerConnected
    PROVE  /\ slot \in Slots /\ req.address \in Addr /\ pendConnId \in ConnId
           /\ conns'[slot].address = req.address /\ conns'[slot].connId = pendConnId
           /\ req.address # None
           /\ \A t \in Slots \ {slot} : conns'[t] = conns[t] /\ (Used(t)' <=> Used(t))
<1>1. slot \in Slots /\ req.address \in Addr /\ pendConnId \in ConnId
  BY DEF AnswerConnected, ConnectPending, TypeOK, TypeMailbox
<1>2. /\ conns'[slot] = [address |-> req.address, connId |-> pendConnId]
      /\ \A t \in Slots \ {slot} : conns'[t] = conns[t]
  BY <1>1 DEF AnswerConnected, TypeOK, TypeSlots
<1>3. /\ conns'[slot].address = req.address /\ conns'[slot].connId = pendConnId
      /\ req.address # None
  BY <1>1, <1>2, NoneAssumption
<1> QED BY <1>1, <1>2, <1>3 DEF Used

-----------------------------------------------------------------------------
(* What the client is told.                                                 *)

LEMMA ViewStep ==
    ASSUME TypeOK, SlotInv, ViewInv, [Next]_vars
    PROVE  ViewInv'
<1> USE DEF ViewInv, Busy, Disconnecting
<1>1. ASSUME UNCHANGED <<conns, mailbox, req, slot, loopVars>>, view' \subseteq view,
             ~Busy, ~Busy'
      PROVE  ViewInv'
  BY <1>1, TableKept DEF mailbox, loopVars
<1>2. ASSUME UNCHANGED <<conns, mailbox, apiPc, req, slot, loopVars, view>>
      PROVE  ViewInv'
  BY <1>2, TableKept DEF mailbox, loopVars, Used
<1>3. CASE \/ ClientConnects \/ ClientLeaves \/ SubscribeConnectionsFree
           \/ SvcSkip \/ SvcRead \/ SvcClear \/ SvcTail \/ NoFrame
           \/ \E a \in Addr : RequestRefused(a)
  BY <1>1, <1>3 DEF ClientConnects, ClientLeaves, SubscribeConnectionsFree,
     SvcSkip, SvcRead, SvcClear, SvcTail, NoFrame, RequestRefused, apiVars, told
<1>4. CASE ResumeScan \/ Stall \/ Stack \/ UNCHANGED vars
  BY <1>2, <1>4 DEF ResumeScan, Stall, Stack, LinkUp, LinkDrop, vars, apiVars, told
<1>5. CASE SvcFree
  <2>1. /\ UNCHANGED <<mailbox, req, slot, loopVars, apiPc>> /\ apiPc = "svcFree"
        /\ \/ UNCHANGED <<conns, view>>
           \/ \E s \in Slots : /\ conns' = [conns EXCEPT ![s] = Free]
                               /\ view' = view \ {conns[s].address}
    BY <1>5 DEF SvcFree, Lowest, SlotsOn
  <2>2. CASE UNCHANGED conns /\ UNCHANGED view
    BY <1>2, <2>1, <2>2
  <2>3. ASSUME NEW s \in Slots, conns' = [conns EXCEPT ![s] = Free],
               view' = view \ {conns[s].address}
        PROVE  ViewInv'
    <3>1. \A t \in Slots : Used(t) /\ t # s => Used(t)' /\ conns'[t] = conns[t]
      BY <2>3, Freed
    <3>2. ASSUME NEW a \in view'
          PROVE  SlotsOf(a)' # {}
      <4>1. PICK t \in Slots : Used(t) /\ conns[t].address = a
        BY <2>1, <2>3 DEF SlotsOf
      <4>2. t # s
        BY <2>3, <4>1
      <4> QED BY <3>1, <4>1, <4>2 DEF SlotsOf
    <3> QED BY <2>1, <2>3, <3>2 DEF mailbox, loopVars
  <2> QED BY <2>1, <2>2, <2>3
<1>6. ASSUME NEW a \in Addr, RequestDisconnect(a) PROVE ViewInv'
  <2>1. /\ apiPc = "recv" /\ apiPc' = "arm" /\ pendAddr' = a
        /\ req' = [op |-> "disconnect", address |-> a] /\ UNCHANGED <<conns, view>>
    BY <1>6 DEF RequestDisconnect, told
  <2> QED BY <2>1, TableKept
<1>7. ASSUME NEW a \in Addr, RequestConnect(a) PROVE ViewInv'
  <2>1. /\ apiPc = "recv" /\ apiPc' = "reset" /\ pendAddr' = a
        /\ req' = [op |-> "connect", address |-> a] /\ UNCHANGED <<conns, view>>
        /\ slot' \in SlotsOf(a) \cup FreeSlots
    BY <1>7 DEF RequestConnect, told, Lowest
  <2>2. ~Used(slot') \/ conns[slot'].address = a
    BY <2>1 DEF SlotsOf, FreeSlots
  <2> QED BY <2>1, <2>2, TableKept DEF Used
<1>8. CASE ResetAnswer \/ Arm \/ Take \/ TimeOut
  <2>1. /\ UNCHANGED <<conns, pendAddr, req, slot, loopVars, view>> /\ Busy /\ Busy'
        /\ \/ apiPc' = "arm" /\ pendConnId' = None /\ pendOp' = pendOp
           \/ apiPc = "arm" /\ apiPc' = "wait" /\ pendConnId' = pendConnId /\ pendOp' = req.op
           \/ apiPc = "wait" /\ apiPc' = "woke" /\ pendConnId' = pendConnId /\ pendOp' = pendOp
    BY <1>8 DEF ResetAnswer, Arm, Take, TimeOut, mailbox, told
  <2> QED BY <2>1, TableKept DEF loopVars, Used
<1>9. CASE AnswerDisconnect \/ AnswerFailed
  <2>1. /\ UNCHANGED <<conns, mailbox, loopVars>> /\ apiPc = "woke" /\ apiPc' = "recv"
        /\ view' = view \ {req.address}
    BY <1>9 DEF AnswerDisconnect, AnswerFailed
  <2> QED BY <2>1, TableKept DEF mailbox, loopVars
<1>10. CASE AnswerConnected
  <2>1. /\ UNCHANGED <<mailbox, loopVars>> /\ apiPc = "woke" /\ apiPc' = "recv"
        /\ req.op = "connect" /\ pendConnId # None
        /\ view' = view \cup {req.address}
    BY <1>10 DEF AnswerConnected
  <2>2. ASSUME NEW a \in view'
        PROVE  SlotsOf(a)' # {}
    <3>1. CASE a = req.address
      BY <1>10, <3>1, Filled DEF SlotInv, SlotsOf, Used
    <3>2. CASE a # req.address
      <4>1. PICK t \in Slots : Used(t) /\ conns[t].address = a
        BY <2>1, <3>2 DEF SlotsOf
      <4>2. t # slot
        BY <2>1, <3>2, <4>1
      <4> QED BY <1>10, <4>1, <4>2, Filled DEF SlotInv, SlotsOf
    <3> QED BY <3>1, <3>2
  <2> QED BY <2>1, <2>2 DEF mailbox, loopVars
<1>11. CASE TakeOp \/ ConnectBegin \/ GiveUp \/ Cancel \/ Clear \/ Give \/ ScanWatchdog
  <2>1. /\ UNCHANGED <<conns, pendAddr, pendConnId, apiPc, req, slot, view>>
        /\ \/ loopPc = "poll" /\ pendOp' = pendOp /\ loopPc' = "run" /\ runOp' = pendOp
           \/ loopPc # "clear" /\ pendOp' = pendOp /\ loopPc' # "run"
           \/ pendOp' = "none" /\ loopPc' # "run"
    BY <1>11 DEF TakeOp, ConnectBegin, GiveUp, Cancel, Clear, Give, ScanWatchdog,
       apiVars, mailbox, told
  <2> QED BY <2>1, TableKept DEF Used
<1>12. CASE LinkFound
  <2>1. /\ UNCHANGED <<conns, pendOp, pendAddr, apiPc, req, slot, view>>
        /\ loopPc' = "clear"
    BY <1>12 DEF LinkFound, apiVars, told
  <2> QED BY <2>1, TableKept DEF Used
<1>13. CASE Disconnect
  <2>1. /\ UNCHANGED <<pendOp, pendAddr, pendConnId, apiPc, req, slot, view>>
        /\ loopPc' = "clear" /\ Disconnecting
        /\ \/ UNCHANGED conns
           \/ \E s \in SlotsOf(pendAddr) : conns' = [conns EXCEPT ![s] = Free]
    BY <1>13 DEF Disconnect, apiVars, told, Lowest
  <2>2. CASE UNCHANGED conns
    BY <2>1, <2>2, TableKept DEF Used
  <2>3. ASSUME NEW s \in SlotsOf(pendAddr), conns' = [conns EXCEPT ![s] = Free]
        PROVE  ViewInv'
    <3>1. s \in Slots /\ conns[s].address = pendAddr
      BY DEF SlotsOf
    <3>2. \A t \in Slots : Used(t) /\ t # s => Used(t)' /\ conns'[t] = conns[t]
      BY <2>3, <3>1, Freed
    <3>3. \A t \in Slots : Used(t)' => Used(t) /\ conns'[t] = conns[t]
      BY <2>3, <3>1, Freed
    <3>4. ASSUME NEW a \in view, a # pendAddr, SlotsOf(a) # {}
          PROVE  SlotsOf(a)' # {}
      <4>1. PICK t \in Slots : Used(t) /\ conns[t].address = a
        BY <3>4 DEF SlotsOf
      <4> QED BY <3>1, <3>2, <3>4, <4>1 DEF SlotsOf
    <3>5. \A a \in view : SlotsOf(a)' # {} \/ (Busy' /\ a = req'.address)
      BY <2>1, <3>4
    <3>6. Busy /\ req.op = "connect" => slot \in Slots
      BY DEF SlotInv, ConnectPending
    <3> QED BY <2>1, <3>3, <3>5, <3>6
  <2> QED BY <2>1, <2>2, <2>3
<1>14. CASE Reboot
  BY <1>14 DEF Reboot
<1> QED
  BY <1>3, <1>4, <1>5, <1>6, <1>7, <1>8, <1>9, <1>10, <1>11, <1>12, <1>13, <1>14
     DEF Next, Client, ApiStep, LoopStep, Away

(* The count of free slots last told is that of now, but while an operation *)
(* or serviceDisconnects is under way.                                      *)
LEMMA FreeToldStep ==
    ASSUME TypeOK, SlotInv, MailboxInv, FreeToldInv, [Next]_vars
    PROVE  FreeToldInv'
<1> SUFFICES ASSUME "stall" \notin env
             PROVE  FreeToldInv'
  BY EnvKept DEF FreeToldInv
<1> USE DEF FreeToldInv
<1>1. ASSUME UNCHANGED conns
      PROVE  FreeSlots' = FreeSlots
  BY <1>1, TableKept DEF FreeSlots
<1>2. ASSUME UNCHANGED <<conns, freeTold>>, apiPc \notin {"svcFree", "wait", "woke"}
      PROVE  FreeToldInv'
  BY <1>1, <1>2
<1>3. ASSUME UNCHANGED conns, freeTold' = Cardinality(FreeSlots)
      PROVE  FreeToldInv'
  BY <1>1, <1>3
<1>4. CASE ClientConnects \/ Reboot
  BY <1>4 DEF ClientConnects, Reboot
<1>5. CASE \/ ClientLeaves \/ SvcSkip \/ SvcRead \/ SvcClear \/ NoFrame \/ ResetAnswer
           \/ Arm
           \/ \E a \in Addr : RequestDisconnect(a) \/ RequestConnect(a) \/ RequestRefused(a)
  BY <1>2, <1>5 DEF ClientLeaves, SvcSkip, SvcRead, SvcClear, NoFrame, ResetAnswer, Arm,
     RequestDisconnect, RequestConnect, RequestRefused, told
<1>6. CASE SubscribeConnectionsFree \/ SvcTail \/ AnswerDisconnect \/ AnswerFailed
  BY <1>3, <1>6 DEF SubscribeConnectionsFree, SvcTail, AnswerDisconnect, AnswerFailed
<1>7. CASE SvcFree \/ Take \/ TimeOut
  BY <1>7 DEF SvcFree, Take, TimeOut
<1>8. CASE AnswerConnected
  <2>1. FreeSlots' = FreeSlots \ {slot}
    BY <1>8, Filled DEF SlotInv, FreeSlots, Used
  <2> QED BY <1>8, <2>1 DEF AnswerConnected
<1>9. CASE LoopStep \/ Away \/ Stack \/ UNCHANGED vars
  <2>1. apiPc' = apiPc /\ freeTold' = freeTold
    BY <1>9 DEF LoopStep, ResumeScan, TakeOp, ConnectBegin, LinkFound, GiveUp, Cancel,
       Disconnect, Clear, Give, Away, Stall, ScanWatchdog, Stack, LinkUp, LinkDrop,
       vars, apiVars, told
  <2>2. CASE UNCHANGED conns
    BY <1>1, <2>1, <2>2
  <2>3. CASE Disconnect
    BY <2>1, <2>3 DEF Disconnect, MailboxInv
  <2> QED
    BY <1>9, <2>2, <2>3 DEF LoopStep, ResumeScan, TakeOp, ConnectBegin, LinkFound,
       GiveUp, Cancel, Clear, Give, Away, Stall, ScanWatchdog, Stack, LinkUp,
       LinkDrop, vars
<1> QED
  BY <1>4, <1>5, <1>6, <1>7, <1>8, <1>9 DEF Next, Client, ApiStep

(* Between two requests, what the client was last told is so: each address  *)
(* it believes connected has a slot, whatever happens; and the number of    *)
(* free slots is what it is, when no operation outlives its request.        *)
THEOREM ToldIsSo == Spec => []ToldIsTrue
<1>1. Init => ViewInv /\ FreeToldInv
  BY DEF Init, ViewInv, FreeToldInv, Busy
<1>2. TypeOK /\ SlotInv /\ MailboxInv /\ ViewInv /\ FreeToldInv /\ [Next]_vars
          => ViewInv' /\ FreeToldInv'
  BY ViewStep, FreeToldStep
<1>3. ViewInv /\ FreeToldInv => ToldIsTrue
  BY DEF ViewInv, FreeToldInv, ToldIsTrue, ViewHasSlot, FreeToldIsFree, Busy
<1> QED BY <1>1, <1>2, <1>3, Invariance, MailboxKept, PTL DEF Spec

-----------------------------------------------------------------------------
(* Slots and links.                                                         *)

(* As long as neither task is held up, loop() works for the request that    *)
(* waits.                                                                   *)
LEMMA OperationStep ==
    ASSUME TypeOK, MailboxInv, ViewInv, OperationInv, LinkInv, [Next]_vars
    PROVE  OperationInv'
<1> SUFFICES ASSUME Calm
             PROVE  OperationInv'
  BY EnvKept DEF OperationInv, Calm
<1>1. /\ "stall" \notin env /\ "late" \notin env
      /\ ~overdue
      /\ apiPc # "wait" => loopPc = "poll" /\ pendOp = "none"
      /\ apiPc \in {"reset", "arm"} => req.op # "none"
  BY DEF Calm, MailboxInv
<1>2. Busy => pendAddr = req.address /\ req.op # "none"
  BY DEF ViewInv
<1> USE DEF OperationInv
<1>3. CASE \/ ClientConnects \/ ClientLeaves \/ SubscribeConnectionsFree
           \/ SvcSkip \/ SvcRead \/ SvcClear \/ SvcFree \/ SvcTail \/ NoFrame
           \/ AnswerDisconnect \/ AnswerConnected \/ AnswerFailed
           \/ \E a \in Addr : RequestConnect(a) \/ RequestRefused(a)
  <2>1. /\ UNCHANGED <<pendOp, pendOk, loopVars, creating>> /\ apiPc # "wait"
        /\ apiPc' \notin {"arm", "wait"}
    BY <1>3 DEF ClientConnects, ClientLeaves, SubscribeConnectionsFree, SvcSkip, SvcRead,
       SvcClear, SvcFree, SvcTail, NoFrame, AnswerDisconnect, AnswerConnected,
       AnswerFailed, RequestConnect, RequestRefused, apiVars, mailbox, stack
  <2> QED BY <1>1, <2>1 DEF loopVars
<1>4. ASSUME NEW a \in Addr, RequestDisconnect(a) PROVE OperationInv'
  <2>1. /\ UNCHANGED <<pendOp, pendOk, loopVars, creating>> /\ apiPc = "recv"
        /\ apiPc' = "arm" /\ req'.op = "disconnect"
    BY <1>4 DEF RequestDisconnect, stack
  <2> QED BY <1>1, <2>1 DEF loopVars
<1>5. CASE ResetAnswer
  <2>1. /\ UNCHANGED <<pendOp, loopVars, creating>> /\ apiPc = "reset"
        /\ apiPc' = "arm" /\ pendOk' = FALSE
    BY <1>5 DEF ResetAnswer, stack
  <2> QED BY <1>1, <2>1 DEF loopVars
<1>6. CASE Arm
  <2>1. /\ UNCHANGED <<req, loopVars, creating>> /\ apiPc = "arm" /\ apiPc' = "wait"
        /\ pendOp' = req.op /\ (req.op = "connect" => pendOk' = pendOk)
    BY <1>6 DEF Arm, stack
  <2> QED BY <1>1, <2>1 DEF loopVars
<1>7. CASE Take \/ TimeOut
  <2>1. /\ UNCHANGED <<req, pendOp, pendOk, loopVars, creating>> /\ opSem
        /\ apiPc' = "woke"
    BY <1>1, <1>7 DEF Take, TimeOut, stack, mailbox
  <2>2. loopPc = "poll"
    BY <1>1, <2>1 DEF MailboxInv
  <2> QED BY <2>1, <2>2 DEF loopVars
<1>8. CASE ResumeScan \/ UNCHANGED vars
  BY <1>8 DEF ResumeScan, vars, apiVars, loopVars, mailbox, stack
<1>9. CASE TakeOp
  <2>1. /\ UNCHANGED <<req, pendOp, pendOk, creating, apiPc>> /\ pendOp # "none"
        /\ loopPc = "poll" /\ loopPc' = "run" /\ runOp' = pendOp
    BY <1>9 DEF TakeOp, stack, apiVars, mailbox
  <2> QED BY <1>1, <2>1
<1>10. CASE ConnectBegin
  <2>1. /\ UNCHANGED <<req, pendOp, pendOk, apiPc>> /\ bd' = pendAddr /\ creating' = pendAddr
        /\ loopPc = "run" /\ runOp = "connect" /\ loopPc' = "linking"
    BY <1>10 DEF ConnectBegin, apiVars, mailbox
  <2> QED BY <1>1, <1>2, <2>1 DEF Busy
<1>11. CASE LinkFound
  <2>1. /\ UNCHANGED <<req, pendOp, apiPc, creating>> /\ loopPc = "linking" /\ loopPc' = "clear"
    BY <1>11 DEF LinkFound, apiVars, stack
  <2>2. PICK c \in ConnId : Loose(c)
    BY <1>11 DEF LinkFound, Candidates, Loose
  <2>3. ~Made
    BY <1>1, <1>2, <2>1 DEF Made, Busy
  <2>4. creating = None
    BY <2>2, <2>3 DEF LinkInv
  <2> QED BY <1>1, <2>1, <2>4
<1>12. CASE GiveUp \/ Cancel
  <2>1. UNCHANGED <<req, pendOp, apiPc, bd>> /\ loopPc # "clear"
    BY <1>12 DEF GiveUp, Cancel, apiVars, mailbox
  <2> QED BY <1>1, <1>12, <2>1 DEF GiveUp, Cancel, stack, mailbox
<1>13. CASE Disconnect \/ Clear \/ Give
  <2> QED BY <1>1, <1>13 DEF Disconnect, Clear, Give, apiVars, stack, mailbox
<1>14. CASE Away
  BY <1>1, <1>14 DEF Away, Stall, ScanWatchdog
<1>15. CASE Stack
  BY <1>15 DEF Stack, LinkUp, LinkDrop, apiVars, loopVars, mailbox
<1>16. CASE Reboot
  BY <1>16 DEF Reboot
<1> QED
  BY <1>3, <1>4, <1>5, <1>6, <1>7, <1>8, <1>9, <1>10, <1>11, <1>12, <1>13, <1>14,
     <1>15, <1>16 DEF Next, Client, ApiStep, LoopStep

(* Each slot's link is its address's or lost, and a link without a slot is  *)
(* the one a connect is setting up.                                         *)
LEMMA LinkStep ==
    ASSUME TypeOK, SlotInv, MailboxInv, MaskInv, ViewInv, OperationInv, LinkInv,
           \A c \in ConnId : c \in discMask \cup mask => ~Linked(c),
           [Next]_vars
    PROVE  LinkInv'
<1> SUFFICES ASSUME Calm
             PROVE  LinkInv'
  BY EnvKept DEF LinkInv, Calm
<1>1. /\ "late" \notin env /\ "reuse" \notin env /\ "stall" \notin env
      /\ ~overdue
      /\ apiPc # "wait" => loopPc = "poll" /\ pendOp = "none"
      /\ Busy => pendAddr = req.address /\ req.op # "none"
  BY DEF Calm, MailboxInv, ViewInv
<1>2. /\ SlotMatchesLink
      /\ \A c, d \in ConnId : Linked(c) /\ link[c] = link[d] => c = d
      /\ \A c \in ConnId : Loose(c) =>
             \/ loopPc = "linking" /\ creating = None /\ link[c] = bd
             \/ Made /\ pendConnId = c
      /\ Made => /\ link[pendConnId] \in {req.address, None}
                 /\ Used(slot) => ~Linked(conns[slot].connId)
  BY DEF LinkInv
<1>3. loopPc \in {"run", "linking", "cancel"} => ~Made
  BY <1>1 DEF OperationInv, Made, Busy
(* What the picture is made of, in a step that leaves it alone.             *)
<1>4. ASSUME UNCHANGED <<conns, link, closing>>
      PROVE  /\ \A c \in ConnId : Loose(c)' <=> Loose(c)
             /\ \A c \in ConnId : Linked(c)' <=> Linked(c)
             /\ discMask' \cup mask' = discMask \cup mask => SlotMatchesLink'
  BY <1>2, <1>4 DEF Loose, Connected, Linked, SlotsOn, SlotMatchesLink, Used
<1>5. ASSUME UNCHANGED <<conns, link, closing, loopPc, creating, bd>>,
             discMask' \cup mask' = discMask \cup mask, ~Made, ~Made'
      PROVE  LinkInv'
  <2>1. \A c, d \in ConnId : Linked(c)' /\ link'[c] = link'[d] => c = d
    BY <1>2, <1>5 DEF Linked
  <2>2. \A c \in ConnId : Loose(c)' => loopPc' = "linking" /\ creating' = None /\ link'[c] = bd'
    BY <1>2, <1>4, <1>5
  <2> QED BY <1>4, <1>5, <2>1, <2>2 DEF LinkInv
<1>6. ASSUME UNCHANGED <<conns, link, closing, discMask, mask, req, slot, pendOk, pendConnId>>,
             \/ UNCHANGED <<loopPc, creating, bd>>
             \/ loopPc # "linking" /\ loopPc' # "linking",
             apiPc' = apiPc \/ {apiPc, apiPc'} \subseteq {"wait", "woke"}
      PROVE  LinkInv'
  <2>1. Made' <=> Made
    BY <1>6 DEF Made
  <2>2. \A c, d \in ConnId : Linked(c)' /\ link'[c] = link'[d] => c = d
    BY <1>2, <1>6 DEF Linked
  <2>3. \A c \in ConnId : Loose(c)' =>
            \/ loopPc' = "linking" /\ creating' = None /\ link'[c] = bd'
            \/ Made' /\ pendConnId' = c
    BY <1>2, <1>4, <1>6, <2>1
  <2>4. Made' => /\ link'[pendConnId'] \in {req'.address, None}
                 /\ Used(slot)' => ~Linked(conns[slot].connId)'
    BY <1>2, <1>6, <2>1 DEF Used, Linked
  <2> QED BY <1>4, <1>6, <2>2, <2>3, <2>4 DEF LinkInv
<1>7. CASE \/ ClientConnects \/ ClientLeaves \/ SvcSkip \/ SvcRead \/ SvcClear \/ SvcTail
           \/ NoFrame \/ ResetAnswer \/ AnswerDisconnect
           \/ \E a \in Addr : RequestDisconnect(a) \/ RequestConnect(a)
  <2>1. /\ UNCHANGED <<conns, link, closing, loopPc, creating, bd>>
        /\ apiPc' \notin {"wait", "woke"} /\ (apiPc \notin {"wait", "woke"} \/ req.op = "disconnect")
    BY <1>7 DEF ClientConnects, ClientLeaves, SvcSkip, SvcRead, SvcClear, SvcTail, NoFrame,
       ResetAnswer, AnswerDisconnect, RequestDisconnect, RequestConnect, loopVars, stack
  <2>2. discMask' \cup mask' = discMask \cup mask
    BY <1>7 DEF ClientConnects, ClientLeaves, SvcSkip, SvcRead, SvcClear, SvcTail, NoFrame,
       ResetAnswer, AnswerDisconnect, RequestDisconnect, RequestConnect, apiVars, MaskInv
  <2>3. ~Made /\ ~Made'
    BY <2>1 DEF Made
  <2> QED BY <1>5, <2>1, <2>2, <2>3
<1>8. CASE AnswerFailed
  <2>1. /\ UNCHANGED <<conns, link, closing, loopPc, creating, bd, discMask, mask>>
        /\ apiPc' = "recv" /\ ~Made
    BY <1>8 DEF AnswerFailed, loopVars, stack, Made
  <2>2. ~Made'
    BY <2>1 DEF Made
  <2> QED BY <1>5, <2>1, <2>2
<1>9. CASE Arm
  <2>1. /\ UNCHANGED <<conns, link, closing, loopPc, creating, bd, discMask, mask, req>>
        /\ apiPc = "arm" /\ (req.op = "connect" => pendOk' = pendOk)
    BY <1>9 DEF Arm, loopVars, stack
  <2>2. ~Made /\ ~Made'
    BY <2>1 DEF Made, OperationInv
  <2> QED BY <1>5, <2>1, <2>2
<1>10. CASE \/ Take \/ TimeOut \/ SubscribeConnectionsFree \/ ResumeScan \/ UNCHANGED vars
            \/ \E a \in Addr : RequestRefused(a)
  <2>1. /\ UNCHANGED <<conns, link, closing, discMask, mask, req, slot, pendOk, pendConnId>>
        /\ UNCHANGED <<loopPc, creating, bd>>
        /\ apiPc' = apiPc \/ {apiPc, apiPc'} \subseteq {"wait", "woke"}
    BY <1>10 DEF Take, TimeOut, SubscribeConnectionsFree, ResumeScan, RequestRefused,
       vars, apiVars, loopVars, stack, mailbox
  <2> QED BY <1>6, <2>1
<1>11. CASE TakeOp \/ Clear \/ Give
  <2>1. /\ UNCHANGED <<conns, link, closing, discMask, mask, req, slot, pendOk, pendConnId>>
        /\ loopPc # "linking" /\ loopPc' # "linking" /\ apiPc' = apiPc
    BY <1>11 DEF TakeOp, Clear, Give, apiVars, stack, mailbox
  <2> QED BY <1>6, <2>1
<1>12. CASE ConnectBegin \/ GiveUp \/ Cancel
  <2>1. /\ UNCHANGED <<conns, link, closing, discMask, mask, req, apiPc, pendConnId>>
        /\ loopPc \in {"run", "linking", "cancel"} /\ (pendOk' => pendOk)
    BY <1>12 DEF ConnectBegin, GiveUp, Cancel, apiVars, stack, mailbox
  <2>2. ~Made /\ ~Made'
    BY <1>3, <2>1 DEF Made
  <2>3. ASSUME NEW c \in ConnId PROVE ~Loose(c)
    <3>1. CASE loopPc = "linking"
      <4>1. GiveUp
        BY <1>12, <3>1 DEF ConnectBegin, Cancel
      <4>2. Candidates = {}
        BY <4>1 DEF GiveUp
      <4> QED BY <1>2, <2>2, <4>2 DEF Candidates, Loose
    <3> QED BY <1>2, <2>2, <3>1
  <2>4. \A c, d \in ConnId : Linked(c)' /\ link'[c] = link'[d] => c = d
    BY <1>2, <2>1 DEF Linked
  <2> QED BY <1>4, <2>1, <2>2, <2>3, <2>4 DEF LinkInv
<1>13. CASE Reboot
  <2>1. /\ \A c \in ConnId : link'[c] = None
        /\ \A s \in Slots : conns'[s] = Free
        /\ apiPc' = "accept"
    BY <1>13 DEF Reboot
  <2>2. \A s \in Slots : ~Used(s)'
    BY <2>1, Records DEF Used
  <2>3. \A c \in ConnId : ~Linked(c)' /\ ~Loose(c)'
    BY <2>1 DEF Linked, Loose, Connected
  <2>4. ~Made'
    BY <2>1 DEF Made
  <2> QED BY <2>2, <2>3, <2>4 DEF LinkInv, SlotMatchesLink
<1>14. CASE Away
  BY <1>1, <1>14 DEF Away, Stall, ScanWatchdog
<1>15. \A s \in Slots : Used(s) => /\ conns[s].connId \in ConnId /\ conns[s].address \in Addr
                                     /\ s \in SlotsOn(conns[s].connId)
  BY Records DEF Used, SlotsOn, TypeOK, TypeSlots
<1>16. ASSUME NEW s \in Slots, Used(s), Linked(conns[s].connId)
       PROVE  link[conns[s].connId] = conns[s].address
  BY <1>2, <1>15, <1>16 DEF SlotMatchesLink
<1>17. CASE SvcFree
  <2>1. /\ UNCHANGED <<link, closing, loopPc, creating, bd, discMask, apiPc>> /\ apiPc = "svcFree"
    BY <1>17 DEF SvcFree, stack, loopVars
  <2>2. PICK c \in Lowest(mask) :
            /\ mask' = mask \ {c}
            /\ \/ SlotsOn(c) = {} /\ UNCHANGED conns
               \/ \E s \in Lowest(SlotsOn(c)) : conns' = [conns EXCEPT ![s] = Free]
    BY <1>17 DEF SvcFree
  <2>3. c \in mask /\ c \in ConnId /\ ~Linked(c)
    BY DEF Lowest, TypeOK, TypeApi
  <2>4. \A t \in Slots : Used(t)' <=> Used(t) /\ conns[t].connId # c
    <3>1. CASE SlotsOn(c) = {} /\ UNCHANGED conns
      BY <3>1 DEF SlotsOn, Used
    <3>2. ASSUME NEW s \in SlotsOn(c), conns' = [conns EXCEPT ![s] = Free]
          PROVE  \A t \in Slots : Used(t)' <=> Used(t) /\ conns[t].connId # c
      <4>1. s \in Slots /\ Used(s) /\ conns[s].connId = c
        BY DEF SlotsOn
      <4>2. \A t \in Slots : Used(t) /\ conns[t].connId = c => t = s
        BY <4>1 DEF SlotInv, SlotConnIdUnique
      <4> QED BY <3>2, <4>1, <4>2, Freed
    <3> QED BY <2>2, <3>1, <3>2 DEF Lowest
  <2>5. \A t \in Slots : Used(t)' => conns'[t] = conns[t]
    <3>1. UNCHANGED conns \/ \E s \in Slots : conns' = [conns EXCEPT ![s] = Free]
      BY <2>2 DEF Lowest, SlotsOn
    <3> QED BY <3>1, Freed
  <2>6. SlotMatchesLink'
    BY <1>2, <2>1, <2>2, <2>4, <2>5 DEF SlotMatchesLink
  <2>7. ASSUME NEW d \in ConnId, Loose(d)' PROVE FALSE
    <3>1. Linked(d) /\ Connected(d) /\ d # c
      BY <2>1, <2>3, <2>7 DEF Loose, Connected, Linked
    <3>2. SlotsOn(d) # {}
      BY <1>1, <1>2, <2>1, <3>1 DEF Loose, Made
    <3>3. PICK t \in Slots : Used(t) /\ conns[t].connId = d
      BY <3>2 DEF SlotsOn
    <3>4. t \in SlotsOn(d)'
      BY <2>4, <2>5, <3>1, <3>3 DEF SlotsOn
    <3> QED BY <2>7, <3>4 DEF Loose
  <2>8. ~Made'
    BY <2>1 DEF Made
  <2>9. \A x, y \in ConnId : Linked(x)' /\ link'[x] = link'[y] => x = y
    BY <1>2, <2>1 DEF Linked
  <2> QED BY <2>6, <2>7, <2>8, <2>9 DEF LinkInv
<1>18. CASE AnswerConnected
  <2>1. /\ UNCHANGED <<link, closing, loopPc, discMask, mask>> /\ Made /\ apiPc = "woke"
        /\ apiPc' = "recv" /\ req.op = "connect"
    BY <1>18 DEF AnswerConnected, stack, loopVars, Made
  <2>2. /\ slot \in Slots /\ req.address \in Addr /\ pendConnId \in ConnId
        /\ conns'[slot].address = req.address /\ conns'[slot].connId = pendConnId
        /\ req.address # None
        /\ \A t \in Slots \ {slot} : conns'[t] = conns[t] /\ (Used(t)' <=> Used(t))
    BY <1>18, Filled DEF SlotInv
  <2>3. Linked(pendConnId) \/ pendConnId \in discMask
    BY <2>1 DEF MaskInv, Made
  <2>4. link[pendConnId] = req.address \/ pendConnId \in discMask
    BY <1>2, <2>1, <2>3 DEF Linked
  <2>5. SlotMatchesLink'
    BY <1>2, <2>1, <2>2, <2>4 DEF SlotMatchesLink
  <2>6. ASSUME NEW d \in ConnId, Loose(d)' PROVE FALSE
    <3>1. Linked(d) /\ Connected(d)
      BY <2>1, <2>6 DEF Loose, Connected, Linked
    <3>2. d # pendConnId
      BY <2>2, <2>6 DEF Loose, SlotsOn, Used
    <3>3. SlotsOn(d) # {}
      BY <1>1, <1>2, <2>1, <3>1, <3>2 DEF Loose
    <3>4. PICK t \in Slots : Used(t) /\ conns[t].connId = d
      BY <3>3 DEF SlotsOn
    <3>5. t # slot
      BY <1>2, <2>1, <3>1, <3>4
    <3>6. t \in SlotsOn(d)'
      BY <2>2, <3>4, <3>5 DEF SlotsOn
    <3> QED BY <2>6, <3>6 DEF Loose
  <2>7. ~Made'
    BY <2>1 DEF Made
  <2>8. \A x, y \in ConnId : Linked(x)' /\ link'[x] = link'[y] => x = y
    BY <1>2, <2>1 DEF Linked
  <2> QED BY <2>5, <2>6, <2>7, <2>8 DEF LinkInv
<1>19. CASE LinkFound
  <2>1. /\ UNCHANGED <<conns, link, closing, creating, bd, discMask, mask, req, slot, apiPc>>
        /\ loopPc = "linking" /\ loopPc' = "clear" /\ pendOk' = TRUE
    BY <1>19 DEF LinkFound, apiVars, stack
  <2>2. PICK c \in ConnId : Loose(c) /\ pendConnId' = c
    BY <1>19 DEF LinkFound, Candidates, Loose
  <2>3. /\ ~Made /\ apiPc = "wait" /\ req.op = "connect" /\ bd = req.address
    BY <1>1, <1>3, <2>1 DEF OperationInv
  <2>4. \A d \in ConnId : Loose(d) => link[d] = req.address /\ Linked(d)
    BY <1>2, <2>3 DEF Loose, Connected
  <2>5. \A d \in ConnId : Loose(d) => d = c
    BY <1>2, <2>2, <2>4
  <2>6. pendConnId' # None
    BY <2>2, NoneAssumption, MaxConnAssumption DEF ConnId
  <2>7. Made'
    BY <2>1, <2>3, <2>6 DEF Made
  <2>8. ASSUME Used(slot), Linked(conns[slot].connId) PROVE FALSE
    <3>1. slot \in Slots /\ conns[slot].address = req.address
      BY <2>3, <2>8 DEF SlotInv, ConnectPending, ViewInv, Busy
    <3>2. /\ conns[slot].connId \in ConnId /\ slot \in SlotsOn(conns[slot].connId)
          /\ link[conns[slot].connId] = req.address
      BY <1>15, <1>16, <2>8, <3>1
    <3>3. conns[slot].connId = c
      BY <1>2, <2>2, <2>4, <2>8, <3>2
    <3> QED BY <2>2, <3>2, <3>3 DEF Loose
  <2>9. \A x, y \in ConnId : Linked(x)' /\ link'[x] = link'[y] => x = y
    BY <1>2, <2>1 DEF Linked
  <2>10. \A d \in ConnId : Loose(d)' => Made' /\ pendConnId' = d
    BY <1>4, <2>1, <2>2, <2>5, <2>7
  <2>11. link'[pendConnId'] \in {req'.address, None} /\ (Used(slot)' => ~Linked(conns[slot].connId)')
    BY <2>1, <2>2, <2>4, <2>8 DEF Used, Linked
  <2> QED BY <1>4, <2>1, <2>9, <2>10, <2>11 DEF LinkInv
<1>20. CASE Disconnect
  <2>1. /\ UNCHANGED <<link, discMask, mask, req, apiPc>> /\ loopPc = "run" /\ runOp = "disconnect"
        /\ \/ UNCHANGED <<conns, closing>>
           \/ \E s \in SlotsOf(pendAddr) :
                 /\ conns' = [conns EXCEPT ![s] = Free]
                 /\ closing' = closing \cup {c \in {conns[s].connId} : Linked(c)}
    BY <1>20 DEF Disconnect, apiVars, Lowest
  <2>2. req.op = "disconnect"
    BY <2>1 DEF OperationInv
  <2>3. ~Made /\ ~Made'
    BY <2>1, <2>2 DEF Made
  <2>4. \A d \in ConnId : ~Loose(d)
    BY <1>2, <2>1, <2>3
  <2>5. \A x, y \in ConnId : Linked(x)' /\ link'[x] = link'[y] => x = y
    BY <1>2, <2>1 DEF Linked
  <2>6. CASE UNCHANGED <<conns, closing>>
    BY <1>4, <2>1, <2>3, <2>4, <2>5, <2>6 DEF LinkInv
  <2>7. ASSUME NEW s \in SlotsOf(pendAddr),
               conns' = [conns EXCEPT ![s] = Free],
               closing' = closing \cup {c \in {conns[s].connId} : Linked(c)}
        PROVE  LinkInv'
    <3>1. /\ s \in Slots
          /\ \A t \in Slots \ {s} : conns'[t] = conns[t] /\ (Used(t)' <=> Used(t))
          /\ \A t \in Slots : Used(t)' => Used(t) /\ conns'[t] = conns[t]
      BY <2>7, Freed DEF SlotsOf
    <3>2. SlotMatchesLink'
      BY <1>2, <2>1, <3>1 DEF SlotMatchesLink
    <3>3. ASSUME NEW d \in ConnId, Loose(d)' PROVE FALSE
      <4>1. Connected(d) /\ Linked(d) /\ d # conns[s].connId
        BY <2>1, <2>7, <3>3 DEF Loose, Connected, Linked
      <4>2. PICK t \in Slots : Used(t) /\ conns[t].connId = d
        BY <2>4, <4>1 DEF Loose, SlotsOn
      <4>3. t \in SlotsOn(d)'
        BY <3>1, <4>1, <4>2 DEF SlotsOn
      <4> QED BY <3>3, <4>3 DEF Loose
    <3> QED BY <2>3, <2>5, <3>2, <3>3 DEF LinkInv
  <2> QED BY <2>1, <2>6, <2>7
<1>21. ASSUME NEW c \in ConnId, LinkUp(c) PROVE LinkInv'
  <2>1. /\ UNCHANGED <<conns, discMask, mask, req, slot, apiPc, pendOk, pendConnId, loopPc, bd, closing>>
        /\ creating # None /\ loopPc = "linking" /\ link[c] = None
        /\ \A d \in ConnId : link[d] # creating
        /\ c \notin discMask \cup mask
        /\ link' = [link EXCEPT ![c] = creating] /\ creating' = None
    BY <1>1, <1>21 DEF LinkUp, apiVars, mailbox, loopVars
  <2>2. creating = bd
    BY <2>1 DEF OperationInv
  <2>3. link'[c] = creating /\ \A d \in ConnId \ {c} : link'[d] = link[d]
    BY <2>1 DEF TypeOK, TypeStack
  <2>4. \A x, y \in ConnId : Linked(x)' /\ link'[x] = link'[y] => x = y
    BY <1>2, <2>1, <2>3 DEF Linked
  <2>5. ~Made /\ ~Made'
    BY <1>3, <2>1 DEF Made
  <2>6. \A d \in ConnId : ~Loose(d)
    BY <1>2, <2>1, <2>5
  <2>7. ASSUME NEW d \in ConnId, Loose(d)'
        PROVE  loopPc' = "linking" /\ creating' = None /\ link'[d] = bd'
    <3>1. d = c
      BY <2>1, <2>3, <2>6, <2>7 DEF Loose, Connected, Linked, SlotsOn, Used
    <3> QED BY <2>1, <2>2, <2>3, <3>1
  <2>8. ASSUME NEW s \in Slots, Used(s)'
        PROVE  \/ link'[conns'[s].connId] = conns'[s].address
               \/ conns'[s].connId \in discMask' \cup mask'
    <3>1. Used(s)
      BY <2>1, <2>8 DEF Used
    <3>2. \/ link[conns[s].connId] = conns[s].address
          \/ conns[s].connId \in discMask \cup mask
      BY <1>2, <3>1 DEF SlotMatchesLink
    <3>3. conns[s].connId # c
      BY <2>1, <3>1, <3>2 DEF Used
    <3> QED BY <1>15, <2>1, <2>3, <3>1, <3>2, <3>3
  <2> QED BY <2>4, <2>5, <2>7, <2>8 DEF LinkInv, SlotMatchesLink
<1>22. ASSUME NEW c \in ConnId, LinkDrop(c) PROVE LinkInv'
  <2>1. /\ UNCHANGED <<conns, mask, req, slot, apiPc, pendOk, pendConnId, loopPc, bd, creating>>
        /\ link' = [link EXCEPT ![c] = None] /\ closing' = closing \ {c}
        /\ discMask' = discMask \cup {c}
    BY <1>22 DEF LinkDrop, apiVars, mailbox, loopVars
  <2>2. link'[c] = None /\ \A d \in ConnId \ {c} : link'[d] = link[d]
    BY <2>1 DEF TypeOK, TypeStack
  <2>3. \A x, y \in ConnId : Linked(x)' /\ link'[x] = link'[y] => x = y
    BY <1>2, <2>2 DEF Linked
  <2>4. Made' <=> Made
    BY <2>1 DEF Made
  <2>5. \A d \in ConnId : Loose(d)' => Loose(d) /\ d # c
    BY <2>1, <2>2 DEF Loose, Connected, Linked, SlotsOn, Used
  <2>6. \A d \in ConnId : Loose(d)' =>
            \/ loopPc' = "linking" /\ creating' = None /\ link'[d] = bd'
            \/ Made' /\ pendConnId' = d
    BY <1>2, <2>1, <2>2, <2>4, <2>5
  <2>7. SlotMatchesLink'
    BY <1>2, <1>15, <2>1, <2>2 DEF SlotMatchesLink, Used
  <2>8. Made' => /\ link'[pendConnId'] \in {req'.address, None}
                 /\ Used(slot)' => ~Linked(conns[slot].connId)'
    <3>1. Made => pendConnId \in ConnId /\ slot \in Slots
      BY DEF Made, TypeOK, TypeMailbox, SlotInv, ConnectPending
    <3> QED BY <1>2, <1>15, <2>1, <2>2, <2>4, <3>1 DEF Used, Linked
  <2> QED BY <2>3, <2>6, <2>7, <2>8 DEF LinkInv
<1> QED
  BY <1>7, <1>8, <1>9, <1>10, <1>11, <1>12, <1>13, <1>14, <1>17, <1>18, <1>19,
     <1>20, <1>21, <1>22
     DEF Next, Client, ApiStep, LoopStep, Stack

(* As long as neither task is held up and the stack is not too early, a     *)
(* slot says which device its conn id reaches, or its loss is on its way to *)
(* the API task; and no link is up that nobody can use or close.            *)
THEOREM SlotsShowTheLinks == Spec => []SlotsAreTheLinks
<1> DEFINE Down == "reuse" \notin env =>
                       \A c \in ConnId : c \in discMask \cup mask => ~Linked(c)
<1>1. Init => ViewInv /\ OperationInv /\ LinkInv
  <2> SUFFICES ASSUME Init
               PROVE  ViewInv /\ OperationInv /\ LinkInv
    OBVIOUS
  <2>1. /\ \A c \in ConnId : ~Linked(c)
        /\ \A s \in Slots : ~Used(s)
        /\ apiPc = "accept" /\ loopPc = "poll" /\ creating = None /\ view = {}
        /\ pendOp = "none"
    BY Records DEF Init, Linked, Used
  <2>2. ViewInv
    BY <2>1 DEF ViewInv, Busy
  <2>3. OperationInv
    BY <2>1 DEF OperationInv
  <2>4. LinkInv
    BY <2>1 DEF LinkInv, SlotMatchesLink, Loose, Connected, Made
  <2> QED BY <2>2, <2>3, <2>4
<1>2. TypeOK /\ SlotInv /\ MailboxInv /\ LossInv /\ Down /\ ViewInv /\ OperationInv
          /\ LinkInv /\ [Next]_vars => ViewInv' /\ OperationInv' /\ LinkInv'
  <2> SUFFICES ASSUME TypeOK, SlotInv, MailboxInv, LossInv, Down, ViewInv, OperationInv,
                      LinkInv, [Next]_vars
               PROVE  ViewInv' /\ OperationInv' /\ LinkInv'
    OBVIOUS
  <2>1. ViewInv' /\ OperationInv'
    BY ViewStep, OperationStep
  <2>2. CASE Calm
    <3>1. MaskInv /\ \A c \in ConnId : c \in discMask \cup mask => ~Linked(c)
      BY <2>2 DEF Calm, LossInv
    <3> QED BY <2>1, <3>1, LinkStep
  <2>3. CASE ~Calm
    BY <2>1, <2>3, EnvKept DEF LinkInv, Calm
  <2> QED BY <2>2, <2>3
<1>3. LinkInv => SlotsAreTheLinks
  BY DEF LinkInv, SlotsAreTheLinks, NoOrphanLink, Made
<1> HIDE DEF Down
<1>4. Spec => []Down
  BY MaskedIsDown DEF Down
<1> QED BY <1>1, <1>2, <1>3, <1>4, Invariance, MailboxKept, LossKept, PTL DEF Spec
=============================================================================
