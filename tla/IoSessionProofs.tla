-------------------------- MODULE IoSessionProofs --------------------------
(***************************************************************************)
(* For every ring capacity and any amount of traffic: the channels of a    *)
(* session are never used after they are freed, no wakeup is lost, nothing *)
(* is left open or allocated, and each direction is a FIFO pipe.           *)
(*                                                                         *)
(* The inductive invariant IInv is proved conjunct by conjunct; a lemma    *)
(* ...Step says that one step of any thread preserves its conjunct.        *)
(***************************************************************************)
EXTENDS IoSession, SequenceTheorems, TLAPS

-----------------------------------------------------------------------------
(***************************************************************************)
(* Sequences of numbered elements: what taking and adding one does to      *)
(* their order.                                                            *)
(***************************************************************************)
\* The empty ring is in order.
LEMMA EmptyInOrder == ASSUME NEW x \in Nat PROVE InOrder(<<>>, x) /\ ~EndsInErr(<<>>)
  BY DEF InOrder, EndsInErr

\* An error taken from a ring in order was its last element.
LEMMA TakeErr ==
  ASSUME NEW r \in Seq(Nat), NEW x \in Nat, InOrder(r, x), r # <<>>, Head(r) = Err
  PROVE  EndsInErr(r) /\ Len(r) = 1 /\ Tail(r) = <<>>
<1>1. r[Len(r)] = 0 /\ Len(r) = 1
  BY DEF InOrder, Err
<1>2. Tail(r) \in Seq(Nat) /\ Len(Tail(r)) = 0
  BY <1>1
<1>3. Tail(r) = <<>>
  BY <1>2, EmptySeq
<1> QED
  BY <1>1, <1>3 DEF EndsInErr, Err

\* A byte taken from a ring in order is the next one, and leaves the rest in order.
LEMMA TakeByte ==
  ASSUME NEW r \in Seq(Nat), NEW x \in Nat, InOrder(r, x), r # <<>>, Head(r) # Err
  PROVE  /\ Head(r) = x + 1
         /\ Len(Tail(r)) = Len(r) - 1 /\ Tail(r) \in Seq(Nat)
         /\ InOrder(Tail(r), x + 1)
         /\ EndsInErr(Tail(r)) <=> EndsInErr(r)
<1>1. Head(r) = x + 1
  BY DEF InOrder, Err
<1>2. Len(Tail(r)) = Len(r) - 1 /\ Tail(r) \in Seq(Nat) /\ Len(r) \in Nat \ {0}
  OBVIOUS
<1>3. \A i \in 1..(Len(r) - 1) : Tail(r)[i] = r[i + 1]
  OBVIOUS
<1>4. InOrder(Tail(r), x + 1)
  <2> SUFFICES ASSUME NEW i \in 1..(Len(r) - 1)
               PROVE  Tail(r)[i] = x + 1 + i \/ (Tail(r)[i] = Err /\ i = Len(r) - 1)
    BY <1>2 DEF InOrder
  <2>1. i + 1 \in 1..Len(r)
    BY <1>2
  <2>2. r[i + 1] = x + (i + 1) \/ (r[i + 1] = Err /\ i + 1 = Len(r))
    BY <2>1 DEF InOrder
  <2>3. i \in Int /\ Len(r) \in Int
    BY <1>2
  <2>4. Tail(r)[i] = r[i + 1]
    BY <1>3
  <2> QED
    BY <2>2, <2>3, <2>4, SMT DEF Err
<1>5. EndsInErr(Tail(r)) <=> EndsInErr(r)
  <2>1. CASE Len(r) = 1
    <3>1. r[Len(r)] = Head(r)
      BY <2>1
    <3>2. Tail(r) = <<>>
      <4>1. Len(Tail(r)) = 0
        BY <2>1, <1>2
      <4> QED
        BY <4>1, <1>2, EmptySeq
    <3> QED
      BY <3>1, <3>2 DEF EndsInErr
  <2>2. CASE Len(r) # 1
    <3>1. Len(r) - 1 \in 1..(Len(r) - 1) /\ (Len(r) - 1) + 1 = Len(r)
      BY <1>2, <2>2
    <3>2. Tail(r)[Len(r) - 1] = r[Len(r)]
      BY <1>3, <3>1
    <3>3. Len(Tail(r)) # 0
      BY <1>2, <2>2
    <3>4. Tail(r) # <<>>
      BY <3>3, EmptySeq
    <3> QED
      BY <1>2, <3>2, <3>4 DEF EndsInErr
  <2> QED
    BY <2>1, <2>2
<1> QED
  BY <1>1, <1>2, <1>4, <1>5

\* The next byte, or the error, may be added to a ring in order that has no error yet.
LEMMA PutLast ==
  ASSUME NEW r \in Seq(Nat), NEW x \in Nat, InOrder(r, x), ~EndsInErr(r),
         NEW e \in Nat, e = Err \/ e = x + Len(r) + 1
  PROVE  /\ Append(r, e) \in Seq(Nat) /\ Len(Append(r, e)) = Len(r) + 1
         /\ InOrder(Append(r, e), x)
         /\ EndsInErr(Append(r, e)) <=> e = Err
<1>1. /\ Append(r, e) \in Seq(Nat) /\ Len(Append(r, e)) = Len(r) + 1 /\ Append(r, e) # <<>>
      /\ Append(r, e)[Len(r) + 1] = e
      /\ \A i \in 1..Len(r) : Append(r, e)[i] = r[i]
      /\ Len(r) \in Nat
  OBVIOUS
<1>2. \A i \in 1..Len(r) : r[i] = x + i
  BY DEF InOrder, EndsInErr
<1>3. InOrder(Append(r, e), x)
  BY <1>1, <1>2 DEF InOrder
<1> QED
  BY <1>1, <1>3 DEF EndsInErr

\* The "send" ring never holds an error.
LEMMA NoErr ==
  ASSUME NEW n \in Nat, NEW s \in Seq(1..n)
  PROVE  ~EndsInErr(s) /\ (s # <<>> => Head(s) # Err)
<1>1. s # <<>> => Len(s) \in 1..Len(s) /\ Head(s) \in 1..n
  BY EmptySeq, HeadTailProperties
<1>2. s # <<>> => s[Len(s)] \in 1..n
  BY <1>1, ElementOfSeq
<1> QED
  BY <1>1, <1>2 DEF EndsInErr, Err

-----------------------------------------------------------------------------
(***************************************************************************)
(* Types.                                                                  *)
(***************************************************************************)
\* No step overfills a ring or puts a value of the wrong kind into it (chan.c chan_push).
LEMMA RingTypesStep ==
  ASSUME TypeOK, [Next]_vars
  PROVE  RingTypes'
<1> USE IoAssumption DEF IoAssumption, Chans, Err, Status
<1> USE DEF TypeOK, RingTypes, CountTypes
<1>1. CASE Boot
  BY <1>1 DEF Boot, readVars, writeVars
<1>2. CASE BootWithoutOpener
  BY <1>2 DEF BootWithoutOpener, readVars, writeVars
<1>3. CASE BootFails
  BY <1>3 DEF BootFails, chanVars, openVars, readVars, writeVars
<1>4. CASE Send
  BY <1>4 DEF Send, Push, Full, openVars, readVars, writeVars
<1>5. CASE Recv
  <2>1. CASE UNCHANGED ring
    BY <2>1
  <2>2. CASE ring["recv"] # <<>> /\ ring' = [ring EXCEPT !["recv"] = Tail(@)]
    <3>1. /\ Tail(ring["recv"]) \in Seq(0..MaxRx) \/ "recv" = "send"
          /\ Tail(ring["send"]) \in Seq(1..MaxTx) \/ "recv" = "recv"
          /\ Tail(ring["recv"]) \in Seq(Nat) /\ Len(Tail(ring["recv"])) <= Cap
      BY <2>2
    <3> QED
      BY <2>2, <3>1
  <2> QED
    BY <1>5, <2>1, <2>2 DEF Recv, Pop, Empty, Over
<1>6. CASE Destroy
  BY <1>6 DEF Destroy, DestroyClose, DestroyUnref, DestroyFree, Close, DropRef, FreeChan,
         openVars, readVars, writeVars
<1>7. CASE Open
  BY <1>7 DEF Open, chanVars, emuVars, readVars, writeVars
<1>8. CASE StartReader
  BY <1>8 DEF StartReader, chanVars, emuVars, writeVars
<1>9. CASE StartWriter
  BY <1>9 DEF StartWriter, chanVars, emuVars, readVars
<1>10. CASE OpenerFail
  BY <1>10 DEF OpenerFail, chanVars, emuVars, readVars, writeVars
<1>11. CASE OpenerRelease
  BY <1>11 DEF OpenerRelease, OpenerClose, OpenerUnref, OpenerFree, Close, DropRef, FreeChan,
         chanVars, emuVars, readVars, writeVars
<1>12. CASE ReaderRead
  BY <1>12 DEF ReaderRead, chanVars, emuVars, openVars, writeVars
<1>13. CASE ReaderSend
  <2>1. CASE UNCHANGED ring
    BY <2>1
  <2>2. CASE /\ Len(ring["recv"]) < Cap
             /\ ring' = [ring EXCEPT !["recv"] = Append(@, rHand)]
    <3>1. /\ Append(ring["recv"], rHand) \in Seq(0..MaxRx)
          /\ Append(ring["recv"], rHand) \in Seq(Nat)
          /\ Len(Append(ring["recv"], rHand)) <= Cap
      BY <2>2
    <3> QED
      BY <2>2, <3>1
  <2> QED
    BY <1>13, <2>1, <2>2 DEF ReaderSend, Push, Full
<1>14. CASE ReaderExit
  BY <1>14 DEF ReaderExit, ReaderClose, ReaderUnref, ReaderFree, ReaderCloseFd,
         Close, DropRef, FreeChan, chanVars, emuVars, openVars, writeVars
<1>15. CASE WriterRecv
  <2>1. CASE UNCHANGED ring
    BY <2>1
  <2>2. CASE ring["send"] # <<>> /\ ring' = [ring EXCEPT !["send"] = Tail(@)]
    <3>1. /\ Tail(ring["recv"]) \in Seq(0..MaxRx) \/ "send" = "send"
          /\ Tail(ring["send"]) \in Seq(1..MaxTx) \/ "send" = "recv"
          /\ Tail(ring["send"]) \in Seq(Nat) /\ Len(Tail(ring["send"])) <= Cap
      BY <2>2
    <3> QED
      BY <2>2, <3>1
  <2> QED
    BY <1>15, <2>1, <2>2 DEF WriterRecv, Pop, Empty, Over
<1>16. CASE WriterWrite
  BY <1>16 DEF WriterWrite, chanVars, emuVars, openVars, readVars
<1>17. CASE WriterExit
  BY <1>17 DEF WriterExit, WriterClose, WriterUnref, WriterFree, WriterCloseFd,
         Close, DropRef, FreeChan, chanVars, emuVars, openVars, readVars
<1>18. CASE SpuriousWakeup
  BY <1>18 DEF SpuriousWakeup, emuVars, openVars, readVars, writeVars
<1>19. CASE UNCHANGED vars
  BY <1>19 DEF vars, chanVars, emuVars, openVars, readVars, writeVars
<1>20. QED
  BY <1>1, <1>2, <1>3, <1>4, <1>5, <1>6, <1>7, <1>8, <1>9, <1>10,
     <1>11, <1>12, <1>13, <1>14, <1>15, <1>16, <1>17, <1>18, <1>19
  DEF Next, EmuStep, OpenerStep, ReaderStep, WriterStep

\* Flags, waiters and descriptors keep their types.
LEMMA ChanTypesStep ==
  ASSUME TypeOK, [Next]_vars
  PROVE  ChanTypes'
<1> USE IoAssumption DEF IoAssumption, Chans, Err, Status
<1> USE DEF TypeOK, ChanTypes
<1>1. CASE Boot
  BY <1>1 DEF Boot, readVars, writeVars
<1>2. CASE BootWithoutOpener
  BY <1>2 DEF BootWithoutOpener, readVars, writeVars
<1>3. CASE BootFails
  BY <1>3 DEF BootFails, chanVars, openVars, readVars, writeVars
<1>4. CASE Send
  BY <1>4 DEF Send, Push, Full, openVars, readVars, writeVars
<1>5. CASE Recv
  BY <1>5 DEF Recv, Pop, Empty, Over, openVars, readVars, writeVars
<1>6. CASE Destroy
  BY <1>6 DEF Destroy, DestroyClose, DestroyUnref, DestroyFree, Close, DropRef, FreeChan,
         openVars, readVars, writeVars
<1>7. CASE Open
  BY <1>7 DEF Open, chanVars, emuVars, readVars, writeVars
<1>8. CASE StartReader
  BY <1>8 DEF StartReader, chanVars, emuVars, writeVars
<1>9. CASE StartWriter
  BY <1>9 DEF StartWriter, chanVars, emuVars, readVars
<1>10. CASE OpenerFail
  BY <1>10 DEF OpenerFail, chanVars, emuVars, readVars, writeVars
<1>11. CASE OpenerRelease
  BY <1>11 DEF OpenerRelease, OpenerClose, OpenerUnref, OpenerFree, Close, DropRef, FreeChan,
         chanVars, emuVars, readVars, writeVars
<1>12. CASE ReaderRead
  BY <1>12 DEF ReaderRead, chanVars, emuVars, openVars, writeVars
<1>13. CASE ReaderSend
  BY <1>13 DEF ReaderSend, Push, Full, emuVars, openVars, writeVars
<1>14. CASE ReaderExit
  BY <1>14 DEF ReaderExit, ReaderClose, ReaderUnref, ReaderFree, ReaderCloseFd,
         Close, DropRef, FreeChan, chanVars, emuVars, openVars, writeVars
<1>15. CASE WriterRecv
  BY <1>15 DEF WriterRecv, Pop, Empty, Over, emuVars, openVars, readVars
<1>16. CASE WriterWrite
  BY <1>16 DEF WriterWrite, chanVars, emuVars, openVars, readVars
<1>17. CASE WriterExit
  BY <1>17 DEF WriterExit, WriterClose, WriterUnref, WriterFree, WriterCloseFd,
         Close, DropRef, FreeChan, chanVars, emuVars, openVars, readVars
<1>18. CASE SpuriousWakeup
  BY <1>18 DEF SpuriousWakeup, emuVars, openVars, readVars, writeVars
<1>19. CASE UNCHANGED vars
  BY <1>19 DEF vars, chanVars, emuVars, openVars, readVars, writeVars
<1>20. QED
  BY <1>1, <1>2, <1>3, <1>4, <1>5, <1>6, <1>7, <1>8, <1>9, <1>10,
     <1>11, <1>12, <1>13, <1>14, <1>15, <1>16, <1>17, <1>18, <1>19
  DEF Next, EmuStep, OpenerStep, ReaderStep, WriterStep

\* Reference counts stay integers.
LEMMA RefTypesStep ==
  ASSUME TypeOK, [Next]_vars
  PROVE  RefTypes'
<1> USE IoAssumption DEF IoAssumption, Chans, Err, Status
<1> USE DEF TypeOK, RefTypes
<1>1. CASE Boot
  BY <1>1 DEF Boot, readVars, writeVars
<1>2. CASE BootWithoutOpener
  BY <1>2 DEF BootWithoutOpener, readVars, writeVars
<1>3. CASE BootFails
  BY <1>3 DEF BootFails, chanVars, openVars, readVars, writeVars
<1>4. CASE Send
  BY <1>4 DEF Send, Push, Full, openVars, readVars, writeVars
<1>5. CASE Recv
  BY <1>5 DEF Recv, Pop, Empty, Over, openVars, readVars, writeVars
<1>6. CASE Destroy
  BY <1>6 DEF Destroy, DestroyClose, DestroyUnref, DestroyFree, Close, DropRef, FreeChan,
         openVars, readVars, writeVars
<1>7. CASE Open
  BY <1>7 DEF Open, chanVars, emuVars, readVars, writeVars
<1>8. CASE StartReader
  BY <1>8 DEF StartReader, chanVars, emuVars, writeVars
<1>9. CASE StartWriter
  BY <1>9 DEF StartWriter, chanVars, emuVars, readVars
<1>10. CASE OpenerFail
  BY <1>10 DEF OpenerFail, chanVars, emuVars, readVars, writeVars
<1>11. CASE OpenerRelease
  BY <1>11 DEF OpenerRelease, OpenerClose, OpenerUnref, OpenerFree, Close, DropRef, FreeChan,
         chanVars, emuVars, readVars, writeVars
<1>12. CASE ReaderRead
  BY <1>12 DEF ReaderRead, chanVars, emuVars, openVars, writeVars
<1>13. CASE ReaderSend
  BY <1>13 DEF ReaderSend, Push, Full, emuVars, openVars, writeVars
<1>14. CASE ReaderExit
  BY <1>14 DEF ReaderExit, ReaderClose, ReaderUnref, ReaderFree, ReaderCloseFd,
         Close, DropRef, FreeChan, chanVars, emuVars, openVars, writeVars
<1>15. CASE WriterRecv
  BY <1>15 DEF WriterRecv, Pop, Empty, Over, emuVars, openVars, readVars
<1>16. CASE WriterWrite
  BY <1>16 DEF WriterWrite, chanVars, emuVars, openVars, readVars
<1>17. CASE WriterExit
  BY <1>17 DEF WriterExit, WriterClose, WriterUnref, WriterFree, WriterCloseFd,
         Close, DropRef, FreeChan, chanVars, emuVars, openVars, readVars
<1>18. CASE SpuriousWakeup
  BY <1>18 DEF SpuriousWakeup, emuVars, openVars, readVars, writeVars
<1>19. CASE UNCHANGED vars
  BY <1>19 DEF vars, chanVars, emuVars, openVars, readVars, writeVars
<1>20. QED
  BY <1>1, <1>2, <1>3, <1>4, <1>5, <1>6, <1>7, <1>8, <1>9, <1>10,
     <1>11, <1>12, <1>13, <1>14, <1>15, <1>16, <1>17, <1>18, <1>19
  DEF Next, EmuStep, OpenerStep, ReaderStep, WriterStep

\* Every thread is at one of its program points.
LEMMA ThreadTypesStep ==
  ASSUME TypeOK, [Next]_vars
  PROVE  ThreadTypes'
BY DEF TypeOK, ThreadTypes, Status, Next, EmuStep, OpenerStep, ReaderStep, WriterStep,
       Boot, readVars, writeVars, BootWithoutOpener, BootFails, chanVars,
       openVars, Send, Push, Full, Recv, Pop, Empty, Over, Destroy,
       DestroyClose, DestroyUnref, DestroyFree, Close, DropRef, FreeChan,
       Open, emuVars, StartReader, StartWriter, OpenerFail, OpenerRelease,
       OpenerClose, OpenerUnref, OpenerFree, ReaderRead, ReaderSend,
       ReaderExit, ReaderClose, ReaderUnref, ReaderFree, ReaderCloseFd,
       WriterRecv, WriterWrite, WriterExit, WriterClose, WriterUnref,
       WriterFree, WriterCloseFd, SpuriousWakeup, vars

\* The numbers of bytes stay within their bounds.
LEMMA CountTypesStep ==
  ASSUME TypeOK, [Next]_vars
  PROVE  CountTypes'
<1> USE IoAssumption DEF IoAssumption, Chans, Err, Status
<1> USE DEF TypeOK, RingTypes, CountTypes
<1>1. CASE Boot
  BY <1>1 DEF Boot, readVars, writeVars
<1>2. CASE BootWithoutOpener
  BY <1>2 DEF BootWithoutOpener, readVars, writeVars
<1>3. CASE BootFails
  BY <1>3 DEF BootFails, chanVars, openVars, readVars, writeVars
<1>4. CASE Send
  BY <1>4 DEF Send, Push, Full, openVars, readVars, writeVars
<1>5. CASE Recv
  BY <1>5 DEF Recv, Pop, Empty, Over, openVars, readVars, writeVars
<1>6. CASE Destroy
  BY <1>6 DEF Destroy, DestroyClose, DestroyUnref, DestroyFree, Close, DropRef, FreeChan,
         openVars, readVars, writeVars
<1>7. CASE Open
  BY <1>7 DEF Open, chanVars, emuVars, readVars, writeVars
<1>8. CASE StartReader
  BY <1>8 DEF StartReader, chanVars, emuVars, writeVars
<1>9. CASE StartWriter
  BY <1>9 DEF StartWriter, chanVars, emuVars, readVars
<1>10. CASE OpenerFail
  BY <1>10 DEF OpenerFail, chanVars, emuVars, readVars, writeVars
<1>11. CASE OpenerRelease
  BY <1>11 DEF OpenerRelease, OpenerClose, OpenerUnref, OpenerFree, Close, DropRef, FreeChan,
         chanVars, emuVars, readVars, writeVars
<1>12. CASE ReaderRead
  BY <1>12 DEF ReaderRead, chanVars, emuVars, openVars, writeVars
<1>13. CASE ReaderSend
  BY <1>13 DEF ReaderSend, Push, Full, emuVars, openVars, writeVars
<1>14. CASE ReaderExit
  BY <1>14 DEF ReaderExit, ReaderClose, ReaderUnref, ReaderFree, ReaderCloseFd,
         Close, DropRef, FreeChan, chanVars, emuVars, openVars, writeVars
<1>15. CASE WriterRecv
  BY <1>15 DEF WriterRecv, Pop, Empty, Over, emuVars, openVars, readVars
<1>16. CASE WriterWrite
  BY <1>16 DEF WriterWrite, chanVars, emuVars, openVars, readVars
<1>17. CASE WriterExit
  BY <1>17 DEF WriterExit, WriterClose, WriterUnref, WriterFree, WriterCloseFd,
         Close, DropRef, FreeChan, chanVars, emuVars, openVars, readVars
<1>18. CASE SpuriousWakeup
  BY <1>18 DEF SpuriousWakeup, emuVars, openVars, readVars, writeVars
<1>19. CASE UNCHANGED vars
  BY <1>19 DEF vars, chanVars, emuVars, openVars, readVars, writeVars
<1>20. QED
  BY <1>1, <1>2, <1>3, <1>4, <1>5, <1>6, <1>7, <1>8, <1>9, <1>10,
     <1>11, <1>12, <1>13, <1>14, <1>15, <1>16, <1>17, <1>18, <1>19
  DEF Next, EmuStep, OpenerStep, ReaderStep, WriterStep

\* Init satisfies the types, and every step preserves them.
LEMMA TypeInit == Init => TypeOK
<1> SUFFICES ASSUME Init PROVE TypeOK
  OBVIOUS
<1>1. RingTypes
  BY IoAssumption, EmptySeq DEF IoAssumption, Init, RingTypes, Chans
<1>2. ChanTypes /\ RefTypes
  BY DEF Init, ChanTypes, RefTypes, Chans
<1>3. ThreadTypes
  BY DEF Init, ThreadTypes, Status
<1>4. CountTypes
  BY IoAssumption DEF IoAssumption, Init, CountTypes, Err
<1> QED
  BY <1>1, <1>2, <1>3, <1>4 DEF TypeOK

LEMMA TypeStep == TypeOK /\ [Next]_vars => TypeOK'
BY RingTypesStep, ChanTypesStep, RefTypesStep, ThreadTypesStep, CountTypesStep DEF TypeOK

-----------------------------------------------------------------------------
(***************************************************************************)
(* Ownership: who holds what at each stage.                                *)
(***************************************************************************)
\* The opener hands each reference to exactly one pump thread (session.c opener_thread).
LEMMA StagesStep ==
  ASSUME TypeOK, Stages, [Next]_vars
  PROVE  Stages'
<1> USE IoAssumption DEF IoAssumption, Chans, Err, Status
<1> USE DEF TypeOK, ThreadTypes, Stages, ReaderExits, WriterExits, OpenerLate
<1>1. CASE Boot
  BY <1>1 DEF Boot, readVars, writeVars
<1>2. CASE BootWithoutOpener
  BY <1>2 DEF BootWithoutOpener, readVars, writeVars
<1>3. CASE BootFails
  BY <1>3 DEF BootFails, chanVars, openVars, readVars, writeVars
<1>4. CASE Send
  BY <1>4 DEF Send, Push, Full, openVars, readVars, writeVars
<1>5. CASE Recv
  BY <1>5 DEF Recv, Pop, Empty, Over, openVars, readVars, writeVars
<1>6. CASE Destroy
  BY <1>6 DEF Destroy, DestroyClose, DestroyUnref, DestroyFree, Close, DropRef, FreeChan,
         openVars, readVars, writeVars
<1>7. CASE Open
  BY <1>7 DEF Open, chanVars, emuVars, readVars, writeVars
<1>8. CASE StartReader
  BY <1>8 DEF StartReader, chanVars, emuVars, writeVars
<1>9. CASE StartWriter
  BY <1>9 DEF StartWriter, chanVars, emuVars, readVars
<1>10. CASE OpenerFail
  BY <1>10 DEF OpenerFail, chanVars, emuVars, readVars, writeVars
<1>11. CASE OpenerRelease
  BY <1>11 DEF OpenerRelease, OpenerClose, OpenerUnref, OpenerFree, Close, DropRef, FreeChan,
         chanVars, emuVars, readVars, writeVars
<1>12. CASE ReaderRead
  BY <1>12 DEF ReaderRead, chanVars, emuVars, openVars, writeVars
<1>13. CASE ReaderSend
  BY <1>13 DEF ReaderSend, Push, Full, emuVars, openVars, writeVars
<1>14. CASE ReaderExit
  BY <1>14 DEF ReaderExit, ReaderClose, ReaderUnref, ReaderFree, ReaderCloseFd,
         Close, DropRef, FreeChan, chanVars, emuVars, openVars, writeVars
<1>15. CASE WriterRecv
  BY <1>15 DEF WriterRecv, Pop, Empty, Over, emuVars, openVars, readVars
<1>16. CASE WriterWrite
  BY <1>16 DEF WriterWrite, chanVars, emuVars, openVars, readVars
<1>17. CASE WriterExit
  BY <1>17 DEF WriterExit, WriterClose, WriterUnref, WriterFree, WriterCloseFd,
         Close, DropRef, FreeChan, chanVars, emuVars, openVars, readVars
<1>18. CASE SpuriousWakeup
  BY <1>18 DEF SpuriousWakeup, emuVars, openVars, readVars, writeVars
<1>19. CASE UNCHANGED vars
  BY <1>19 DEF vars, chanVars, emuVars, openVars, readVars, writeVars
<1>20. QED
  BY <1>1, <1>2, <1>3, <1>4, <1>5, <1>6, <1>7, <1>8, <1>9, <1>10,
     <1>11, <1>12, <1>13, <1>14, <1>15, <1>16, <1>17, <1>18, <1>19
  DEF Next, EmuStep, OpenerStep, ReaderStep, WriterStep

\* An open descriptor has a thread that will close it (session.c opener_thread).
LEMMA FdStep ==
  ASSUME TypeOK, Stages, FdOwners, [Next]_vars
  PROVE  FdOwners'
<1> USE IoAssumption DEF IoAssumption, Chans, Err, Status
<1> USE DEF TypeOK, ThreadTypes, Stages, FdOwners
<1>1. CASE Boot
  BY <1>1 DEF Boot, readVars, writeVars
<1>2. CASE BootWithoutOpener
  BY <1>2 DEF BootWithoutOpener, readVars, writeVars
<1>3. CASE BootFails
  BY <1>3 DEF BootFails, chanVars, openVars, readVars, writeVars
<1>4. CASE Send
  BY <1>4 DEF Send, Push, Full, openVars, readVars, writeVars
<1>5. CASE Recv
  BY <1>5 DEF Recv, Pop, Empty, Over, openVars, readVars, writeVars
<1>6. CASE Destroy
  BY <1>6 DEF Destroy, DestroyClose, DestroyUnref, DestroyFree, Close, DropRef, FreeChan,
         openVars, readVars, writeVars
<1>7. CASE Open
  BY <1>7 DEF Open, chanVars, emuVars, readVars, writeVars
<1>8. CASE StartReader
  BY <1>8 DEF StartReader, chanVars, emuVars, writeVars
<1>9. CASE StartWriter
  BY <1>9 DEF StartWriter, chanVars, emuVars, readVars
<1>10. CASE OpenerFail
  BY <1>10 DEF OpenerFail, chanVars, emuVars, readVars, writeVars
<1>11. CASE OpenerRelease
  BY <1>11 DEF OpenerRelease, OpenerClose, OpenerUnref, OpenerFree, Close, DropRef, FreeChan,
         chanVars, emuVars, readVars, writeVars
<1>12. CASE ReaderRead
  BY <1>12 DEF ReaderRead, chanVars, emuVars, openVars, writeVars
<1>13. CASE ReaderSend
  BY <1>13 DEF ReaderSend, Push, Full, emuVars, openVars, writeVars
<1>14. CASE ReaderExit
  BY <1>14 DEF ReaderExit, ReaderClose, ReaderUnref, ReaderFree, ReaderCloseFd,
         Close, DropRef, FreeChan, chanVars, emuVars, openVars, writeVars
<1>15. CASE WriterRecv
  BY <1>15 DEF WriterRecv, Pop, Empty, Over, emuVars, openVars, readVars
<1>16. CASE WriterWrite
  BY <1>16 DEF WriterWrite, chanVars, emuVars, openVars, readVars
<1>17. CASE WriterExit
  BY <1>17 DEF WriterExit, WriterClose, WriterUnref, WriterFree, WriterCloseFd,
         Close, DropRef, FreeChan, chanVars, emuVars, openVars, readVars
<1>18. CASE SpuriousWakeup
  BY <1>18 DEF SpuriousWakeup, emuVars, openVars, readVars, writeVars
<1>19. CASE UNCHANGED vars
  BY <1>19 DEF vars, chanVars, emuVars, openVars, readVars, writeVars
<1>20. QED
  BY <1>1, <1>2, <1>3, <1>4, <1>5, <1>6, <1>7, <1>8, <1>9, <1>10,
     <1>11, <1>12, <1>13, <1>14, <1>15, <1>16, <1>17, <1>18, <1>19
  DEF Next, EmuStep, OpenerStep, ReaderStep, WriterStep

\* No step makes a sleeper's condition true without waking it (chan.c).
LEMMA WakeStep ==
  ASSUME TypeOK, Stages, NoLostWakeup, [Next]_vars
  PROVE  NoLostWakeup'
<1> USE IoAssumption DEF IoAssumption, Chans, Err, Status
<1> USE DEF TypeOK, ThreadTypes, RingTypes, ChanTypes, Stages, NoLostWakeup, Full, Empty,
        NotEmptyWaiters, NotFullWaiters
<1>1. CASE Boot
  BY <1>1 DEF Boot, readVars, writeVars
<1>2. CASE BootWithoutOpener
  BY <1>2 DEF BootWithoutOpener, readVars, writeVars
<1>3. CASE BootFails
  BY <1>3 DEF BootFails, chanVars, openVars, readVars, writeVars
<1>4. CASE Send
  BY <1>4 DEF Send, Push, Full, openVars, readVars, writeVars
<1>5. CASE Recv
  BY <1>5 DEF Recv, Pop, Empty, Over, openVars, readVars, writeVars
<1>6. CASE Destroy
  BY <1>6 DEF Destroy, DestroyClose, DestroyUnref, DestroyFree, Close, DropRef, FreeChan,
         openVars, readVars, writeVars
<1>7. CASE Open
  BY <1>7 DEF Open, chanVars, emuVars, readVars, writeVars
<1>8. CASE StartReader
  BY <1>8 DEF StartReader, chanVars, emuVars, writeVars
<1>9. CASE StartWriter
  BY <1>9 DEF StartWriter, chanVars, emuVars, readVars
<1>10. CASE OpenerFail
  BY <1>10 DEF OpenerFail, chanVars, emuVars, readVars, writeVars
<1>11. CASE OpenerRelease
  BY <1>11 DEF OpenerRelease, OpenerClose, OpenerUnref, OpenerFree, Close, DropRef, FreeChan,
         chanVars, emuVars, readVars, writeVars
<1>12. CASE ReaderRead
  BY <1>12 DEF ReaderRead, chanVars, emuVars, openVars, writeVars
<1>13. CASE ReaderSend
  BY <1>13 DEF ReaderSend, Push, Full, emuVars, openVars, writeVars
<1>14. CASE ReaderExit
  BY <1>14 DEF ReaderExit, ReaderClose, ReaderUnref, ReaderFree, ReaderCloseFd,
         Close, DropRef, FreeChan, chanVars, emuVars, openVars, writeVars
<1>15. CASE WriterRecv
  BY <1>15 DEF WriterRecv, Pop, Empty, Over, emuVars, openVars, readVars
<1>16. CASE WriterWrite
  BY <1>16 DEF WriterWrite, chanVars, emuVars, openVars, readVars
<1>17. CASE WriterExit
  BY <1>17 DEF WriterExit, WriterClose, WriterUnref, WriterFree, WriterCloseFd,
         Close, DropRef, FreeChan, chanVars, emuVars, openVars, readVars
<1>18. CASE SpuriousWakeup
  BY <1>18 DEF SpuriousWakeup, emuVars, openVars, readVars, writeVars
<1>19. CASE UNCHANGED vars
  BY <1>19 DEF vars, chanVars, emuVars, openVars, readVars, writeVars
<1>20. QED
  BY <1>1, <1>2, <1>3, <1>4, <1>5, <1>6, <1>7, <1>8, <1>9, <1>10,
     <1>11, <1>12, <1>13, <1>14, <1>15, <1>16, <1>17, <1>18, <1>19
  DEF Next, EmuStep, OpenerStep, ReaderStep, WriterStep

\* A reference moves or is dropped only by the thread that owns it (chan.c, session.c).
LEMMA RefStep ==
  ASSUME TypeOK, Stages, NoUseAfterFree, [Next]_vars
  PROVE  NoUseAfterFree'
<1> USE IoAssumption DEF IoAssumption, Chans, Err, Status
<1> USE DEF TypeOK, RefTypes, ThreadTypes, ChanTypes, Stages, NoUseAfterFree, Count, EmuHolds,
        PumpHolds, BootHolds, EmuFrees, OpenerFrees, PumpFrees
<1>1. CASE Boot
  BY <1>1 DEF Boot, readVars, writeVars
<1>2. CASE BootWithoutOpener
  BY <1>2 DEF BootWithoutOpener, readVars, writeVars
<1>3. CASE BootFails
  BY <1>3 DEF BootFails, chanVars, openVars, readVars, writeVars
<1>4. CASE Send
  BY <1>4 DEF Send, Push, Full, openVars, readVars, writeVars
<1>5. CASE Recv
  BY <1>5 DEF Recv, Pop, Empty, Over, openVars, readVars, writeVars
<1>6. CASE Destroy
  BY <1>6 DEF Destroy, DestroyClose, DestroyUnref, DestroyFree, Close, DropRef, FreeChan,
         openVars, readVars, writeVars
<1>7. CASE Open
  BY <1>7 DEF Open, chanVars, emuVars, readVars, writeVars
<1>8. CASE StartReader
  BY <1>8 DEF StartReader, chanVars, emuVars, writeVars
<1>9. CASE StartWriter
  BY <1>9 DEF StartWriter, chanVars, emuVars, readVars
<1>10. CASE OpenerFail
  BY <1>10 DEF OpenerFail, chanVars, emuVars, readVars, writeVars
<1>11. CASE OpenerRelease
  BY <1>11 DEF OpenerRelease, OpenerClose, OpenerUnref, OpenerFree, Close, DropRef, FreeChan,
         chanVars, emuVars, readVars, writeVars
<1>12. CASE ReaderRead
  BY <1>12 DEF ReaderRead, chanVars, emuVars, openVars, writeVars
<1>13. CASE ReaderSend
  BY <1>13 DEF ReaderSend, Push, Full, emuVars, openVars, writeVars
<1>14. CASE ReaderExit
  BY <1>14 DEF ReaderExit, ReaderClose, ReaderUnref, ReaderFree, ReaderCloseFd,
         Close, DropRef, FreeChan, chanVars, emuVars, openVars, writeVars
<1>15. CASE WriterRecv
  BY <1>15 DEF WriterRecv, Pop, Empty, Over, emuVars, openVars, readVars
<1>16. CASE WriterWrite
  BY <1>16 DEF WriterWrite, chanVars, emuVars, openVars, readVars
<1>17. CASE WriterExit
  BY <1>17 DEF WriterExit, WriterClose, WriterUnref, WriterFree, WriterCloseFd,
         Close, DropRef, FreeChan, chanVars, emuVars, openVars, readVars
<1>18. CASE SpuriousWakeup
  BY <1>18 DEF SpuriousWakeup, emuVars, openVars, readVars, writeVars
<1>19. CASE UNCHANGED vars
  BY <1>19 DEF vars, chanVars, emuVars, openVars, readVars, writeVars
<1>20. QED
  BY <1>1, <1>2, <1>3, <1>4, <1>5, <1>6, <1>7, <1>8, <1>9, <1>10,
     <1>11, <1>12, <1>13, <1>14, <1>15, <1>16, <1>17, <1>18, <1>19
  DEF Next, EmuStep, OpenerStep, ReaderStep, WriterStep

-----------------------------------------------------------------------------
(***************************************************************************)
(* Order of the received bytes.                                            *)
(***************************************************************************)
\* io_recv keeps the numbering of the received bytes (session.c io_recv).
LEMMA RxRecv == ASSUME TypeOK, RxOrder, Recv PROVE RxOrder'
<1> DEFINE r == ring["recv"]
           q == ring'["recv"]
<1>1. /\ UNCHANGED <<reader, rHand, rxRead, closed, emu, opener>> /\ emu = "up"
  BY DEF Recv, openVars, readVars
<1>2. r \in Seq(Nat) /\ rxLast \in Nat /\ rxRead \in Nat
  BY IoAssumption DEF IoAssumption, TypeOK, RingTypes, CountTypes, Chans
<1>6. RxDead' <=> RxDead
  BY <1>1 DEF RxDead
<1>7. rxRead' = rxRead /\ rxRead \in Nat /\ rxLast \in Nat
  BY <1>1, <1>2
<1>3. CASE ring' = ring /\ rxLast' = rxLast /\ (rxEnd' = rxEnd \/ Over("recv"))
  BY <1>1, <1>3, <1>6 DEF RxOrder, EmuBefore, Over, Empty
<1>4. CASE r # <<>> /\ Head(r) = Err /\ q = Tail(r) /\ rxLast' = rxLast
  <2>1. EndsInErr(r) /\ Len(r) = 1 /\ q = <<>>
    BY <1>2, <1>4, TakeErr DEF RxOrder
  <2>2. InOrder(<<>>, rxLast) /\ ~EndsInErr(<<>>) /\ Len(<<>>) = 0
    BY <1>2, EmptyInOrder
  <2>3. rxRead = rxLast /\ rHand = Err /\ reader \in ReaderExits
    BY <1>2, <2>1 DEF RxOrder
  <2> QED
    <3>0. Len(q) = 0
      BY <2>1, <2>2
    <3>4. rxRead = rxLast /\ rxLast' = rxLast
      BY <1>4, <2>3
    <3>1. rxRead' = rxLast' + Len(q)
      BY <1>7, <3>0, <3>4
    <3>2. RxDead'
      BY <1>6, <2>3 DEF RxDead
    <3> QED
      BY <1>1, <1>4, <1>6, <2>1, <2>2, <2>3, <3>1, <3>2 DEF RxOrder, Empty
<1>5. CASE r # <<>> /\ Head(r) # Err /\ q = Tail(r) /\ rxLast' = Head(r)
           /\ rxEnd' = rxEnd
  <2>1. /\ Head(r) = rxLast + 1 /\ Len(Tail(r)) = Len(r) - 1
        /\ InOrder(Tail(r), rxLast + 1)
        /\ EndsInErr(Tail(r)) <=> EndsInErr(r)
    BY <1>2, <1>5, TakeByte DEF RxOrder
  <2>2. rxEnd' # "ended"
    BY <1>5 DEF RxOrder, Empty
  <2>3. Len(r) \in Nat
    BY <1>2
  <2> QED
    <3>1. rxLast' = rxLast + 1 /\ Len(q) = Len(r) - 1 /\ rxRead' = rxRead
      BY <1>1, <1>5, <2>1
    <3>2. InOrder(ring["recv"], rxLast)' /\ (EndsInErr(ring["recv"])' <=> EndsInErr(r))
      BY <1>5, <2>1
    <3>3. CASE EndsInErr(r)
      <4>2. rxRead + 1 = rxLast + Len(r)
        BY <3>3 DEF RxOrder
      <4>1. rxRead' + 1 = rxLast' + Len(q)
        <5> HIDE DEF r, q
        <5> QED
          BY <1>7, <2>3, <3>1, <4>2
      <4> QED
        BY <1>1, <1>6, <2>2, <3>2, <3>3, <4>1 DEF RxOrder
    <3>4. CASE ~EndsInErr(r)
      <4>1. /\ rHand = Err => rxRead' = rxLast' + Len(q)
            /\ rHand # Err => rxRead' = rxLast' + Len(q) + 1
        <5>1. CASE rHand = Err
          <6>1. rxRead = rxLast + Len(r)
            BY <3>4, <5>1 DEF RxOrder
          <6> HIDE DEF r, q
          <6> QED
            BY <1>7, <2>3, <3>1, <5>1, <6>1
        <5>2. CASE rHand # Err
          <6>1. rxRead = rxLast + Len(r) + 1
            BY <3>4, <5>2 DEF RxOrder
          <6> HIDE DEF r, q
          <6> QED
            BY <1>7, <2>3, <3>1, <5>2, <6>1
        <5> QED
          BY <5>1, <5>2
      <4> QED
        BY <1>1, <1>6, <2>2, <3>2, <3>4, <4>1 DEF RxOrder
    <3> QED
      BY <3>3, <3>4
<1> QED
  <2>1. CASE Empty("recv")
    BY <1>3, <2>1 DEF Recv
  <2>2. CASE ~Empty("recv")
    <3>1. q = Tail(r) /\ r # <<>>
      BY <2>2 DEF Recv, Pop, Empty, Over, TypeOK, RingTypes, Chans
    <3> QED
      BY <1>4, <1>5, <2>2, <3>1 DEF Recv, Over
  <2> QED
    BY <2>1, <2>2

\* read() gives the next byte its number (session.c reader_thread).
LEMMA RxRead == ASSUME TypeOK, RxOrder, ReaderRead PROVE RxOrder'
<1>1. /\ UNCHANGED <<ring, closed, emu, opener, rxLast, rxEnd>>
      /\ reader = "read" /\ reader' = "send"
  BY DEF ReaderRead, chanVars, emuVars, openVars
<1>2. ~EndsInErr(ring["recv"]) /\ rHand = Err
  BY <1>1 DEF RxOrder, ReaderExits
<1>3. ~RxDead
  BY <1>1 DEF RxDead, ReaderExits
<1>4. rxRead \in Nat /\ rxLast \in Nat /\ Len(ring["recv"]) \in Nat
  BY IoAssumption DEF IoAssumption, TypeOK, RingTypes, CountTypes, Chans
<1>5. CASE rHand' = Err /\ rxRead' = rxRead
  BY <1>1, <1>2, <1>3, <1>4, <1>5 DEF RxOrder, ReaderExits
<1>6. CASE rHand' = rxRead + 1 /\ rxRead' = rxRead + 1
  BY <1>1, <1>2, <1>3, <1>4, <1>6 DEF RxOrder, ReaderExits, Err
<1> QED
  BY <1>5, <1>6 DEF ReaderRead

\* ssu_chan_send adds the reader's element at the end (session.c reader_thread).
LEMMA RxSend == ASSUME TypeOK, RxOrder, ReaderSend PROVE RxOrder'
<1> DEFINE r == ring["recv"]
<1>1. UNCHANGED <<closed, emu, opener, rxLast, rxEnd, rxRead>> /\ reader = "send"
  BY DEF ReaderSend, emuVars, openVars
<1>2. ~EndsInErr(r) /\ ~RxDead
  BY <1>1 DEF RxOrder, ReaderExits, RxDead
<1>3. rxEnd # "ended"
  BY <1>2 DEF RxOrder
<1>4. /\ r \in Seq(Nat) /\ rxLast \in Nat /\ rxRead \in Nat /\ rHand \in Nat /\ Len(r) \in Nat
  BY IoAssumption DEF IoAssumption, TypeOK, RingTypes, CountTypes, Chans
<1>5. CASE UNCHANGED <<ring, rHand, reader>>
  BY <1>1, <1>2, <1>3, <1>5 DEF RxOrder, RxDead, Empty
<1>6. CASE "recv" \in closed /\ UNCHANGED <<ring, rHand>> /\ reader' = "close"
  BY <1>1, <1>2, <1>3, <1>6 DEF RxOrder, ReaderExits
<1>7. CASE /\ "recv" \notin closed /\ ring'["recv"] = Append(r, rHand) /\ rHand' = Err
           /\ reader' = IF rHand = Err THEN "close" ELSE "read"
  <2>1. rHand = Err \/ rHand = rxLast + Len(r) + 1
    BY <1>2 DEF RxOrder
  <2>2. /\ Len(Append(r, rHand)) = Len(r) + 1 /\ InOrder(Append(r, rHand), rxLast)
        /\ EndsInErr(Append(r, rHand)) <=> rHand = Err
    BY <1>2, <1>4, <2>1, PutLast DEF RxOrder
  <2> QED
    <3>1. InOrder(ring["recv"], rxLast)' /\ (EndsInErr(ring["recv"])' <=> rHand = Err)
      BY <1>1, <1>7, <2>2
    <3>2. Len(ring'["recv"]) = Len(r) + 1
      BY <1>7, <2>2
    <3>3. CASE rHand = Err
      <4>1. rxRead' + 1 = rxLast' + Len(ring'["recv"])
        BY <1>1, <1>2, <1>4, <3>2, <3>3 DEF RxOrder
      <4> QED
        BY <1>1, <1>2, <1>3, <1>7, <3>1, <3>3, <4>1 DEF RxOrder, ReaderExits
    <3>4. CASE rHand # Err
      BY <1>1, <1>2, <1>3, <1>4, <1>7, <3>1, <3>2, <3>4 DEF RxOrder, ReaderExits
    <3> QED
      BY <3>3, <3>4
<1> QED
  BY <1>5, <1>6, <1>7 DEF ReaderSend, Push, TypeOK, RingTypes, Chans

\* The opener closes "recv" only when no reader was started (session.c opener_thread).
LEMMA RxRelease == ASSUME TypeOK, Stages, RxOrder, OpenerRelease PROVE RxOrder'
<1>1. RxDead => RxDead'
  BY DEF OpenerRelease, OpenerClose, OpenerUnref, OpenerFree, RxDead, readVars, OpenerLate
<1>2. UNCHANGED <<ring, rxRead, rxLast, rxEnd, rHand, reader, emu>>
  BY DEF OpenerRelease, OpenerClose, OpenerUnref, OpenerFree, Close, DropRef, FreeChan,
         chanVars, emuVars, readVars
<1>3. EndsInErr(ring["recv"])' <=> EndsInErr(ring["recv"])
  BY <1>2
<1>4. "recv" \in closed' => "recv" \in closed \/ RxDead'
  BY DEF OpenerRelease, OpenerClose, OpenerUnref, OpenerFree, Close, DropRef, FreeChan,
         chanVars, readVars, Stages, RxDead, OpenerLate, TypeOK, ThreadTypes
<1> QED
  BY ONLY RxOrder, <1>1, <1>2, <1>3, <1>4 DEF RxOrder, Empty

\* Every step keeps the received bytes in order, none lost (session.c).
LEMMA RxStep ==
  ASSUME TypeOK, Stages, RxOrder, [Next]_vars
  PROVE  RxOrder'
<1> USE IoAssumption DEF IoAssumption, Chans, Err, Status
<1> USE DEF TypeOK, RingTypes, ThreadTypes, CountTypes, Stages, RxOrder, RxDead, ReaderExits,
        OpenerLate, EmuBefore, Empty
<1>1. CASE Boot
  BY <1>1 DEF Boot, readVars, writeVars
<1>2. CASE BootWithoutOpener
  BY <1>2 DEF BootWithoutOpener, readVars, writeVars
<1>3. CASE BootFails
  BY <1>3 DEF BootFails, chanVars, openVars, readVars, writeVars
<1>4. CASE Send
  BY <1>4 DEF Send, Push, Full, openVars, readVars, writeVars
<1>5. CASE Recv
  BY <1>5, RxRecv
<1>6. CASE Destroy
  BY <1>6 DEF Destroy, DestroyClose, DestroyUnref, DestroyFree, Close, DropRef, FreeChan,
         openVars, readVars, writeVars
<1>7. CASE Open
  BY <1>7 DEF Open, chanVars, emuVars, readVars, writeVars
<1>8. CASE StartReader
  BY <1>8 DEF StartReader, chanVars, emuVars, writeVars
<1>9. CASE StartWriter
  BY <1>9 DEF StartWriter, chanVars, emuVars, readVars
<1>10. CASE OpenerFail
  BY <1>10 DEF OpenerFail, chanVars, emuVars, readVars, writeVars
<1>11. CASE OpenerRelease
  BY <1>11, RxRelease
<1>12. CASE ReaderRead
  BY <1>12, RxRead
<1>13. CASE ReaderSend
  BY <1>13, RxSend
<1>14. CASE ReaderExit
  BY <1>14 DEF ReaderExit, ReaderClose, ReaderUnref, ReaderFree, ReaderCloseFd,
         Close, DropRef, FreeChan, chanVars, emuVars, openVars, writeVars
<1>15. CASE WriterRecv
  BY <1>15 DEF WriterRecv, Pop, Empty, Over, emuVars, openVars, readVars
<1>16. CASE WriterWrite
  BY <1>16 DEF WriterWrite, chanVars, emuVars, openVars, readVars
<1>17. CASE WriterExit
  BY <1>17 DEF WriterExit, WriterClose, WriterUnref, WriterFree, WriterCloseFd,
         Close, DropRef, FreeChan, chanVars, emuVars, openVars, readVars
<1>18. CASE SpuriousWakeup
  BY <1>18 DEF SpuriousWakeup, emuVars, openVars, readVars, writeVars
<1>19. CASE UNCHANGED vars
  BY <1>19 DEF vars, chanVars, emuVars, openVars, readVars, writeVars
<1>20. QED
  BY <1>1, <1>2, <1>3, <1>4, <1>5, <1>6, <1>7, <1>8, <1>9, <1>10,
     <1>11, <1>12, <1>13, <1>14, <1>15, <1>16, <1>17, <1>18, <1>19
  DEF Next, EmuStep, OpenerStep, ReaderStep, WriterStep

-----------------------------------------------------------------------------
(***************************************************************************)
(* Order of the sent bytes.                                                *)
(***************************************************************************)
\* io_send adds the next byte at the end (session.c io_send).
LEMMA TxSend == ASSUME TypeOK, TxOrder, Send PROVE TxOrder'
<1> DEFINE s == ring["send"]
<1>1. /\ UNCHANGED <<closed, writer, wHand, txLast, txEnd>> /\ txSent' = txSent + 1
      /\ "send" \notin closed /\ s \in Seq(Nat) /\ ring'["send"] = Append(s, txSent + 1)
  BY DEF Send, Push, writeVars, TypeOK, RingTypes, Chans
<1>2. txLast \in Nat /\ txSent \in Nat /\ TxTaken \in Nat /\ TxTaken' = TxTaken /\ Len(s) \in Nat
  BY <1>1, IoAssumption DEF IoAssumption, TypeOK, CountTypes, TxTaken
<1>3. ~EndsInErr(s)
  BY NoErr, IoAssumption DEF IoAssumption, TypeOK, RingTypes
<1>4. txSent + 1 = txLast + TxTaken + Len(s) + 1
  BY <1>2 DEF TxOrder
<1>5. Len(Append(s, txSent + 1)) = Len(s) + 1 /\ InOrder(Append(s, txSent + 1), txLast + TxTaken)
  <2> DEFINE x == txLast + TxTaken
  <2>1. x \in Nat /\ txSent + 1 \in Nat
    BY <1>2
  <2>4. txSent + 1 = x + Len(s) + 1
    BY <1>4
  <2>2. InOrder(s, x)
    BY DEF TxOrder
  <2> HIDE DEF x
  <2>3. Len(Append(s, txSent + 1)) = Len(s) + 1 /\ InOrder(Append(s, txSent + 1), x)
    BY <1>1, <1>3, <2>1, <2>2, <2>4, PutLast
  <2> QED
    BY <2>3 DEF x
<1> QED
  BY <1>1, <1>2, <1>4, <1>5 DEF TxOrder, WriterDrained, Over

\* The writer takes the next byte, or leaves a drained ring (session.c writer_thread).
LEMMA TxRecv == ASSUME TypeOK, TxOrder, WriterRecv PROVE TxOrder'
<1> DEFINE s == ring["send"]
           q == ring'["send"]
<1>1. UNCHANGED <<closed, txSent, txLast, txEnd>> /\ writer = "recv" /\ txEnd = "open"
  BY DEF WriterRecv, emuVars, TxOrder, WriterExits, TypeOK, ThreadTypes
<1>2. /\ s \in Seq(Nat) /\ txLast \in Nat /\ txSent \in Nat /\ Len(s) \in Nat
      /\ TxTaken = 0 /\ wHand = Err
  BY <1>1, IoAssumption DEF IoAssumption, TypeOK, RingTypes, CountTypes, Chans, TxTaken, TxOrder
<1>3. CASE UNCHANGED <<ring, wHand, writer>>
  BY <1>1, <1>3 DEF TxOrder, WriterDrained, Over, Empty, TxTaken
<1>4. CASE Over("send") /\ UNCHANGED <<ring, wHand>> /\ writer' = "close"
  BY <1>1, <1>2, <1>4 DEF TxOrder, WriterDrained, WriterExits, Over, Empty, TxTaken
<1>5. CASE s # <<>> /\ q = Tail(s) /\ wHand' = Head(s) /\ writer' = "write"
  <2>1. Head(s) # Err
    BY <1>5, NoErr, IoAssumption DEF IoAssumption, TypeOK, RingTypes
  <2>2. /\ Head(s) = txLast + 1 /\ Len(Tail(s)) = Len(s) - 1 /\ InOrder(Tail(s), txLast + 1)
    BY <1>2, <1>5, <2>1, TakeByte DEF TxOrder
  <2>3. TxTaken' = 1
    BY <1>5 DEF TxTaken
  <2> QED
    <3>1. InOrder(ring["send"], txLast + TxTaken)' /\ Len(q) = Len(s) - 1
      BY <1>1, <1>5, <2>2, <2>3
    <3>2. txSent' = txLast' + TxTaken' + Len(q)
      <4>1. txSent = txLast + Len(s)
        BY <1>2 DEF TxOrder
      <4>2. txSent' = txSent /\ txLast' = txLast /\ TxTaken' = 1
        BY <1>1, <2>3
      <4>3. Len(q) = Len(s) - 1 /\ txLast \in Nat /\ Len(s) \in Nat
        BY <1>2, <3>1
      <4> HIDE DEF s, q
      <4> QED
        BY <4>1, <4>2, <4>3
    <3> QED
      BY <1>1, <1>5, <2>1, <2>2, <3>1, <3>2 DEF TxOrder, WriterDrained, WriterExits
<1> QED
  BY <1>3, <1>4, <1>5 DEF WriterRecv, Pop, Empty, TypeOK, RingTypes, Chans

\* The writer writes the byte it took, or gives up (session.c writer_thread).
LEMMA TxWrite == ASSUME TypeOK, TxOrder, WriterWrite PROVE TxOrder'
<1>1. /\ UNCHANGED <<ring, closed, txSent>> /\ writer = "write" /\ wHand' = Err
      /\ txEnd = "open" /\ wHand = txLast + 1 /\ TxTaken = 1
  BY DEF WriterWrite, chanVars, emuVars, TxOrder, WriterExits, TypeOK, ThreadTypes, TxTaken
<1>2. txLast \in Nat /\ txSent \in Nat /\ Len(ring["send"]) \in Nat
  BY IoAssumption DEF IoAssumption, TypeOK, RingTypes, CountTypes, Chans
<1>3. CASE writer' = "recv" /\ txLast' = wHand /\ txEnd' = txEnd
  <2>1. TxTaken' = 0
    BY <1>1, <1>3 DEF TxTaken
  <2> QED
    BY <1>1, <1>2, <1>3, <2>1 DEF TxOrder, WriterDrained, WriterExits
<1>4. CASE writer' = "close" /\ txEnd' = "failed" /\ txLast' = txLast
  <2>1. TxTaken' = 1
    BY <1>4 DEF TxTaken
  <2> QED
    BY <1>1, <1>2, <1>4, <2>1 DEF TxOrder, WriterDrained, WriterExits
<1> QED
  BY <1>3, <1>4 DEF WriterWrite

\* Every step keeps the sent bytes in order, none lost (session.c).
LEMMA TxStep ==
  ASSUME TypeOK, Stages, TxOrder, [Next]_vars
  PROVE  TxOrder'
<1> USE IoAssumption DEF IoAssumption, Chans, Err, Status
<1> USE DEF TypeOK, RingTypes, ThreadTypes, CountTypes, Stages, TxOrder, TxTaken, WriterDrained,
        WriterExits, Over, Empty
<1>1. CASE Boot
  BY <1>1 DEF Boot, readVars, writeVars
<1>2. CASE BootWithoutOpener
  BY <1>2 DEF BootWithoutOpener, readVars, writeVars
<1>3. CASE BootFails
  BY <1>3 DEF BootFails, chanVars, openVars, readVars, writeVars
<1>4. CASE Send
  BY <1>4, TxSend
<1>5. CASE Recv
  BY <1>5 DEF Recv, Pop, Empty, Over, openVars, readVars, writeVars
<1>6. CASE Destroy
  BY <1>6 DEF Destroy, DestroyClose, DestroyUnref, DestroyFree, Close, DropRef, FreeChan,
         openVars, readVars, writeVars
<1>7. CASE Open
  BY <1>7 DEF Open, chanVars, emuVars, readVars, writeVars
<1>8. CASE StartReader
  BY <1>8 DEF StartReader, chanVars, emuVars, writeVars
<1>9. CASE StartWriter
  BY <1>9 DEF StartWriter, chanVars, emuVars, readVars
<1>10. CASE OpenerFail
  BY <1>10 DEF OpenerFail, chanVars, emuVars, readVars, writeVars
<1>11. CASE OpenerRelease
  BY <1>11 DEF OpenerRelease, OpenerClose, OpenerUnref, OpenerFree, Close, DropRef, FreeChan,
         chanVars, emuVars, readVars, writeVars
<1>12. CASE ReaderRead
  BY <1>12 DEF ReaderRead, chanVars, emuVars, openVars, writeVars
<1>13. CASE ReaderSend
  BY <1>13 DEF ReaderSend, Push, Full, emuVars, openVars, writeVars
<1>14. CASE ReaderExit
  BY <1>14 DEF ReaderExit, ReaderClose, ReaderUnref, ReaderFree, ReaderCloseFd,
         Close, DropRef, FreeChan, chanVars, emuVars, openVars, writeVars
<1>15. CASE WriterRecv
  BY <1>15, TxRecv
<1>16. CASE WriterWrite
  BY <1>16, TxWrite
<1>17. CASE WriterExit
  BY <1>17 DEF WriterExit, WriterClose, WriterUnref, WriterFree, WriterCloseFd,
         Close, DropRef, FreeChan, chanVars, emuVars, openVars, readVars
<1>18. CASE SpuriousWakeup
  BY <1>18 DEF SpuriousWakeup, emuVars, openVars, readVars, writeVars
<1>19. CASE UNCHANGED vars
  BY <1>19 DEF vars, chanVars, emuVars, openVars, readVars, writeVars
<1>20. QED
  BY <1>1, <1>2, <1>3, <1>4, <1>5, <1>6, <1>7, <1>8, <1>9, <1>10,
     <1>11, <1>12, <1>13, <1>14, <1>15, <1>16, <1>17, <1>18, <1>19
  DEF Next, EmuStep, OpenerStep, ReaderStep, WriterStep

-----------------------------------------------------------------------------
(***************************************************************************)
(* The invariant.                                                          *)
(***************************************************************************)
\* The inductive invariant holds before the session is booted.
LEMMA InvInit == Init => IInv
<1> SUFFICES ASSUME Init PROVE IInv
  OBVIOUS
<1>1. TypeOK
  BY TypeInit
<1>2. Stages /\ FdOwners /\ NoLostWakeup
  BY DEF Init, Stages, FdOwners, NoLostWakeup
<1>3. NoUseAfterFree
  BY DEF Init, NoUseAfterFree, Chans, Count, EmuHolds, PumpHolds, BootHolds, EmuFrees,
         OpenerFrees, PumpFrees
<1>4. ring["recv"] = <<>> /\ ring["send"] = <<>>
  BY DEF Init, Chans
<1>5. InOrder(<<>>, 0) /\ ~EndsInErr(<<>>) /\ Len(<<>>) = 0
  BY EmptyInOrder
<1>6. RxOrder
  BY <1>4, <1>5 DEF Init, RxOrder, EmuBefore, ReaderExits
<1>7. TxOrder
  <2>1. TxTaken = 0
    BY DEF Init, TxTaken
  <2> QED
    BY <1>4, <1>5, <2>1 DEF Init, TxOrder, WriterDrained, WriterExits, Err
<1> QED
  BY <1>1, <1>2, <1>3, <1>6, <1>7 DEF IInv

\* ssu/chan.c and ssu/session.c keep the inductive invariant in every step.
THEOREM Inductive == Spec => []IInv
<1>1. IInv /\ [Next]_vars => IInv'
  BY TypeStep, StagesStep, FdStep, WakeStep, RefStep, RxStep, TxStep DEF IInv
<1> QED
  BY <1>1, InvInit, PTL DEF Spec

\* Every variable keeps its type: rings no longer than their capacity, counts no larger than
\* the bounds.
THEOREM TypeCorrect == Spec => []TypeOK
BY Inductive, PTL DEF IInv

\* chan.c: no channel is used after it is freed, or freed twice.
THEOREM ChannelsAreSafe == Spec => []NoUseAfterFree
BY Inductive, PTL DEF IInv

\* chan.c: no pump thread sleeps through what it waits for.
THEOREM WakeupsAreSafe == Spec => []NoLostWakeup
BY Inductive, PTL DEF IInv

\* session.c: stopped threads leave no descriptor open and no channel allocated.
THEOREM LeavesNothing == Spec => []NothingLeft
<1>1. IInv => NothingLeft
  <2> SUFFICES ASSUME IInv, AllStopped PROVE Released
    BY DEF NothingLeft
  <2>1. fds = {}
    BY DEF IInv, TypeOK, ChanTypes, FdOwners, AllStopped
  <2>2. boot = {}
    BY DEF IInv, TypeOK, ChanTypes, Stages, AllStopped, Chans
  <2>3. ASSUME NEW c \in Chans PROVE c \notin live
    BY <2>2 DEF IInv, NoUseAfterFree, AllStopped, Chans, Count, EmuHolds, PumpHolds, BootHolds,
           EmuFrees, OpenerFrees, PumpFrees
  <2> QED
    BY <2>1, <2>3 DEF IInv, TypeOK, ChanTypes, Released
<1> QED
  BY <1>1, Inductive, PTL

-----------------------------------------------------------------------------
(***************************************************************************)
(* Refinement: each direction implements SessionPipe.                      *)
(***************************************************************************)
\* The receive direction (reader_thread, io_recv): each step puts a byte in, takes the
\* next one out, reports the end of a drained pipe, or changes nothing of it.
LEMMA RxPipeStep == ASSUME IInv, [Next]_vars PROVE [RxPipe!Next]_(RxPipe!vars)
<1> USE DEF RxPipe!Next, RxPipe!vars
<1> DEFINE r == ring["recv"]
<1>1. /\ r \in Seq(Nat) /\ Len(r) \in Nat /\ Len(r) <= Cap /\ Cap \in Nat
      /\ rxRead \in Nat /\ rxLast \in Nat
  BY IoAssumption DEF IoAssumption, IInv, TypeOK, RingTypes, CountTypes, Chans
<1>2. CASE ReaderRead
  <2>1. rxRead = rxLast + Len(r) /\ UNCHANGED <<rxLast, rxEnd>>
    BY <1>2 DEF ReaderRead, emuVars, IInv, RxOrder, ReaderExits
  <2>2. rxRead - rxLast < Cap + 1
    <3> HIDE DEF r
    <3> QED
      BY <1>1, <2>1
  <2> QED
    BY <1>2, <2>1, <2>2 DEF ReaderRead, RxPipe!Accept
<1>3. CASE Recv
  <2>1. UNCHANGED rxRead /\ emu = "up"
    BY <1>3 DEF Recv, readVars
  <2>2. CASE UNCHANGED <<rxLast, rxEnd>>
    BY <2>1, <2>2
  <2>3. CASE r # <<>> /\ Head(r) # Err /\ rxLast' = Head(r) /\ UNCHANGED rxEnd
    <3>1. rxLast' = rxLast + 1 /\ (EndsInErr(Tail(r)) <=> EndsInErr(r)) /\ Len(Tail(r)) = Len(r) - 1
      BY <1>1, <2>3, TakeByte DEF IInv, RxOrder
    <3>2. rxEnd # "ended"
      BY <2>3 DEF IInv, RxOrder, Empty
    <3>3. EndsInErr(r) => Len(r) # 1
      BY <2>3 DEF EndsInErr
    <3>4. Len(r) # 0
      BY <1>1, <2>3, EmptySeq
    <3>5. EndsInErr(r) => rxRead + 1 = rxLast + Len(r)
      BY DEF IInv, RxOrder
    <3>6. ~EndsInErr(r) => rxRead = rxLast + Len(r) \/ rxRead = rxLast + Len(r) + 1
      BY DEF IInv, RxOrder
    <3>7. \/ rxRead + 1 = rxLast + Len(r) /\ Len(r) # 1
          \/ rxRead = rxLast + Len(r)
          \/ rxRead = rxLast + Len(r) + 1
      BY <3>3, <3>5, <3>6
    <3>8. rxLast < rxRead
      <4> DEFINE n == Len(r)
      <4>1. n \in Int /\ n > 0 /\ rxRead \in Int /\ rxLast \in Int
        BY <1>1, <3>4
      <4>2. \/ rxRead + 1 = rxLast + n /\ n # 1
            \/ rxRead = rxLast + n
            \/ rxRead = rxLast + n + 1
        BY <3>7
      <4> HIDE DEF n
      <4> QED
        BY <4>1, <4>2
    <3> QED
      BY <2>1, <2>3, <3>1, <3>2, <3>8 DEF RxPipe!Deliver
  <2>4. CASE r # <<>> /\ Head(r) = Err /\ rxEnd' = "ended" /\ UNCHANGED rxLast
    <3>1. EndsInErr(r) /\ Len(r) = 1
      BY <1>1, <2>4, TakeErr DEF IInv, RxOrder
    <3>2. rxRead + 1 = rxLast + 1
      BY <3>1 DEF IInv, RxOrder
    <3> QED
      BY <1>1, <2>1, <2>4, <3>2 DEF RxPipe!End
  <2>5. CASE Over("recv") /\ rxEnd' = "ended" /\ UNCHANGED rxLast
    <3>1. r = <<>> /\ RxDead
      BY <2>1, <2>5 DEF Over, Empty, IInv, RxOrder, EmuBefore
    <3>2. rHand = Err
      BY <2>1, <3>1 DEF IInv, RxOrder, RxDead, EmuBefore
    <3>3. ~EndsInErr(r) /\ Len(r) = 0
      BY <3>1 DEF EndsInErr
    <3>4. rxRead = rxLast + 0
      BY <3>2, <3>3 DEF IInv, RxOrder
    <3> QED
      BY <1>1, <2>1, <2>5, <3>4 DEF RxPipe!End
  <2> QED
    BY <1>3, <2>2, <2>3, <2>4, <2>5 DEF Recv, Empty
<1>4. CASE UNCHANGED <<rxRead, rxLast, rxEnd>>
  BY <1>4
<1>5. Next => ReaderRead \/ Recv \/ UNCHANGED <<rxRead, rxLast, rxEnd>>
  BY DEF Next, EmuStep, OpenerStep, ReaderStep, WriterStep,
         Boot, readVars, writeVars, BootWithoutOpener, BootFails, chanVars,
         openVars, Send, Push, Full, Recv, Pop, Empty, Over, Destroy,
         DestroyClose, DestroyUnref, DestroyFree, Open, emuVars, StartReader,
         StartWriter, OpenerFail, OpenerRelease, OpenerClose, OpenerUnref,
         OpenerFree, ReaderRead, ReaderSend, ReaderExit, ReaderClose,
         ReaderUnref, ReaderFree, ReaderCloseFd, WriterRecv, WriterWrite,
         WriterExit, WriterClose, WriterUnref, WriterFree, WriterCloseFd,
         SpuriousWakeup
<1>6. UNCHANGED vars => UNCHANGED <<rxRead, rxLast, rxEnd>>
  BY DEF vars, emuVars, readVars
<1> QED
  BY <1>2, <1>3, <1>4, <1>5, <1>6

\* session.c: what is received is what was read, in order, none lost or repeated, and the
\* end is reported only after the last byte.
THEOREM RxImplementsPipe == Spec => RxIsPipe
<1>1. Init => RxPipe!Init
  BY DEF Init, RxPipe!Init
<1> QED
  BY <1>1, RxPipeStep, Inductive, PTL DEF Spec, RxIsPipe, RxPipe!Spec

\* The send direction (io_send, writer_thread), likewise.
LEMMA TxPipeStep == ASSUME IInv, [Next]_vars PROVE [TxPipe!Next]_(TxPipe!vars)
<1> USE DEF TxPipe!Next, TxPipe!vars
<1> DEFINE s == ring["send"]
<1>1. /\ Len(s) \in Nat /\ Len(s) <= Cap /\ Cap \in Nat
      /\ txSent \in Nat /\ txLast \in Nat /\ TxTaken \in 0..1
      /\ txSent = txLast + TxTaken + Len(s)
  BY IoAssumption DEF IoAssumption, IInv, TypeOK, RingTypes, CountTypes, Chans, TxTaken, TxOrder
<1>2. CASE Send
  <2>1. Len(s) # Cap /\ txSent' = txSent + 1 /\ UNCHANGED <<txLast, writer, txEnd>>
    BY <1>2 DEF Send, Full, writeVars
  <2>2. txSent - txLast < Cap + 1
    <3> HIDE DEF s
    <3> QED
      BY <1>1, <2>1
  <2> QED
    BY <2>1, <2>2 DEF TxPipe!Accept, WriterDrained
<1>3. CASE WriterWrite
  <2>1. UNCHANGED txSent /\ writer = "write" /\ wHand = txLast + 1
    BY <1>3 DEF WriterWrite, emuVars, IInv, TxOrder
  <2>2. TxTaken = 1 /\ ~WriterDrained
    BY <2>1 DEF TxTaken, WriterDrained, WriterExits
  <2>3. CASE writer' = "recv" /\ txLast' = wHand
    <3>1. txLast < txSent
      <4> HIDE DEF s
      <4> QED
        BY <1>1, <2>2
    <3>2. ~WriterDrained'
      BY <2>3 DEF WriterDrained, WriterExits
    <3>3. txLast' = txLast + 1
      BY <2>1, <2>3
    <3>4. UNCHANGED <<txSent, WriterDrained>>
      <4>1. WriterDrained' = WriterDrained
        BY <2>2, <3>2, ZenonT(30) DEF WriterDrained
      <4> QED
        BY <2>1, <4>1
    <3> QED
      BY <2>2, <3>1, <3>3, <3>4 DEF TxPipe!Deliver
  <2>4. CASE txEnd' = "failed" /\ UNCHANGED txLast
    BY <2>1, <2>2, <2>4 DEF WriterDrained
  <2> QED
    BY <1>3, <2>3, <2>4 DEF WriterWrite
<1>4. CASE WriterRecv
  <2>1. UNCHANGED <<txSent, txLast, txEnd>> /\ writer = "recv" /\ ~WriterDrained
    BY <1>4 DEF WriterRecv, emuVars, WriterDrained, WriterExits
  <2>2. CASE writer' \in {"recv", "write"}
    BY <2>1, <2>2 DEF WriterDrained, WriterExits
  <2>3. CASE Over("send") /\ writer' = "close"
    <3>1. txEnd = "open" /\ s = <<>>
      BY <2>1, <2>3 DEF IInv, TypeOK, ThreadTypes, TxOrder, WriterExits, Over, Empty
    <3>2. TxTaken = 0 /\ Len(s) = 0
      BY <2>1, <3>1 DEF TxTaken
    <3>3. txLast = txSent
      <4> HIDE DEF s
      <4> QED
        BY <1>1, <3>2
    <3>4. WriterDrained'
      BY <2>1, <2>3, <3>1 DEF WriterDrained, WriterExits
    <3> QED
      BY <2>1, <3>3, <3>4 DEF TxPipe!End
  <2> QED
    BY <1>4, <2>1, <2>2, <2>3 DEF WriterRecv
<1>5. CASE UNCHANGED <<txSent, txLast, WriterDrained>>
  BY <1>5
<1>6. Next => Send \/ WriterWrite \/ WriterRecv \/ UNCHANGED <<txSent, txLast, WriterDrained>>
  <2>1. StartWriter => /\ UNCHANGED <<txSent, txLast, txEnd>>
                       /\ writer = "none" /\ writer' \in {"none", "recv"}
    BY DEF StartWriter, emuVars, IInv, Stages
  <2>2. StartWriter => UNCHANGED <<txSent, txLast, WriterDrained>>
    BY <2>1 DEF WriterDrained, WriterExits
  <2>3. WriterExit => /\ UNCHANGED <<txSent, txLast, txEnd>>
                      /\ writer \in WriterExits /\ writer' \in WriterExits
    BY DEF WriterExit, WriterClose, WriterUnref, WriterFree, WriterCloseFd, Close, DropRef,
           FreeChan, emuVars, WriterExits
  <2>4. WriterExit => UNCHANGED <<txSent, txLast, WriterDrained>>
    BY <2>3 DEF WriterDrained
  <2>5. \/ EmuStep /\ ~Send
        \/ OpenerStep /\ ~StartWriter
        \/ ReaderStep \/ SpuriousWakeup
        => UNCHANGED <<txSent, txLast, txEnd, writer>>
    BY DEF EmuStep, OpenerStep, ReaderStep,
         Boot, readVars, writeVars, BootWithoutOpener, BootFails, chanVars,
         openVars, Send, Push, Full, Recv, Pop, Empty, Over, Destroy,
         DestroyClose, DestroyUnref, DestroyFree, Open, emuVars, StartReader,
         StartWriter, OpenerFail, OpenerRelease, OpenerClose, OpenerUnref,
         OpenerFree, ReaderRead, ReaderSend, ReaderExit, ReaderClose,
         ReaderUnref, ReaderFree, ReaderCloseFd, WriterRecv, WriterWrite,
         WriterExit, WriterClose, WriterUnref, WriterFree, WriterCloseFd,
         SpuriousWakeup
  <2>6. UNCHANGED <<txSent, txLast, txEnd, writer>> => UNCHANGED <<txSent, txLast, WriterDrained>>
    BY DEF WriterDrained
  <2> QED
    BY <2>2, <2>4, <2>5, <2>6 DEF Next, EmuStep, OpenerStep, WriterStep
<1>7. UNCHANGED vars => UNCHANGED <<txSent, txLast, WriterDrained>>
  BY DEF vars, emuVars, writeVars, WriterDrained
<1> QED
  BY <1>2, <1>3, <1>4, <1>5, <1>6, <1>7

\* session.c: what is written is what was sent, in order, none lost or repeated, and the
\* writer leaves a healthy descriptor only with nothing left to write.
THEOREM TxImplementsPipe == Spec => TxIsPipe
<1>1. Init => TxPipe!Init
  BY DEF Init, TxPipe!Init, WriterDrained, WriterExits
<1> QED
  BY <1>1, TxPipeStep, Inductive, PTL DEF Spec, TxIsPipe, TxPipe!Spec

\* session.c, chan.c: both directions of a session are pipes, whatever fails.
THEOREM ImplementPipes == Spec => ChannelsArePipes
BY RxImplementsPipe, TxImplementsPipe DEF ChannelsArePipes
=============================================================================
