----------------------------- MODULE IoSession -----------------------------
(***************************************************************************)
(* A pipe, exec or pty session (ssu/session.c) over two cross-thread       *)
(* channels (ssu/chan.c).  The emulation thread owns the endpoints; an     *)
(* opener thread opens the descriptors and starts a reader thread (fd ->   *)
(* "recv" channel) and a writer thread ("send" channel -> fd).             *)
(*                                                                         *)
(* One action is one critical section of a channel's mutex, or one system  *)
(* call.  Bytes are numbered in the order they enter, so the k-th byte is  *)
(* k; Err stands for a ring element with err # 0.                          *)
(***************************************************************************)
EXTENDS Integers, Sequences

CONSTANTS Cap,    \* SSU_CHAN_CAP
          MaxRx,  \* bound: bytes the peer ever writes to us
          MaxTx   \* bound: bytes the terminal ever sends

ASSUME IoAssumption == Cap \in Nat \ {0} /\ MaxRx \in Nat /\ MaxTx \in Nat

VARIABLES
  ring, refs,                \* per channel: elements, reference count
  closed, live,              \* the channels that are closed; that are allocated
  asleep,                    \* threads in pthread_cond_wait, not yet signalled
  fds,                       \* descriptors of the session that are open
  emu, opener, reader, writer,  \* where each thread is
  boot,                      \* channels on which struct io_boot still holds a ref
  rHand, wHand,              \* the element a pump thread has taken and not passed on
  recvStatus,                \* what io_recv returned last
  rxRead, rxLast, rxEnd,     \* history: bytes read, last byte received, end reported
  txSent, txLast, txEnd      \* history: bytes accepted, last byte written, write error

chanVars == <<ring, closed, refs, live, asleep>>
emuVars  == <<emu, recvStatus, rxLast, rxEnd, txSent>>
openVars == <<opener, boot>>
readVars == <<reader, rHand, rxRead>>
writeVars == <<writer, wHand, txLast, txEnd>>
vars == <<chanVars, emuVars, openVars, readVars, writeVars, fds>>

Chans == {"send", "recv"}
Err == 0
Status == {"OK", "WOULD_BLOCK", "ERR"}

(***************************************************************************)
(* Channel operations.  The only thread that ever waits on not_empty is    *)
(* the writer (on "send"); on not_full, the reader (on "recv").            *)
(***************************************************************************)
NotEmptyWaiters(c) == IF c = "send" THEN {"writer"} ELSE {}
NotFullWaiters(c)  == IF c = "recv" THEN {"reader"} ELSE {}

Push(c, e) == /\ ring' = [ring EXCEPT ![c] = Append(@, e)]
              /\ asleep' = asleep \ NotEmptyWaiters(c)

PopUnsignalled(c) == ring' = [ring EXCEPT ![c] = Tail(@)] /\ UNCHANGED asleep
Pop(c) == /\ ring' = [ring EXCEPT ![c] = Tail(@)]
          /\ asleep' = asleep \ NotFullWaiters(c)

CloseWakesReceivers(c) == /\ closed' = closed \cup {c}
                          /\ asleep' = asleep \ NotEmptyWaiters(c)
                          /\ UNCHANGED <<ring, refs, live>>
Close(c) == /\ closed' = closed \cup {c}
            /\ asleep' = asleep \ (NotEmptyWaiters(c) \cup NotFullWaiters(c))
            /\ UNCHANGED <<ring, refs, live>>

DropRef(c) == /\ refs' = [refs EXCEPT ![c] = @ - 1]
              /\ UNCHANGED <<ring, closed, live, asleep>>

FreeChan(c) == /\ live' = live \ {c}
               /\ UNCHANGED <<ring, closed, refs, asleep>>

Full(c) == Len(ring[c]) = Cap
Empty(c) == ring[c] = <<>>

\* In-flight elements are still delivered after close.
OverAtClose(c) == c \in closed
Over(c) == c \in closed /\ Empty(c)

Init == /\ ring = [c \in Chans |-> <<>>]
        /\ closed = {}
        /\ refs = [c \in Chans |-> 0]
        /\ live = {}
        /\ asleep = {} /\ fds = {} /\ boot = {}
        /\ emu = "unbooted" /\ opener = "none" /\ reader = "none" /\ writer = "none"
        /\ rHand = Err /\ wHand = Err
        /\ recvStatus = "OK"
        /\ rxRead = 0 /\ rxLast = 0 /\ rxEnd = "open"
        /\ txSent = 0 /\ txLast = 0 /\ txEnd = "open"

(***************************************************************************)
(* The emulation thread: boot_io, io_send, io_recv, io_destroy.            *)
(***************************************************************************)
Boot == /\ emu = "unbooted"
        /\ emu' = "up"
        /\ live' = Chans
        /\ refs' = [c \in Chans |-> 2]
        /\ boot' = Chans
        /\ opener' = "open"
        /\ UNCHANGED <<ring, closed, asleep, recvStatus, rxLast, rxEnd,
                       txSent, readVars, writeVars, fds>>

\* pthread_create fails: the session starts, closed on both sides.
BootWithoutOpener ==
        /\ emu = "unbooted"
        /\ emu' = "up"
        /\ live' = Chans
        /\ refs' = [c \in Chans |-> 1]
        /\ closed' = Chans
        /\ opener' = "done"
        /\ UNCHANGED <<ring, asleep, recvStatus, rxLast, rxEnd, txSent,
                       boot, readVars, writeVars, fds>>

\* Allocation fails: no session, and nothing is left allocated.
BootFails == /\ emu = "unbooted"
             /\ emu' = "gone"
             /\ UNCHANGED <<chanVars, recvStatus, rxLast, rxEnd, txSent,
                            openVars, readVars, writeVars, fds>>

\* ssu_chan_try_send; its refusals (0 full, -1 closed) change nothing.
Send ==
  /\ emu = "up" /\ txSent < MaxTx
  /\ "send" \notin closed /\ ~Full("send")
  /\ Push("send", txSent + 1)
  /\ txSent' = txSent + 1
  /\ UNCHANGED <<closed, refs, live, emu, recvStatus, rxLast, rxEnd,
                 openVars, readVars, writeVars, fds>>

Recv ==
  /\ emu = "up"
  /\ \/ /\ ~Over("recv") /\ ~Empty("recv")
        /\ Pop("recv")
        /\ \/ /\ Head(ring["recv"]) = Err
              /\ recvStatus' = "ERR" /\ rxEnd' = "ended"
              /\ UNCHANGED rxLast
           \/ /\ Head(ring["recv"]) # Err
              /\ recvStatus' = "OK" /\ rxLast' = Head(ring["recv"])
              /\ UNCHANGED rxEnd
     \/ /\ ~Over("recv") /\ Empty("recv")
        /\ recvStatus' = "WOULD_BLOCK"
        /\ UNCHANGED <<ring, asleep, rxLast, rxEnd>>
     \/ /\ Over("recv")
        /\ recvStatus' = "ERR" /\ rxEnd' = "ended"
        /\ UNCHANGED <<ring, asleep, rxLast>>
  /\ UNCHANGED <<closed, refs, live, emu, txSent,
                 openVars, readVars, writeVars, fds>>

\* io_destroy: close and unref "send", then close and unref "recv"; the last
\* unref frees after the mutex has been released.
DestroyClose(c, at, next) ==
  /\ emu = at /\ emu' = next
  /\ Close(c)
  /\ UNCHANGED <<recvStatus, rxLast, rxEnd, txSent,
                 openVars, readVars, writeVars, fds>>

DestroyUnref(c, at, free, next) ==
  /\ emu = at
  /\ emu' = IF refs[c] = 1 THEN free ELSE next
  /\ DropRef(c)
  /\ UNCHANGED <<recvStatus, rxLast, rxEnd, txSent,
                 openVars, readVars, writeVars, fds>>

DestroyFree(c, at, next) ==
  /\ emu = at /\ emu' = next
  /\ FreeChan(c)
  /\ UNCHANGED <<recvStatus, rxLast, rxEnd, txSent,
                 openVars, readVars, writeVars, fds>>

Destroy ==
  \/ DestroyClose("send", "up", "unref_send")
  \/ DestroyUnref("send", "unref_send", "free_send", "close_recv")
  \/ DestroyFree("send", "free_send", "close_recv")
  \/ DestroyClose("recv", "close_recv", "unref_recv")
  \/ DestroyUnref("recv", "unref_recv", "free_recv", "gone")
  \/ DestroyFree("recv", "free_recv", "gone")

(***************************************************************************)
(* The opener thread.                                                      *)
(***************************************************************************)
\* The open_* function of the session's kind succeeds, or fails and leaves no
\* descriptor behind (ExecOpen looks inside it).
Open == /\ opener = "open"
        /\ \/ opener' = "start_reader" /\ fds' = {"rfd", "wfd"}
           \/ opener' = "fail" /\ UNCHANGED fds
        /\ UNCHANGED <<chanVars, emuVars, boot, readVars, writeVars>>

StartReaderKeepingRef ==
  /\ opener = "start_reader"
  /\ opener' = "start_writer" /\ reader' = "read"
  /\ UNCHANGED <<chanVars, emuVars, boot, rHand, rxRead, writeVars, fds>>
StartReader ==
  /\ opener = "start_reader"
  /\ \/ /\ opener' = "start_writer" /\ reader' = "read"
        /\ boot' = boot \ {"recv"}
     \/ opener' = "fail" /\ UNCHANGED <<reader, boot>>
  /\ UNCHANGED <<chanVars, emuVars, rHand, rxRead, writeVars, fds>>

StartWriter ==
  /\ opener = "start_writer"
  /\ \/ /\ opener' = "close_send" /\ writer' = "recv"
        /\ boot' = boot \ {"send"}
     \/ opener' = "fail" /\ UNCHANGED <<writer, boot>>
  /\ UNCHANGED <<chanVars, emuVars, readVars, wHand, txLast, txEnd, fds>>

\* The error branch closes the descriptors no pump thread has taken over.
OpenerFailForgetsFds ==
  /\ opener = "fail" /\ opener' = "close_send"
  /\ UNCHANGED <<chanVars, emuVars, boot, readVars, writeVars, fds>>
OpenerFail ==
  /\ opener = "fail"
  /\ opener' = "close_send"
  /\ fds' = IF reader = "none" THEN {} ELSE fds \ {"wfd"}
  /\ UNCHANGED <<chanVars, emuVars, boot, readVars, writeVars>>

OpenerClose(c, at, next) ==
  /\ opener = at /\ opener' = next
  /\ IF c \in boot THEN Close(c) ELSE UNCHANGED chanVars
  /\ UNCHANGED <<emuVars, boot, readVars, writeVars, fds>>

OpenerUnref(c, at, free, next) ==
  /\ opener = at
  /\ boot' = boot \ {c}
  /\ \/ /\ c \in boot
        /\ opener' = IF refs[c] = 1 THEN free ELSE next
        /\ DropRef(c)
     \/ /\ c \notin boot
        /\ opener' = next
        /\ UNCHANGED chanVars
  /\ UNCHANGED <<emuVars, readVars, writeVars, fds>>

OpenerFree(c, at, next) ==
  /\ opener = at /\ opener' = next
  /\ FreeChan(c)
  /\ UNCHANGED <<emuVars, boot, readVars, writeVars, fds>>

OpenerRelease ==
  \/ OpenerClose("send", "close_send", "close_recv")
  \/ OpenerClose("recv", "close_recv", "unref_send")
  \/ OpenerUnref("send", "unref_send", "free_send", "unref_recv")
  \/ OpenerFree("send", "free_send", "unref_recv")
  \/ OpenerUnref("recv", "unref_recv", "free_recv", "done")
  \/ OpenerFree("recv", "free_recv", "done")

(***************************************************************************)
(* The reader thread.  read() may block for ever: the peer owes us nothing.*)
(***************************************************************************)
ReaderRead ==
  /\ reader = "read"
  /\ reader' = "send"
  /\ \/ /\ rxRead < MaxRx
        /\ rxRead' = rxRead + 1
        /\ rHand' = rxRead + 1
     \/ /\ rHand' = Err          \* end of file or an error, in-band
        /\ UNCHANGED rxRead
  /\ UNCHANGED <<chanVars, emuVars, openVars, writeVars, fds>>

\* ssu_chan_send: push, give up because the channel is closed, or wait.
ReaderSend ==
  /\ reader = "send" /\ "reader" \notin asleep
  /\ \/ /\ "recv" \in closed
        /\ reader' = "close"
        /\ UNCHANGED <<ring, asleep, rHand>>
     \/ /\ "recv" \notin closed /\ Full("recv")
        /\ asleep' = asleep \cup {"reader"}
        /\ UNCHANGED <<ring, reader, rHand>>
     \/ /\ "recv" \notin closed /\ ~Full("recv")
        /\ Push("recv", rHand)
        /\ reader' = IF rHand = Err THEN "close" ELSE "read"
        /\ rHand' = Err
  /\ UNCHANGED <<closed, refs, live, emuVars, openVars, rxRead, writeVars, fds>>

ReaderClose == /\ reader = "close" /\ reader' = "unref"
               /\ Close("recv")
               /\ UNCHANGED <<emuVars, openVars, rHand, rxRead, writeVars, fds>>

ReaderUnref == /\ reader = "unref"
               /\ reader' = IF refs["recv"] = 1 THEN "free" ELSE "close_fd"
               /\ DropRef("recv")
               /\ UNCHANGED <<emuVars, openVars, rHand, rxRead, writeVars, fds>>

ReaderFree == /\ reader = "free" /\ reader' = "close_fd"
              /\ FreeChan("recv")
              /\ UNCHANGED <<emuVars, openVars, rHand, rxRead, writeVars, fds>>

ReaderCloseFd == /\ reader = "close_fd" /\ reader' = "done"
                 /\ fds' = fds \ {"rfd"}
                 /\ UNCHANGED <<chanVars, emuVars, openVars, rHand, rxRead, writeVars>>

ReaderExit == ReaderClose \/ ReaderUnref \/ ReaderFree \/ ReaderCloseFd

(***************************************************************************)
(* The writer thread.  write() blocks while the peer does not read.        *)
(***************************************************************************)
\* ssu_chan_recv: take an element even after close, give up when closed and
\* empty, or wait.
WriterRecv ==
  /\ writer = "recv" /\ "writer" \notin asleep
  /\ \/ /\ ~Over("send") /\ ~Empty("send")
        /\ Pop("send")
        /\ wHand' = Head(ring["send"])
        /\ writer' = "write"
     \/ /\ Over("send")
        /\ writer' = "close"
        /\ UNCHANGED <<ring, asleep, wHand>>
     \/ /\ ~Over("send") /\ Empty("send")
        /\ asleep' = asleep \cup {"writer"}
        /\ UNCHANGED <<ring, writer, wHand>>
  /\ UNCHANGED <<closed, refs, live, emuVars, openVars, readVars, txLast, txEnd, fds>>

\* write_all succeeds, or fails and the thread gives up.
WriterWrite ==
  /\ writer = "write"
  /\ wHand' = Err
  /\ \/ /\ writer' = "recv" /\ txLast' = wHand
        /\ UNCHANGED txEnd
     \/ /\ writer' = "close" /\ txEnd' = "failed"
        /\ UNCHANGED txLast
  /\ UNCHANGED <<chanVars, emuVars, openVars, readVars, fds>>

WriterClose == /\ writer = "close" /\ writer' = "unref"
               /\ Close("send")
               /\ UNCHANGED <<emuVars, openVars, readVars, wHand, txLast, txEnd, fds>>

WriterUnref == /\ writer = "unref"
               /\ writer' = IF refs["send"] = 1 THEN "free" ELSE "close_fd"
               /\ DropRef("send")
               /\ UNCHANGED <<emuVars, openVars, readVars, wHand, txLast, txEnd, fds>>

WriterFree == /\ writer = "free" /\ writer' = "close_fd"
              /\ FreeChan("send")
              /\ UNCHANGED <<emuVars, openVars, readVars, wHand, txLast, txEnd, fds>>

WriterCloseFd == /\ writer = "close_fd" /\ writer' = "done"
                 /\ fds' = fds \ {"wfd"}
                 /\ UNCHANGED <<chanVars, emuVars, openVars, readVars, wHand, txLast, txEnd>>

WriterExit == WriterClose \/ WriterUnref \/ WriterFree \/ WriterCloseFd

\* pthread_cond_wait may return without a signal.
SpuriousWakeup == \E t \in asleep :
  /\ asleep' = asleep \ {t}
  /\ UNCHANGED <<ring, closed, refs, live, emuVars, openVars, readVars, writeVars, fds>>

EmuStep    == Boot \/ BootWithoutOpener \/ BootFails \/ Send \/ Recv \/ Destroy
OpenerStep == Open \/ StartReader \/ StartWriter \/ OpenerFail \/ OpenerRelease
ReaderStep == ReaderRead \/ ReaderSend \/ ReaderExit
WriterStep == WriterRecv \/ WriterWrite \/ WriterExit

Next == EmuStep \/ OpenerStep \/ ReaderStep \/ WriterStep \/ SpuriousWakeup

Spec == Init /\ [][Next]_vars

(***************************************************************************)
(* Fairness.  A thread the kernel can run is run; the emulation loop polls *)
(* io_recv for ever, and finishes a destroy it began.  Nothing makes the   *)
(* peer write or read, so read(), write() and open() get none here ...     *)
(***************************************************************************)
ThreadFairness ==
  /\ WF_vars(Boot \/ BootWithoutOpener \/ BootFails)
  /\ WF_vars(Recv)
  /\ WF_vars(emu # "up" /\ Destroy)
  /\ WF_vars(StartReader \/ StartWriter \/ OpenerFail \/ OpenerRelease)
  /\ WF_vars(ReaderSend \/ ReaderExit)
  /\ WF_vars(WriterRecv \/ WriterExit)

\* ... a cooperative peer lets each of those calls return in the end.
PeerFairness == WF_vars(Open) /\ WF_vars(ReaderRead) /\ WF_vars(WriterWrite)

FairSpec == Spec /\ ThreadFairness
CooperativeSpec == FairSpec /\ PeerFairness

-----------------------------------------------------------------------------
(***************************************************************************)
(* Properties.                                                             *)
(***************************************************************************)
\* Every variable stays in its type; no ring holds more than Cap elements.
RingTypes == /\ ring \in [Chans -> Seq(Nat)]
             /\ ring["recv"] \in Seq(0..MaxRx) /\ ring["send"] \in Seq(1..MaxTx)
             /\ \A c \in Chans : Len(ring[c]) <= Cap
ChanTypes == /\ closed \subseteq Chans /\ live \subseteq Chans /\ boot \subseteq Chans
             /\ asleep \subseteq {"reader", "writer"}
             /\ fds \subseteq {"rfd", "wfd"}
RefTypes == refs \in [Chans -> Int]
ThreadTypes ==
  /\ emu \in {"unbooted", "up", "unref_send", "free_send", "close_recv",
              "unref_recv", "free_recv", "gone"}
  /\ opener \in {"none", "open", "start_reader", "start_writer", "fail", "close_send",
                 "close_recv", "unref_send", "free_send", "unref_recv", "free_recv", "done"}
  /\ reader \in {"none", "read", "send", "close", "unref", "free", "close_fd", "done"}
  /\ writer \in {"none", "recv", "write", "close", "unref", "free", "close_fd", "done"}
  /\ recvStatus \in Status /\ rxEnd \in {"open", "ended"} /\ txEnd \in {"open", "failed"}
CountTypes ==
  /\ rHand \in 0..MaxRx /\ rxRead \in 0..MaxRx /\ rxLast \in 0..MaxRx
  /\ wHand \in 0..MaxTx /\ txSent \in 0..MaxTx /\ txLast \in 0..MaxTx

TypeOK == RingTypes /\ ChanTypes /\ RefTypes /\ ThreadTypes /\ CountTypes

\* Who may still lock a channel, and who is about to free it.
EmuHolds(c) == IF c = "send" THEN emu \in {"up", "unref_send"}
               ELSE emu \in {"up", "unref_send", "free_send", "close_recv", "unref_recv"}
PumpHolds(c) == IF c = "send" THEN writer \in {"recv", "write", "close", "unref"}
                ELSE reader \in {"read", "send", "close", "unref"}
BootHolds(c) == c \in boot
EmuFrees(c) == IF c = "send" THEN emu = "free_send" ELSE emu = "free_recv"
OpenerFrees(c) == IF c = "send" THEN opener = "free_send" ELSE opener = "free_recv"
PumpFrees(c) == IF c = "send" THEN writer = "free" ELSE reader = "free"

Count(b) == IF b THEN 1 ELSE 0

\* chan.c: a channel's count is the number of parties that may still touch it,
\* and it stays allocated while there is one.  A channel that nobody can touch is
\* freed by exactly one thread, so there is neither a use after free nor a double free.
NoUseAfterFree ==
  \A c \in Chans :
    /\ refs[c] = Count(EmuHolds(c)) + Count(PumpHolds(c)) + Count(BootHolds(c))
    /\ Count(EmuFrees(c)) + Count(OpenerFrees(c)) + Count(PumpFrees(c))
         = Count(c \in live /\ refs[c] = 0)
    /\ refs[c] > 0 => c \in live

\* chan.c condition variables: a pump thread sleeps only while what it waits for is
\* false, in whatever order the pushes, pops and closes of the others came.
NoLostWakeup ==
  /\ "reader" \in asleep => reader = "send" /\ Full("recv") /\ "recv" \notin closed
  /\ "writer" \in asleep => writer = "recv" /\ Empty("send") /\ "send" \notin closed

\* Every thread that ever ran has returned.
AllStopped == /\ emu = "gone" /\ opener \in {"none", "done"}
              /\ reader \in {"none", "done"} /\ writer \in {"none", "done"}
Released == fds = {} /\ live = {}

\* session.c: whatever failed on the way, once the threads have stopped no descriptor
\* is open and no channel is allocated.
NothingLeft == AllStopped => Released

(***************************************************************************)
(* The inductive invariant behind these properties: who owns what at each  *)
(* stage of the opener, and what numbers the rings and hands hold.         *)
(***************************************************************************)
ReaderExits == {"close", "unref", "free", "close_fd", "done"}
WriterExits == {"close", "unref", "free", "close_fd", "done"}
OpenerLate  == {"unref_send", "free_send", "unref_recv", "free_recv", "done"}
EmuBefore   == {"up", "unref_send", "free_send", "close_recv"}  \* "recv" not closed by emu yet

Stages ==
  /\ emu = "unbooted" => opener = "none" /\ closed = {}
  /\ opener = "none" => /\ emu \in {"unbooted", "gone"} /\ boot = {} /\ fds = {}
                        /\ reader = "none" /\ writer = "none"
  /\ opener \in {"open", "start_reader"} =>
       boot = Chans /\ reader = "none" /\ writer = "none"
  /\ opener = "start_writer" => boot = {"send"} /\ reader # "none" /\ writer = "none"
  /\ opener = "fail" => "send" \in boot /\ writer = "none"
  /\ opener \in {"fail", "close_send", "close_recv", "unref_send", "free_send", "unref_recv"} =>
       ("recv" \in boot <=> reader = "none")
  /\ opener \in {"close_send", "close_recv", "unref_send"} =>
       ("send" \in boot <=> writer = "none")
  /\ opener \in {"free_send", "unref_recv", "free_recv", "done"} => "send" \notin boot
  /\ opener \in {"free_recv", "done"} => "recv" \notin boot

FdOwners ==
  /\ "rfd" \in fds => \/ reader \notin {"none", "done"}
                      \/ opener = "start_reader"
                      \/ opener = "fail" /\ reader = "none"
  /\ "wfd" \in fds => \/ writer \notin {"none", "done"}
                      \/ opener \in {"start_reader", "start_writer", "fail"}

\* Nothing will be pushed on "recv" any more.
RxDead == reader \in ReaderExits \/ (reader = "none" /\ opener \in OpenerLate)

\* r continues the numbering after x; only its last element may be the error.
InOrder(r, x) == \A i \in 1..Len(r) : r[i] = x + i \/ (r[i] = Err /\ i = Len(r))
EndsInErr(r) == r # <<>> /\ r[Len(r)] = Err

RxOrder ==
  /\ InOrder(ring["recv"], rxLast)
  /\ EndsInErr(ring["recv"]) => rxRead + 1 = rxLast + Len(ring["recv"])
  /\ ~EndsInErr(ring["recv"]) /\ rHand = Err => rxRead = rxLast + Len(ring["recv"])
  /\ ~EndsInErr(ring["recv"]) /\ rHand # Err => rxRead = rxLast + Len(ring["recv"]) + 1
  /\ rHand # Err => rHand = rxRead /\ reader \notin {"none", "read"}
  /\ EndsInErr(ring["recv"]) => reader \in ReaderExits /\ rHand = Err
  /\ emu \in EmuBefore /\ "recv" \in closed => RxDead
  /\ emu \in EmuBefore /\ reader \in ReaderExits => rHand = Err
  /\ rxEnd = "ended" => RxDead /\ Empty("recv")

\* The writer left because the channel was closed, not because a write failed.
WriterDrained == txEnd = "open" /\ writer \in WriterExits

\* How many bytes the writer has taken beyond the last one it wrote.
TxTaken == IF writer = "write" \/ txEnd = "failed" THEN 1 ELSE 0

TxOrder ==
  /\ InOrder(ring["send"], txLast + TxTaken)
  /\ txSent = txLast + TxTaken + Len(ring["send"])
  /\ wHand # Err <=> writer = "write"
  /\ wHand # Err => wHand = txLast + 1
  /\ txEnd = "failed" => writer \in WriterExits
  /\ WriterDrained => Over("send")

IInv == /\ TypeOK /\ Stages /\ FdOwners /\ NoUseAfterFree /\ NoLostWakeup
        /\ RxOrder /\ TxOrder

\* session.c: each direction is a FIFO pipe of depth Cap + 1 (the ring and the one byte
\* the pump thread holds).  Received bytes come in order, none lost or repeated, and
\* SESS_ERR is reported only when every byte read from the descriptor has been delivered ...
RxPipe == INSTANCE SessionPipe
  WITH Depth <- Cap + 1, accepted <- rxRead, delivered <- rxLast, ended <- (rxEnd = "ended")
RxIsPipe == RxPipe!Spec

\* ... and bytes the terminal sent reach the descriptor in order, none lost or repeated,
\* also those still in the ring when the session is destroyed; only a failing write()
\* loses any.
TxPipe == INSTANCE SessionPipe
  WITH Depth <- Cap + 1, accepted <- txSent, delivered <- txLast, ended <- WriterDrained
TxIsPipe == TxPipe!Spec

\* Both directions are such pipes.
ChannelsArePipes == RxIsPipe /\ TxIsPipe

\* A byte read from the descriptor is received, unless the session is destroyed first.
ReadIsReceived == \A n \in 1..MaxRx : rxRead >= n ~> (rxLast >= n \/ emu # "up")

\* A byte the session accepted is written, also after a destroy, unless write() fails
\* or the writer was never started.
SentIsWritten ==
  \A n \in 1..MaxTx :
    txSent >= n ~> (txLast >= n \/ txEnd = "failed" \/ (opener = "done" /\ writer = "none"))

\* Whatever is taken in at one end of the session comes out at the other.
BytesArrive == ReadIsReceived /\ SentIsWritten

\* Destroying the session in the end stops its threads and releases all it held.
DestroyReleases == emu = "gone" ~> (AllStopped /\ Released)
=============================================================================
