----------------------------------- MODULE Rfb ----------------------------------
(***************************************************************************)
(* rfb_t: a frame buffer in target memory, shown to a client over TCP.     *)
(* The run loop (the main thread) handles the device's two commands and    *)
(* copies one chunk of the buffer per tick; when it has copied a frame, it *)
(* sends it.  A second thread, started by the configure command, accepts a *)
(* client, shakes hands with it and reads its messages; when the client    *)
(* leaves, it starts again.  A mutex keeps the run loop from sending       *)
(* before the handshake, and the run loop only ever tries it.              *)
(*                                                                         *)
(* The client and the kernel are external.  Main is the main thread's      *)
(* program counter and rfb the other's; ended tells how the process ended. *)
(***************************************************************************)
EXTENDS Integers, Sequences

CONSTANTS
  Configs,     \* the payloads of configure: [width, height, bpp]
  Addresses,   \* the payloads of set_address
  FB_ALIGN,    \* the bytes copied per tick
  Fds,         \* the descriptors that the process may get
  MaxInbox     \* bound: the packets of the client that are not read yet

ASSUME RfbConstants ==
  /\ Configs \subseteq [width : Nat, height : Nat, bpp : Nat]
  /\ Addresses \subseteq Nat
  /\ FB_ALIGN \in Nat \ {0}
  /\ Fds \subseteq Nat
  /\ MaxInbox \in Nat

\* The bpp that the device supports, the descriptor that is none, and memif == NULL.
TrueColor == 32
NoFd == -1
Null == -1

VARIABLES
  main, rfb,
  ended,        \* "no", "thrown" or "killed"
  lock,         \* who holds the mutex: "main", "rfb" or "none"
  opened,        \* the kernel: what each descriptor of the process is open on
  sockfd, afd,
  config,       \* width, height and bpp
  addr,         \* addr, or Null as long as memif is NULL
  read_pos,     \* in chunks
  fb1, fb2,     \* each chunk with where and when it was copied
  moved,        \* addr has changed since the last frame began, and before that
  client,       \* "away", "connected" or "gone"
  inbox,        \* what the client has sent
  room,         \* the connection takes another update
  stage         \* the parts of the handshake the client has been sent

threads == <<main, rfb, ended>>
fds == <<opened, sockfd, afd>>
frames == <<read_pos, fb1, fb2, moved>>
memory == <<config, addr>>
network == <<client, inbox, room, stage>>
rfbvars == <<threads, lock, fds, frames, memory, network>>

-------------------------------------------------------------------------------

fb_bytes == (config.width * config.height * config.bpp) \div 8
Chunks == fb_bytes \div FB_ALIGN

\* What a buffer holds that nobody has written.
Junk == [base |-> 0, pos |-> 0, age |-> "junk"]

RfbInit ==
  /\ main = "idle" /\ rfb = "none" /\ ended = "no"
  /\ lock = "none"
  /\ opened = [d \in Fds |-> "free"]
  /\ sockfd = NoFd /\ afd = NoFd
  /\ config = [width |-> 0, height |-> 0, bpp |-> 0]
  /\ addr = Null
  /\ read_pos = 0 /\ fb1 = <<>> /\ fb2 = <<>>
  /\ moved = <<FALSE, FALSE>>
  /\ client = "away" /\ inbox = <<>> /\ room = TRUE /\ stage = 0

Alive == ended = "no"
Main(from, to) == Alive /\ main = from /\ main' = to
Rfb(from, to) == Alive /\ rfb = from /\ rfb' = to

\* An uncaught exception of either thread ends the process.
Throw == ended' = "thrown"

-------------------------------------------------------------------------------
(* The main thread.                                                          *)

\* fb1 is only set by the first configure; each error is an exception.
Configure(c) ==
  /\ Alive /\ main = "idle"
  /\ IF rfb # "none"
     THEN Throw /\ UNCHANGED <<rfb, config, fb1, fb2>>
     ELSE /\ config' = c
          /\ IF c.bpp # TrueColor \/ fb_bytes' % FB_ALIGN # 0
             THEN Throw /\ UNCHANGED <<rfb, fb1, fb2>>
             ELSE /\ fb1' = [i \in 1..Chunks' |-> Junk]
                  /\ fb2' = fb1'
                  /\ rfb' = "lock"
                  /\ UNCHANGED ended
  /\ UNCHANGED <<main, lock, fds, read_pos, moved, addr, network>>

SetAddress(a) ==
  /\ Alive /\ main = "idle"
  /\ addr' = a
  /\ moved' = <<TRUE, moved[2]>>
  /\ IF a % FB_ALIGN # 0 THEN Throw ELSE UNCHANGED ended
  /\ UNCHANGED <<main, rfb, lock, fds, config, read_pos, fb1, fb2, network>>

\* A system call of the target opens or closes another file.
LowestFd(d) == d \in Fds /\ opened[d] = "free" /\ \A e \in Fds : e < d => opened[e] # "free"

OpenOther ==
  /\ Alive /\ main = "idle"
  /\ \E d \in Fds : LowestFd(d) /\ opened' = [opened EXCEPT ![d] = "other"]
  /\ UNCHANGED <<threads, lock, sockfd, afd, frames, memory, network>>

CloseOther ==
  /\ Alive /\ main = "idle"
  /\ \E d \in Fds : opened[d] = "other" /\ opened' = [opened EXCEPT ![d] = "free"]
  /\ UNCHANGED <<threads, lock, sockfd, afd, frames, memory, network>>

Aged(fb, age) == [i \in DOMAIN fb |-> [fb[i] EXCEPT !.age = age[fb[i].age]]]
Sent == [new |-> "whole", whole |-> "old", old |-> "old", junk |-> "junk"]

\* A bug: the frame is sent when its last chunk is still to be copied.
TickEarly ==
  /\ Alive /\ main = "idle"
  /\ fb_bytes # 0 /\ addr # Null
  /\ LET copied == [fb2 EXCEPT ![read_pos + 1] = [base |-> addr, pos |-> read_pos, age |-> "new"]]
         next == (read_pos + 1) % Chunks
     IN  /\ read_pos' = next
         /\ IF next = Chunks - 1
            THEN /\ fb1' = Aged(copied, Sent) /\ fb2' = Aged(fb1, Sent)
                 /\ moved' = <<FALSE, moved[1]>>
                 /\ main' = "try"
            ELSE fb2' = copied /\ UNCHANGED <<main, fb1, moved>>
  /\ UNCHANGED <<rfb, ended, lock, fds, memory, network>>

\* tick(): copies a chunk, and after the last one swaps the buffers.
Tick ==
  /\ Alive /\ main = "idle"
  /\ fb_bytes # 0 /\ addr # Null
  /\ LET copied == [fb2 EXCEPT ![read_pos + 1] = [base |-> addr, pos |-> read_pos, age |-> "new"]]
         next == (read_pos + 1) % Chunks
     IN  /\ read_pos' = next
         /\ IF next = 0
            THEN /\ fb1' = Aged(copied, Sent) /\ fb2' = Aged(fb1, Sent)
                 /\ moved' = <<FALSE, moved[1]>>
                 /\ main' = "try"
            ELSE fb2' = copied /\ UNCHANGED <<main, fb1, moved>>
  /\ UNCHANGED <<rfb, ended, lock, fds, memory, network>>

\* A bug: the run loop waits for the mutex.
TryLockWaits ==
  /\ lock = "none" /\ Main("try", "update") /\ lock' = "main"
  /\ UNCHANGED <<rfb, ended, fds, frames, memory, network>>

TryLock ==
  /\ IF lock = "none"
     THEN Main("try", "update") /\ lock' = "main"
     ELSE Main("try", "idle") /\ UNCHANGED lock
  /\ UNCHANGED <<rfb, ended, fds, frames, memory, network>>

\* A write of the whole string blocks while the connection is full.  One to a client
\* that is gone may succeed, fail, or raise SIGPIPE, which nothing handles.
Stalled == client = "connected" /\ ~room

\* fb_update: an exception of the write is caught.
Update ==
  /\ Main("update", "unlock")
  /\ IF afd # NoFd /\ opened[afd] = "connection"
     THEN /\ ~Stalled
          /\ room' \in BOOLEAN
          /\ ended' \in IF client = "gone" THEN {"no", "killed"} ELSE {"no"}
     ELSE UNCHANGED <<room, ended>>
  /\ UNCHANGED <<rfb, lock, fds, frames, memory, client, inbox, stage>>

UnlockMutex ==
  /\ Main("unlock", "idle")
  /\ lock' = "none"
  /\ UNCHANGED <<rfb, ended, fds, frames, memory, network>>

\* ~rfb_t: memif is NULL again, and the thread is waited for if there is one.
Destroy ==
  /\ Main("idle", IF rfb = "none" THEN "done" ELSE "join")
  /\ addr' = Null
  /\ UNCHANGED <<rfb, ended, lock, fds, frames, config, network>>

-------------------------------------------------------------------------------
(* The thread: thread_main.                                                  *)

LockMutex ==
  /\ Rfb("lock", "socket")
  /\ lock = "none" /\ lock' = "rfb"
  /\ UNCHANGED <<main, ended, fds, frames, memory, network>>

\* socket, bind and listen; the port may be in use, also by the last connection.
Listen ==
  /\ \E d \in Fds : LowestFd(d) /\ opened' = [opened EXCEPT ![d] = "listener"] /\ sockfd' = d
  /\ \/ Rfb("socket", "accept") /\ UNCHANGED ended
     \/ Alive /\ rfb = "socket" /\ Throw /\ UNCHANGED rfb
  /\ UNCHANGED <<main, lock, afd, frames, memory, network>>

NoDescriptor ==
  /\ Alive
  /\ rfb \in {"socket", "accept"}
  /\ \A d \in Fds : opened[d] # "free"
  /\ Throw
  /\ UNCHANGED <<main, rfb, lock, fds, frames, memory, network>>

\* A client connects.
Accept ==
  /\ Rfb("accept", "version")
  /\ \E d \in Fds : LowestFd(d) /\ opened' = [opened EXCEPT ![d] = "connection"] /\ afd' = d
  /\ client' = "connected" /\ inbox' = <<>> /\ room' = TRUE /\ stage' = 0
  /\ UNCHANGED <<main, ended, lock, sockfd, frames, memory>>

\* A part of the handshake is written: to a client that is gone, this may fail.
WritePart(from, to) ==
  /\ ~Stalled
  /\ \/ Rfb(from, to) /\ stage' = stage + 1 /\ UNCHANGED ended
     \/ /\ Alive /\ rfb = from /\ client = "gone"
        /\ ended' \in {"thrown", "killed"}
        /\ UNCHANGED <<rfb, stage>>
  /\ UNCHANGED <<main, lock, fds, frames, memory, client, inbox, room>>

WriteVersion == WritePart("version", "readVersion")
WriteSecurity == WritePart("security", "readInit")
WriteServerinit == WritePart("serverinit", "unlock")

\* read(): the next packet, or nothing from a client that is gone, or an exception.
Packet == IF inbox # <<>> THEN Head(inbox) ELSE "nothing"
CanRead == inbox # <<>> \/ client = "gone"
TakePacket == inbox' = IF inbox # <<>> THEN Tail(inbox) ELSE <<>>

ReadFails ==
  /\ Alive
  /\ rfb \in {"readVersion", "readInit", "messages", "encodings"}
  /\ CanRead
  /\ Packet = "oversized" \/ (client = "gone" /\ inbox = <<>>)
  /\ Throw
  /\ UNCHANGED <<main, rfb, lock, fds, frames, memory, network>>

ReadVersion ==
  /\ CanRead /\ Packet # "oversized" /\ TakePacket
  /\ IF Packet = "version"
     THEN Rfb("readVersion", "security") /\ UNCHANGED ended
     ELSE Alive /\ rfb = "readVersion" /\ Throw /\ UNCHANGED rfb
  /\ UNCHANGED <<main, lock, fds, frames, memory, client, room, stage>>

\* Whatever the client sends is its init message.
ReadInit ==
  /\ CanRead /\ Packet # "oversized" /\ TakePacket
  /\ Rfb("readInit", "serverinit")
  /\ UNCHANGED <<main, ended, lock, fds, frames, memory, client, room, stage>>

HandshakeDone ==
  /\ Rfb("unlock", "spin")
  /\ lock' = "none"
  /\ UNCHANGED <<main, ended, fds, frames, memory, network>>

\* The wait until set_address gives a memory.
Spin ==
  /\ addr # Null
  /\ Rfb("spin", "messages")
  /\ UNCHANGED <<main, ended, lock, fds, frames, memory, network>>

\* A message of the loop: less than four bytes end it, as does ~rfb_t.
ReadMessage ==
  /\ IF addr = Null
     THEN Rfb("messages", "relock") /\ UNCHANGED <<ended, inbox>>
     ELSE /\ CanRead /\ Packet # "oversized" /\ TakePacket
          /\ \/ /\ Packet \in {"nothing", "short"}
                /\ Rfb("messages", "relock") /\ UNCHANGED ended
             \/ /\ Packet = "encodings"
                /\ Rfb("messages", "encodings") /\ UNCHANGED ended
             \/ /\ Packet = "badPixels" /\ Alive /\ rfb = "messages"
                /\ Throw /\ UNCHANGED rfb
             \/ /\ Packet = "version"
                /\ Rfb("messages", "messages") /\ UNCHANGED ended
  /\ UNCHANGED <<main, lock, fds, frames, memory, client, room, stage>>

\* set_encodings reads on until it has the encodings that the message announces;
\* from a client that is gone it reads nothing, for ever.
ReadEncodings ==
  /\ CanRead /\ Packet # "oversized" /\ TakePacket
  /\ \/ Rfb("encodings", "encodings")
     \/ Packet # "nothing" /\ Rfb("encodings", "messages")
  /\ UNCHANGED <<main, ended, lock, fds, frames, memory, client, room, stage>>

\* A bug: the connection is closed before the mutex is taken.
RelockForgotten ==
  /\ Rfb("relock", "closeConnection")
  /\ UNCHANGED <<main, ended, lock, fds, frames, memory, network>>

RelockMutex ==
  /\ Rfb("relock", "closeConnection")
  /\ lock = "none" /\ lock' = "rfb"
  /\ UNCHANGED <<main, ended, fds, frames, memory, network>>

CloseConnection ==
  /\ Rfb("closeConnection", "closeListener")
  /\ opened' = [opened EXCEPT ![afd] = "free"]
  /\ client' = "away" /\ inbox' = <<>> /\ stage' = 0
  /\ UNCHANGED <<main, ended, lock, sockfd, afd, frames, memory, room>>

CloseListener ==
  /\ Rfb("closeListener", "forget")
  /\ opened' = [opened EXCEPT ![sockfd] = "free"]
  /\ UNCHANGED <<main, ended, lock, sockfd, afd, frames, memory, network>>

Forget ==
  /\ Rfb("forget", "lock")
  /\ afd' = NoFd /\ sockfd' = NoFd
  /\ lock' = "none"
  /\ UNCHANGED <<main, ended, opened, frames, memory, network>>

-------------------------------------------------------------------------------
(* The client.                                                               *)

\* Of the packets that the loop ignores, the version is one.
Packets == {"version", "short", "encodings", "badPixels", "oversized"}

SendPacket ==
  /\ client = "connected" /\ Len(inbox) < MaxInbox
  /\ \E p \in Packets : inbox' = Append(inbox, p)
  /\ UNCHANGED <<threads, lock, fds, frames, memory, client, room, stage>>

Drain ==
  /\ client = "connected" /\ room' = TRUE
  /\ UNCHANGED <<threads, lock, fds, frames, memory, client, inbox, stage>>

Leave ==
  /\ client = "connected" /\ client' = "gone"
  /\ UNCHANGED <<threads, lock, fds, frames, memory, inbox, room, stage>>

-------------------------------------------------------------------------------

RunLoop ==
  \/ \E c \in Configs : Configure(c)
  \/ \E a \in Addresses : SetAddress(a)
  \/ OpenOther \/ CloseOther \/ Destroy \/ Tick

\* What tick() does once a frame is complete.
SendFrame == TryLock \/ Update \/ UnlockMutex

Handshake ==
  \/ Listen \/ NoDescriptor \/ Accept
  \/ WriteVersion \/ ReadVersion \/ WriteSecurity \/ ReadInit \/ WriteServerinit
  \/ HandshakeDone

Messages == Spin \/ ReadMessage \/ ReadEncodings \/ ReadFails

Close == CloseConnection \/ CloseListener \/ Forget

Client == Alive /\ (SendPacket \/ Drain \/ Leave)

RfbNext ==
  \/ RunLoop \/ SendFrame \/ LockMutex \/ Handshake \/ Messages \/ RelockMutex
  \/ Close \/ Client

RfbSpec == RfbInit /\ [][RfbNext]_rfbvars

\* Both threads are scheduled, and a thread that waits for the mutex gets it in the
\* end.  Nothing is asked of the target's commands, of tick or of the client.
RfbFairness ==
  /\ WF_rfbvars(SendFrame)
  /\ WF_rfbvars(Messages) /\ WF_rfbvars(Close)
  /\ WF_rfbvars(Listen \/ NoDescriptor)
  /\ SF_rfbvars(LockMutex) /\ SF_rfbvars(RelockMutex)

RfbFairSpec == RfbSpec /\ RfbFairness

-------------------------------------------------------------------------------
(* Properties.                                                               *)

\* The values of the variables.
RfbTypeOK ==
  /\ main \in {"idle", "try", "update", "unlock", "join", "done"}
  /\ rfb \in {"none", "lock", "socket", "accept", "version", "readVersion", "security",
             "readInit", "serverinit", "unlock", "spin", "messages", "encodings", "relock",
             "closeConnection", "closeListener", "forget"}
  /\ ended \in {"no", "thrown", "killed"}
  /\ lock \in {"none", "main", "rfb"}
  /\ opened \in [Fds -> {"free", "listener", "connection", "other"}]
  /\ sockfd \in Fds \cup {NoFd} /\ afd \in Fds \cup {NoFd}
  /\ stage \in 0..3

\* What the run loop writes goes to a client that has been through the whole
\* handshake, or nowhere: not into a handshake that is under way, and not to a
\* descriptor that the thread has closed and the process may have opened again for a
\* file of the target.
UpdatesReachClient ==
  main = "update" /\ afd # NoFd => opened[afd] = "connection" /\ stage = 3

\* An update shows a whole frame: every chunk copied in the same pass and put where
\* it belongs, none left from a buffer that was never filled, and all from one
\* address unless set_address came in between.
FramesWhole ==
  main = "update" =>
    /\ \A i \in DOMAIN fb1 : fb1[i].age = "whole" /\ fb1[i].pos = i - 1
    /\ \A i, j \in DOMAIN fb1 : fb1[i].base = fb1[j].base \/ moved[2]

\* The run loop never waits for the thread, which may hold the mutex as long as no
\* client comes: a tick ends, unless it is writing to a client that reads nothing.
TicksEnd == main \in {"try", "update", "unlock"} ~> main = "idle" \/ ~Alive \/ Stalled

\* A client that leaves makes room for the next, unless the process ends, or it left
\* in the middle of set_encodings.
AcceptsAgain ==
  (rfb = "messages" /\ client = "gone") ~> (rfb \in {"accept", "encodings"} \/ ~Alive)

\* The two together: neither thread keeps the other, or the next client, waiting.
Responsive == TicksEnd /\ AcceptsAgain

===============================================================================
