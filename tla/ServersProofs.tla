--------------------------- MODULE ServersProofs ---------------------------
(***************************************************************************)
(* The servers for any number of clients, any length of requests and any   *)
(* HZ: the disk driver keeps in step with the disk, nothing but its        *)
(* timeout stops the machine, and every answer is fresh.                   *)
(***************************************************************************)
EXTENDS Servers, IpcLemmas

\* The buffer of p holds what p sent.
Sent(p, t) == msg[p] = [source |-> p, type |-> t]

----------------------------------------------------------------------------
(* task_hd and the disk *)

\* The disk has nothing more to say.
DiskQuiet ==
  /\ disk = [st |-> "idle", left |-> 0] \/ disk = [st |-> "busy", left |-> 0]
  /\ ~irq /\ has_int_msg[TASK_HD] = 0

\* The disk has hd.need sectors to deliver, and one interrupt for each of them
\* is on its way exactly while the sector waits to be read.
DiskWorks ==
  /\ hd.need \in Nat \ {0} /\ disk.left = hd.need
  /\ \/ disk.st = "busy" /\ ~irq /\ has_int_msg[TASK_HD] = 0
     \/ disk.st = "drq" /\ ~irq /\ has_int_msg[TASK_HD] = 1
     \/ disk.st = "drq" /\ irq /\ has_int_msg[TASK_HD] = 0

\* The types of what the disk and its driver keep.
DiskType ==
  /\ irq \in BOOLEAN
  /\ hd \in [at : {"receive", "got", "waitfor", "wait", "read", "done"},
             src : Proc \cup {NO_TASK}, need : Nat, count : Nat, made : Nat]
  /\ disk \in [st : {"idle", "busy", "drq"}, left : Nat]

\* Outside of a command the disk is quiet; during one it owes what is read; and
\* task_hd reads only what it was woken for.
DiskInv ==
  /\ ~misuse
  /\ hd.at \in {"receive", "got", "waitfor", "done"} => DiskQuiet
  /\ hd.at = "waitfor" => hd.need \in Nat \ {0} /\ hd.count = hd.need
  /\ hd.at = "wait" => DiskWorks
  /\ hd.at = "read" /\ ~Ready(TASK_HD) => DiskWorks /\ has_int_msg[TASK_HD] = 0
  /\ hd.at = "read" /\ Ready(TASK_HD) =>
       /\ hd.need \in Nat \ {0} /\ disk = [st |-> "drq", left |-> hd.need]
       /\ ~irq /\ has_int_msg[TASK_HD] = 0

\* task_hd works for task_fs.
HdServes ==
  \/ hd.at = "got" /\ Ready(TASK_HD)
  \/ hd.at \in {"waitfor", "wait", "read", "done"}
  \/ SendsTo(TASK_HD, TASK_FS)

\* task_hd hears from task_fs alone, and task_fs asked for the answer it gets.
HdProto ==
  /\ hd.at = "receive" => Ready(TASK_HD) \/ SendsTo(TASK_HD, TASK_FS)
  /\ hd.at = "got" => \/ WaitsOn(TASK_HD, ANY)
                      \/ Ready(TASK_HD) /\ msg[TASK_HD] = [source |-> TASK_FS, type |-> Body("DEV_OPEN", 0)]
  /\ hd.at \in {"waitfor", "wait", "done"} => Ready(TASK_HD)
  /\ hd.at = "read" => Ready(TASK_HD) \/ WaitsOn(TASK_HD, INTERRUPT)
  /\ hd.at \in {"waitfor", "wait", "read", "done"} => hd.src = TASK_FS
  /\ HdServes => \/ fs.at = "opening" /\ Ready(TASK_FS)
                 \/ fs.at = "receive" /\ WaitsOn(TASK_FS, TASK_HD)

----------------------------------------------------------------------------
(* task_fs, task_sys and the processes *)

\* task_fs works for c, or task_sys does.
FsServes(c) ==
  \/ fs.at = "got" /\ Ready(TASK_FS) /\ msg[TASK_FS].source = c
  \/ fs.at = "reply" /\ fs.src = c
  \/ fs.at = "receive" /\ SendsTo(TASK_FS, c)

\* task_fs opens the disk, then knows one request at a time, a READ of a process.
FsProto ==
  /\ fs \in [at : {"start", "opening", "receive", "got", "reply"}, src : Proc \cup {NO_TASK}]
  /\ fs.at \in {"start", "reply"} => Ready(TASK_FS)
  /\ fs.at = "opening" =>
       Ready(TASK_FS) \/ (SendsTo(TASK_FS, TASK_HD) /\ Sent(TASK_FS, Body("DEV_OPEN", 0)))
  /\ fs.at = "receive" => \/ Ready(TASK_FS) \/ WaitsOn(TASK_FS, TASK_HD)
                          \/ \E c \in Client : SendsTo(TASK_FS, c)
  /\ fs.at = "got" =>
       \/ WaitsOn(TASK_FS, ANY)
       \/ Ready(TASK_FS) /\ msg[TASK_FS].source \in Client /\ msg[TASK_FS].type = Body("READ", 0)
  /\ fs.at = "reply" => fs.src \in Client

SysServes(c) ==
  \/ sys = "got" /\ Ready(TASK_SYS) /\ msg[TASK_SYS].source = c
  \/ sys = "reply" /\ msg[TASK_SYS].source = c
  \/ sys = "receive" /\ SendsTo(TASK_SYS, c)

\* A value that was true for p at some moment of the call k, at the tick t and
\* the second u.
TrueFor(p, k, v, t, u) ==
  /\ k.call = "GET_TICKS" => v \in k.since .. t
  /\ k.call = "GETTIME" => v \in (k.since \div HZ) .. u
  /\ k.call = "GET_PID" => v = p

\* The value in m answers the call of c.
Fresh(c, m) == TrueFor(c, client[c], m.val, ticks, unix_time)

\* task_sys has the request of c.
Asked(c) == msg[TASK_SYS] = [source |-> c, type |-> Body(client[c].call, 0)]

\* task_sys knows one request at a time; its answer is true when it is sent.
SysProto ==
  /\ sys \in {"receive", "got", "reply"}
  /\ sys = "receive" => \/ Ready(TASK_SYS)
                        \/ \E c \in Client : SendsTo(TASK_SYS, c) /\ Fresh(c, msg[TASK_SYS].type)
  /\ sys = "got" => \/ WaitsOn(TASK_SYS, ANY)
                    \/ Ready(TASK_SYS) /\ \E c \in Client : Asked(c)
  /\ sys = "reply" => /\ Ready(TASK_SYS) /\ msg[TASK_SYS].source \in Client
                      /\ Fresh(msg[TASK_SYS].source, msg[TASK_SYS].type)

\* c has been heard and has no answer yet.
Owed(c) ==
  \/ client[c].at = "sent" /\ Ready(c)
  \/ client[c].at = "received" /\ ~Ready(c)

\* c is in at most one call: blocked on the server of that call until it is heard,
\* owed one answer until it has it, and at that server alone.
ClientProto(c) ==
  /\ client[c].at \in {"user", "spin"} => Ready(c)
  /\ client[c].at \in {"sent", "received"} => client[c].call # "none"
  /\ client[c].at = "sent" =>
       Ready(c) \/ (SendsTo(c, server(client[c].call)) /\ Sent(c, Body(client[c].call, 0)))
  /\ client[c].at = "received" =>
       (Ready(c) /\ Fresh(c, msg[c].type)) \/ WaitsOn(c, server(client[c].call))
  /\ FsServes(c) => Owed(c) /\ client[c].call = "READ"
  /\ SysServes(c) => Owed(c) /\ client[c].call # "READ"

\* The types of what the processes keep; a call began in the past.
ClientType ==
  /\ client \in [Client -> [call : {"none", "READ", "GETTIME", "GET_PID", "GET_TICKS"},
                            at : {"user", "sent", "received", "spin"}, since : Nat]]
  /\ \A c \in Client : client[c].since <= ticks

\* The seconds follow from the ticks.
ClockInv == ticks \in Nat /\ unix_time = ticks \div HZ

\* The protocol, as long as the machine runs.
Protocol ==
  /\ DiskType /\ DiskInv /\ HdProto /\ FsProto /\ SysProto
  /\ ClientType /\ (\A c \in Client : ClientProto(c))
  /\ \A p \in Proc : has_int_msg[p] = 1 => p = TASK_HD

\* The inductive invariant; after the panic nothing moves.
ServersInv ==
  /\ KernelInv /\ ClockInv /\ ~misuse
  /\ fault # "none" => hd.at = "timeout"
  /\ fault = "none" => Protocol

----------------------------------------------------------------------------
(* What a step leaves alone. *)

\* Division keeps the order.
LEMMA DivFacts ==
  ASSUME NEW n \in Nat, NEW k \in Nat, k <= n
  PROVE  n \div HZ \in Nat /\ (k \div HZ) <= (n \div HZ)
BY ServersAssumption

\* Counting the ticks that HZ divides counts the seconds.
LEMMA SecondFacts ==
  ASSUME NEW n \in Nat, NEW m, m = n + 1
  PROVE  m \div HZ = IF m % HZ = 0 THEN (n \div HZ) + 1 ELSE n \div HZ
BY ServersAssumption

\* A value stays true of the call while the clock goes on.
LEMMA TrueForGrows ==
  ASSUME NEW p, NEW k, NEW k2, NEW v, NEW t \in Nat, NEW u \in Nat, NEW t2 \in Nat,
         NEW u2 \in Nat, t <= t2, u <= u2, k2.call = k.call, k2.since = k.since,
         TrueFor(p, k, v, t, u)
  PROVE  TrueFor(p, k2, v, t2, u2)
BY DEF TrueFor

\* What a step must leave alone for the disk to stay in step.
LEMMA DiskFrame ==
  ASSUME DiskInv, UNCHANGED <<disk, irq, hd, misuse>>,
         has_int_msg'[TASK_HD] = has_int_msg[TASK_HD],
         hd.at = "read" => (Ready(TASK_HD)' <=> Ready(TASK_HD))
  PROVE  DiskInv'
BY DEF DiskInv, DiskQuiet, DiskWorks

\* What a step must leave alone for task_hd to stay where it is.
LEMMA HdFrame ==
  ASSUME HdProto, hd' = hd, Unmoved(TASK_HD), HdServes => fs' = fs /\ Unmoved(TASK_FS)
  PROVE  HdProto'
BY DEF HdProto, HdServes, Unmoved

\* What a step must leave alone for task_fs to stay where it is.
LEMMA FsFrame ==
  ASSUME FsProto, fs' = fs, Unmoved(TASK_FS)
  PROVE  FsProto' /\ \A c \in Client : FsServes(c)' => FsServes(c)
BY DEF FsProto, FsServes, Unmoved, Sent

\* task_sys works for nobody new.
LEMMA SysServesFrame ==
  ASSUME sys' = sys, Unmoved(TASK_SYS)
  PROVE  \A c \in Client : SysServes(c)' => SysServes(c)
BY DEF SysServes, Unmoved

\* What a step must leave alone for task_sys to stay where it is.
LEMMA SysFrame ==
  ASSUME SysProto, sys' = sys, Unmoved(TASK_SYS), ClockInv, ClockInv',
         ticks <= ticks', unix_time <= unix_time',
         unix_time \in Nat, unix_time' \in Nat,
         \A c \in Client : SysServes(c) =>
           client'[c].call = client[c].call /\ client'[c].since = client[c].since
  PROVE  SysProto'
<1> USE DEF Unmoved
<1>1. ASSUME NEW c \in Client, NEW m, SysServes(c), Fresh(c, m)
      PROVE  TrueFor(c, client'[c], m.val, ticks', unix_time')
  <2>1. client'[c].call = client[c].call /\ client'[c].since = client[c].since
    BY <1>1
  <2>2. ticks \in Nat /\ ticks' \in Nat
    BY DEF ClockInv
  <2> HIDE DEF Unmoved
  <2> QED
    BY <1>1, <2>1, <2>2, TrueForGrows DEF Fresh
<1>2. ASSUME NEW c \in Client, SysServes(c), Fresh(c, msg[TASK_SYS].type)
      PROVE  Fresh(c, msg[TASK_SYS].type)'
  BY <1>1, <1>2 DEF Fresh
<1>3. ASSUME sys = "receive"
      PROVE \/ Ready(TASK_SYS)'
            \/ \E c \in Client : SendsTo(TASK_SYS, c)' /\ Fresh(c, msg[TASK_SYS].type)'
  BY <1>2, <1>3 DEF SysProto, SysServes
<1>4. ASSUME sys = "reply"
      PROVE  /\ Ready(TASK_SYS)' /\ msg'[TASK_SYS].source \in Client
             /\ Fresh(msg[TASK_SYS].source, msg[TASK_SYS].type)'
  <2>1. PICK c \in Client : c = msg[TASK_SYS].source /\ Fresh(c, msg[TASK_SYS].type)
    BY <1>4 DEF SysProto
  <2>2. TrueFor(c, client'[c], msg[TASK_SYS].type.val, ticks', unix_time')
    BY <1>1, <1>4, <2>1 DEF SysServes
  <2> QED
    BY <1>4, <2>1, <2>2 DEF SysProto, Fresh
<1>5. ASSUME sys = "got"
      PROVE \/ WaitsOn(TASK_SYS, ANY)'
            \/ Ready(TASK_SYS)' /\ \E c \in Client : Asked(c)'
  <2>1. CASE WaitsOn(TASK_SYS, ANY)
    BY <2>1
  <2>2. CASE Ready(TASK_SYS) /\ \E c \in Client : Asked(c)
    <3>1. PICK c \in Client : Asked(c)
      BY <2>2
    <3>2. SysServes(c)
      BY <1>5, <2>2, <3>1 DEF SysServes, Asked
    <3>3. client'[c].call = client[c].call
      BY <3>2
    <3>4. Asked(c)'
      BY <3>1, <3>3 DEF Asked
    <3> QED
      BY <2>2, <3>4
  <2> QED
    BY <1>5, <2>1, <2>2 DEF SysProto
<1> QED
  BY <1>3, <1>4, <1>5 DEF SysProto

\* What a step must leave alone for a call to stay where it is.
LEMMA ClientFrame ==
  ASSUME NEW c \in Client, ClientProto(c), client'[c] = client[c], Unmoved(c),
         ClockInv, ClockInv', ticks <= ticks', unix_time <= unix_time',
         unix_time \in Nat, unix_time' \in Nat,
         FsServes(c)' => FsServes(c), SysServes(c)' => SysServes(c)
  PROVE  ClientProto(c)'
<1>1. ASSUME Fresh(c, msg[c].type) PROVE Fresh(c, msg[c].type)'
  <2>1. ticks \in Nat /\ ticks' \in Nat
    BY DEF ClockInv
  <2>2. msg'[c] = msg[c]
    BY DEF Unmoved
  <2> QED
    BY <1>1, <2>1, <2>2, TrueForGrows DEF Fresh
<1> QED
  BY <1>1 DEF ClientProto, Unmoved, Owed, Sent

\* The frame of every step: what is left to show when the clock and the calls
\* stand still and the messages of task_sys and the processes are not touched.
LEMMA DiskSide ==
  ASSUME ServersInv, fault = "none", KernelInv', fault' = "none",
         UNCHANGED <<sys, client, ticks, unix_time>>,
         \A r \in Proc \ {TASK_HD, TASK_FS} : Unmoved(r) /\ has_int_msg'[r] = has_int_msg[r],
         has_int_msg'[TASK_FS] = has_int_msg[TASK_FS],
         DiskType', DiskInv', HdProto', FsProto',
         \A c \in Client : FsServes(c)' => FsServes(c)
  PROVE  ServersInv'
<1> USE HdAssumption, ServersAssumption
<1>1. /\ ClockInv /\ ClockInv' /\ ticks <= ticks' /\ unix_time <= unix_time'
      /\ unix_time \in Nat /\ unix_time' \in Nat
  BY DivFacts DEF ServersInv, ClockInv
<1>2. Protocol
  BY DEF ServersInv
<1>3. Unmoved(TASK_SYS)
  OBVIOUS
<1>4. SysProto'
  BY <1>1, <1>2, <1>3, SysFrame DEF Protocol
<1>5. ASSUME NEW c \in Client PROVE ClientProto(c)'
  <2>1. SysServes(c)' => SysServes(c)
    BY <1>3, SysServesFrame
  <2>2. Unmoved(c)
    OBVIOUS
  <2> QED
    BY <1>1, <1>2, <2>1, <2>2, ClientFrame DEF Protocol
<1>6. ClientType'
  BY <1>2 DEF Protocol, ClientType
<1>7. \A p \in Proc : has_int_msg'[p] = 1 => p = TASK_HD
  BY <1>2 DEF Protocol
<1> QED
  BY <1>1, <1>4, <1>5, <1>6, <1>7 DEF ServersInv, Protocol, DiskInv

\* The same, when task_fs is not touched either.
LEMMA DiskAlone ==
  ASSUME ServersInv, fault = "none", KernelInv', fault' = "none",
         UNCHANGED <<fs, sys, client, ticks, unix_time>>,
         \A r \in Proc \ {TASK_HD} : Unmoved(r) /\ has_int_msg'[r] = has_int_msg[r],
         DiskType', DiskInv', HdProto'
  PROVE  ServersInv'
<1> USE HdAssumption, ServersAssumption
<1>1. Unmoved(TASK_FS) /\ has_int_msg'[TASK_FS] = has_int_msg[TASK_FS]
  OBVIOUS
<1>2. FsProto' /\ \A c \in Client : FsServes(c)' => FsServes(c)
  BY <1>1, FsFrame DEF ServersInv, Protocol
<1> QED
  BY <1>1, <1>2, DiskSide

\* Who can be blocked sending to whom.
LEMMA Senders ==
  ASSUME ServersInv, fault = "none"
  PROVE  /\ \A x : SendsTo(TASK_HD, x) => x = TASK_FS /\ hd.at = "receive"
         /\ \A x : SendsTo(TASK_FS, x) =>
              \/ x = TASK_HD /\ fs.at = "opening" /\ Sent(TASK_FS, Body("DEV_OPEN", 0))
              \/ x \in Client /\ fs.at = "receive"
         /\ \A x : SendsTo(TASK_SYS, x) =>
              x \in Client /\ sys = "receive" /\ Fresh(x, msg[TASK_SYS].type)
         /\ \A c \in Client : \A x : SendsTo(c, x) =>
              /\ client[c].at = "sent" /\ x = server(client[c].call)
              /\ Sent(c, Body(client[c].call, 0))
<1> USE HdAssumption, ServersAssumption
<1>1. Protocol
  BY DEF ServersInv
<1>2. Place(TASK_HD) /\ Place(TASK_FS) /\ Place(TASK_SYS) /\ \A c \in Client : Place(c)
  BY PlaceFacts DEF ServersInv, Places
<1>3. \A x : SendsTo(TASK_HD, x) => x = TASK_FS /\ hd.at = "receive"
  BY <1>1, <1>2 DEF Protocol, DiskType, HdProto, Place
<1>4. \A x : SendsTo(TASK_FS, x) =>
        \/ x = TASK_HD /\ fs.at = "opening" /\ Sent(TASK_FS, Body("DEV_OPEN", 0))
        \/ x \in Client /\ fs.at = "receive"
  BY <1>1, <1>2 DEF Protocol, FsProto, Place
<1>5. \A x : SendsTo(TASK_SYS, x) =>
        x \in Client /\ sys = "receive" /\ Fresh(x, msg[TASK_SYS].type)
  BY <1>1, <1>2 DEF Protocol, SysProto, Place
<1>6. ASSUME NEW c \in Client, NEW x, SendsTo(c, x)
      PROVE  /\ client[c].at = "sent" /\ x = server(client[c].call)
             /\ Sent(c, Body(client[c].call, 0))
  <2>1. client[c].at \in {"user", "sent", "received", "spin"}
    BY <1>1 DEF Protocol, ClientType
  <2> QED
    BY <1>1, <1>2, <1>6, <2>1 DEF Protocol, ClientProto, Place
<1> QED
  BY <1>3, <1>4, <1>5, <1>6

----------------------------------------------------------------------------
(* The disk and task_hd. *)

\* A step that leaves the kernel alone.
LEMMA Still ==
  ASSUME KernelInv, UNCHANGED ipcVars
  PROVE  KernelInv' /\ \A r : Unmoved(r) /\ has_int_msg'[r] = has_int_msg[r]
<1>1. KernelInv'
  BY KernelFrame DEF ipcVars, KernelInv, KernelTypeOK, NoAssertFails, Buffers
<1> QED
  BY <1>1, UnmovedFacts DEF ipcVars

\* The disk has a sector, or has done the command.
LEMMA DiskSteps ==
  ASSUME ServersInv, fetch \/ settle, UNCHANGED <<sys, client, ticks, unix_time>>
  PROVE  ServersInv'
<1> USE HdAssumption, ServersAssumption
<1>1. fault = "none" /\ UNCHANGED <<ipcVars, hd, fs, misuse>> /\ Protocol
  BY DEF fetch, settle, ServersInv
<1>2. KernelInv' /\ fault' = "none" /\ \A r : Unmoved(r) /\ has_int_msg'[r] = has_int_msg[r]
  BY <1>1, Still DEF ServersInv, ipcVars
<1>3. HdProto'
  BY <1>1, <1>2, HdFrame DEF Protocol
<1>4. /\ disk.st = "busy" /\ DiskType
      /\ \/ disk.left > 0 /\ disk' = [st |-> "drq", left |-> disk.left] /\ irq' = TRUE
         \/ disk.left = 0 /\ disk' = [st |-> "idle", left |-> disk.left] /\ irq' = irq
  BY <1>1 DEF fetch, settle, Protocol, DiskType
<1>5. DiskType'
  <2>1. disk.left \in Nat /\ irq' \in BOOLEAN
    BY <1>4 DEF DiskType
  <2>2. disk' \in [st : {"idle", "busy", "drq"}, left : Nat]
    BY <1>4, <2>1
  <2> QED
    BY <1>1, <1>4, <2>1, <2>2 DEF DiskType
<1>6. Ready(TASK_HD)' <=> Ready(TASK_HD)
  BY <1>2 DEF Unmoved
<1>7. DiskInv'
  BY <1>1, <1>2, <1>4, <1>6 DEF Protocol, DiskInv, DiskQuiet, DiskWorks
<1> QED
  BY <1>1, <1>2, <1>3, <1>5, <1>7, DiskAlone

\* hd_handler: only while a sector waits to be read, and then it is the wakeup of
\* the receive that waits for it or it is recorded for the next.
LEMMA HandlerStep ==
  ASSUME ServersInv, hd_handler, UNCHANGED <<sys, client, ticks, unix_time>>
  PROVE  ServersInv'
<1> USE HdAssumption, ServersAssumption
<1>1. /\ fault = "none" /\ UNCHANGED <<disk, hd, fs, misuse>> /\ Protocol
      /\ irq /\ irq' = FALSE /\ KernelInv
  BY DEF hd_handler, ServersInv
<1>2. /\ KernelInv' /\ fault' = "none"
      /\ \A r \in Proc \ {TASK_HD} : Unmoved(r) /\ has_int_msg'[r] = has_int_msg[r]
      /\ \/ /\ WaitsOn(TASK_HD, INTERRUPT) \/ WaitsOn(TASK_HD, ANY)
            /\ Ready(TASK_HD)' /\ has_int_msg'[TASK_HD] = 0
         \/ /\ ~WaitsOn(TASK_HD, INTERRUPT) /\ ~WaitsOn(TASK_HD, ANY)
            /\ Unmoved(TASK_HD) /\ has_int_msg'[TASK_HD] = 1
  BY <1>1, InformEffect DEF hd_handler
<1>3. Places
  BY <1>1, PlaceFacts
<1>4. hd.at \in {"wait", "read"}
  BY <1>1 DEF Protocol, DiskType, DiskInv, DiskQuiet
<1>5. DiskType'
  BY <1>1 DEF Protocol, DiskType
<1>6. Unmoved(TASK_FS)
  BY <1>2
<1>7. HdProto' /\ DiskInv'
  <2>1. CASE hd.at = "wait"
    <3>1. Ready(TASK_HD)
      BY <1>1, <2>1 DEF Protocol, HdProto
    <3>2. Unmoved(TASK_HD) /\ has_int_msg'[TASK_HD] = 1
      BY <1>2, <1>3, <3>1 DEF Places, Place
    <3>3. HdProto'
      BY <1>1, <1>6, <3>2, HdFrame DEF Protocol
    <3>4. DiskInv'
      BY <1>1, <2>1, <3>2 DEF Protocol, DiskInv, DiskWorks, DiskQuiet
    <3> QED
      BY <3>3, <3>4
  <2>2. CASE hd.at = "read"
    <3>1. WaitsOn(TASK_HD, INTERRUPT)
      BY <1>1, <2>2 DEF Protocol, HdProto, DiskInv
    <3>2. Ready(TASK_HD)' /\ has_int_msg'[TASK_HD] = 0
      BY <1>2, <3>1
    <3>3. HdProto'
      BY <1>1, <1>6, <2>2, <3>2 DEF Protocol, HdProto, HdServes, Unmoved
    <3>4. disk = [st |-> "drq", left |-> hd.need] /\ hd.need \in Nat \ {0}
      BY <1>1, <1>3, <2>2, <3>1 DEF Protocol, DiskType, DiskInv, DiskWorks, Places, Place
    <3>5. DiskInv'
      BY <1>1, <2>2, <3>2, <3>4 DEF Protocol, DiskInv, DiskWorks, DiskQuiet
    <3> QED
      BY <3>3, <3>5
  <2> QED
    BY <1>4, <2>1, <2>2
<1> QED
  BY <1>1, <1>2, <1>5, <1>7, DiskAlone

\* The steps of task_hd that make no call of the kernel: hd_identify begins, a
\* command goes out, a sector is read, the next request begins.
LEMMA HdOwnSteps ==
  ASSUME ServersInv, UNCHANGED <<sys, client, ticks, unix_time>>,
         \/ hd_dispatch \/ hd_cmd_out \/ port_read
         \/ \E n \in 1 .. MaxSectors : hd_read_bytes(n)
  PROVE  ServersInv'
<1> USE HdAssumption, ServersAssumption
<1>1. fault = "none" /\ Ready(TASK_HD) /\ Protocol /\ fs' = fs
  BY DEF hd_dispatch, hd_cmd_out, port_read, hd_read_bytes, hdAt, runs, Ready, ServersInv
<1>2. DiskType /\ DiskInv /\ HdProto
  BY <1>1 DEF Protocol
<1>3. ASSUME UNCHANGED ipcVars, DiskType', DiskInv', HdProto' PROVE ServersInv'
  <2>1. KernelInv' /\ fault' = "none" /\ \A r : Unmoved(r) /\ has_int_msg'[r] = has_int_msg[r]
    BY <1>1, <1>3, Still DEF ServersInv, ipcVars
  <2> QED
    BY <1>1, <1>3, <2>1, DiskAlone
<1>4. ASSUME UNCHANGED ipcVars, hd'.at \in {"waitfor", "wait", "done"}, hd'.src = TASK_FS, HdServes
      PROVE  HdProto'
  <2>1. /\ Ready(TASK_HD)' /\ (Ready(TASK_FS)' <=> Ready(TASK_FS))
        /\ (WaitsOn(TASK_FS, TASK_HD)' <=> WaitsOn(TASK_FS, TASK_HD))
    BY <1>1, <1>4 DEF ipcVars, Ready, WaitsOn, Receiving
  <2> QED
    BY <1>1, <1>2, <1>4, <2>1 DEF HdProto
<1>5. CASE hd_dispatch
  <2>1. /\ hd.at = "got" /\ msg[TASK_HD] = [source |-> TASK_FS, type |-> Body("DEV_OPEN", 0)]
        /\ HdServes
    <3>1. Places
      BY PlaceFacts DEF ServersInv
    <3> QED
      BY <1>1, <1>2, <1>5, <3>1 DEF hd_dispatch, hdAt, HdProto, HdServes, Places, Place
  <2>2. /\ UNCHANGED <<ipcVars, disk, irq, misuse>>
        /\ hd' = [at |-> "waitfor", src |-> TASK_FS, need |-> 1, count |-> 1, made |-> 0]
    BY <1>5, <2>1 DEF hd_dispatch, Body, ipcVars
  <2>3. DiskType'
    BY <1>2, <2>2 DEF DiskType
  <2>4. DiskInv'
    BY <1>2, <2>1, <2>2 DEF DiskInv, DiskQuiet, ipcVars
  <2> QED
    BY <1>3, <1>4, <2>1, <2>2, <2>3, <2>4
<1>6. CASE hd_cmd_out
  <2>1. /\ hd.at = "waitfor" /\ disk.st # "busy" /\ DiskQuiet
        /\ hd.need \in Nat \ {0} /\ hd.count = hd.need
    BY <1>2, <1>6 DEF hd_cmd_out, hdAt, DiskInv
  <2>2. /\ disk' = [st |-> "busy", left |-> hd.need]
        /\ UNCHANGED <<ipcVars, irq>>
        /\ hd' = [at |-> "wait", src |-> hd.src, need |-> hd.need, count |-> hd.count,
                  made |-> hd.made]
    BY <1>2, <1>6, <2>1 DEF hd_cmd_out, DiskType
  <2>3. ~misuse'
    <3>1. disk.st # "drq" /\ ~misuse
      BY <1>2, <2>1 DEF DiskInv, DiskQuiet
    <3> QED
      BY <1>6, <3>1 DEF hd_cmd_out
  <2>4. DiskType'
    BY <1>2, <2>1, <2>2 DEF DiskType
  <2>5. DiskInv'
    BY <1>2, <2>1, <2>2, <2>3 DEF DiskInv, DiskQuiet, DiskWorks, ipcVars
  <2>6. HdServes /\ hd.src = TASK_FS
    BY <1>2, <2>1 DEF HdServes, HdProto
  <2> QED
    BY <1>3, <1>4, <2>2, <2>4, <2>5, <2>6
<1>7. CASE port_read
  <2>1. /\ hd.at = "read" /\ hd.need \in Nat \ {0}
        /\ disk = [st |-> "drq", left |-> hd.need] /\ ~irq /\ has_int_msg[TASK_HD] = 0
    BY <1>1, <1>2, <1>7 DEF port_read, hdAt, DiskInv
  <2>2. /\ disk' = [st |-> "busy", left |-> hd.need - 1] /\ UNCHANGED <<ipcVars, irq>>
        /\ hd' = [at |-> IF hd.need > 1 THEN "wait" ELSE "done", src |-> hd.src,
                  need |-> hd.need - 1, count |-> hd.count, made |-> hd.made]
    BY <1>2, <1>7, <2>1 DEF port_read, more, DiskType
  <2>3. ~misuse'
    BY <1>2, <1>7, <2>1 DEF port_read, DiskInv
  <2>4. hd.need - 1 \in Nat /\ (hd.need > 1 => hd.need - 1 # 0) /\ (~(hd.need > 1) => hd.need - 1 = 0)
    BY <2>1
  <2>5. DiskType'
    BY <1>2, <2>2, <2>4 DEF DiskType
  <2>6. DiskInv'
    BY <1>2, <2>1, <2>2, <2>3, <2>4 DEF DiskInv, DiskQuiet, DiskWorks, ipcVars
  <2>7. HdServes /\ hd.src = TASK_FS
    BY <1>2, <2>1 DEF HdServes, HdProto
  <2> QED
    BY <1>3, <1>4, <2>2, <2>5, <2>6, <2>7
<1>8. ASSUME NEW n \in 1 .. MaxSectors, hd_read_bytes(n) PROVE ServersInv'
  <2>1. hd.at = "done" /\ DiskQuiet
    BY <1>2, <1>8 DEF hd_read_bytes, hdAt, DiskInv
  <2>2. sectors(n) = n /\ n \in Nat \ {0}
    BY DEF sectors
  <2>3. /\ UNCHANGED <<ipcVars, disk, irq, misuse>>
        /\ hd' = [at |-> "waitfor", src |-> hd.src, need |-> n, count |-> n, made |-> hd.made + 1]
    BY <1>2, <1>8, <2>2 DEF hd_read_bytes, DiskType
  <2>4. DiskType'
    BY <1>2, <2>2, <2>3 DEF DiskType
  <2>5. DiskInv'
    BY <1>2, <2>1, <2>2, <2>3 DEF DiskInv, DiskQuiet, ipcVars
  <2>6. HdServes /\ hd.src = TASK_FS
    BY <1>2, <2>1 DEF HdServes, HdProto
  <2> QED
    BY <1>3, <1>4, <2>3, <2>4, <2>5, <2>6
<1> QED
  BY <1>5, <1>6, <1>7, <1>8

\* interrupt_wait.
LEMMA InterruptWait ==
  ASSUME ServersInv, interrupt_wait, UNCHANGED <<sys, client, ticks, unix_time>>
  PROVE  ServersInv'
<1> USE IpcAssumption, HdAssumption, ServersAssumption
<1>1. /\ fault = "none" /\ Ready(TASK_HD) /\ Protocol /\ KernelInv
      /\ hd.at = "wait" /\ UNCHANGED <<disk, irq, fs, misuse>>
  BY DEF interrupt_wait, hdAt, runs, Ready, ServersInv
<1>2. DiskType /\ DiskWorks /\ ~misuse /\ HdProto /\ hd.src = TASK_FS /\ HdServes
  BY <1>1 DEF Protocol, DiskInv, HdProto, HdServes
<1>3. hd' = [at |-> "read", src |-> hd.src, need |-> hd.need, count |-> hd.count,
             made |-> hd.made]
  BY <1>2 DEF interrupt_wait, DiskType
<1>4. /\ KernelInv' /\ fault' = "none" /\ \A r \in Proc \ {TASK_HD} : Unmoved(r)
      /\ \/ /\ has_int_msg[TASK_HD] = 1 /\ Ready(TASK_HD)'
            /\ has_int_msg' = [has_int_msg EXCEPT ![TASK_HD] = 0]
         \/ /\ has_int_msg[TASK_HD] = 0 /\ WaitsOn(TASK_HD, INTERRUPT)'
            /\ has_int_msg' = has_int_msg
  BY <1>1, RecvEffect DEF interrupt_wait, RecvOutcome
<1>5. \A r \in Proc \ {TASK_HD} : has_int_msg'[r] = has_int_msg[r]
  BY <1>1, <1>4 DEF KernelInv, KernelTypeOK
<1>6. has_int_msg'[TASK_HD] = 0
  BY <1>1, <1>4 DEF KernelInv, KernelTypeOK
<1>7. Place(TASK_HD)'
  BY <1>4, PlaceFactsNext DEF Places
<1>8. DiskType'
  BY <1>1, <1>2, <1>3 DEF DiskType
<1>9. HdProto'
  <2>1. Unmoved(TASK_FS)
    BY <1>4
  <2> QED
    BY <1>1, <1>2, <1>3, <1>4, <2>1 DEF HdProto, HdServes, Unmoved
<1>10. DiskInv'
  <2>1. CASE has_int_msg[TASK_HD] = 1
    <3>1. disk = [st |-> "drq", left |-> hd.need] /\ ~irq /\ hd.need \in Nat \ {0}
      BY <1>2, <2>1 DEF DiskWorks, DiskType
    <3>2. Ready(TASK_HD)'
      BY <1>4, <2>1
    <3> QED
      BY <1>1, <1>2, <1>3, <1>6, <3>1, <3>2 DEF DiskInv
  <2>2. CASE has_int_msg[TASK_HD] = 0
    <3>1. ~Ready(TASK_HD)'
      BY <1>4, <1>7, <2>2 DEF Place
    <3> QED
      BY <1>1, <1>2, <1>3, <1>6, <2>2, <3>1 DEF DiskInv, DiskWorks
  <2> QED
    BY <1>4, <2>1, <2>2
<1> QED
  BY <1>1, <1>4, <1>5, <1>8, <1>9, <1>10, DiskAlone

\* The main loop of task_hd receives: it takes DEV_OPEN from task_fs or blocks.
LEMMA HdReceive ==
  ASSUME ServersInv, hd_receive, UNCHANGED <<sys, client, ticks, unix_time>>
  PROVE  ServersInv'
<1> USE IpcAssumption, HdAssumption, ServersAssumption
<1>1. /\ fault = "none" /\ Ready(TASK_HD) /\ Protocol /\ KernelInv
      /\ hd.at = "receive" /\ UNCHANGED <<disk, irq, fs, misuse>>
  BY DEF hd_receive, hdAt, runs, Ready, ServersInv
<1>2. DiskType /\ DiskQuiet /\ ~misuse /\ HdProto /\ FsProto /\ has_int_msg[TASK_HD] = 0
  BY <1>1 DEF Protocol, DiskInv, DiskQuiet
<1>3. hd' = [at |-> "got", src |-> hd.src, need |-> hd.need, count |-> hd.count,
             made |-> hd.made]
  BY <1>2 DEF hd_receive, DiskType
<1>4. /\ KernelInv' /\ fault' = "none" /\ has_int_msg' = has_int_msg
      /\ \/ \E f \in Proc \ {TASK_HD} :
              /\ SendsTo(f, TASK_HD) /\ Ready(TASK_HD)' /\ Ready(f)'
              /\ msg'[TASK_HD] = msg[f]
              /\ \A r \in Proc \ {TASK_HD, f} : Unmoved(r)
         \/ WaitsOn(TASK_HD, ANY)' /\ \A r \in Proc \ {TASK_HD} : Unmoved(r)
  BY <1>1, <1>2, RecvEffect DEF hd_receive, RecvOutcome
<1>5. Place(TASK_HD)' /\ Place(TASK_FS)'
  BY <1>4, PlaceFactsNext DEF Places
<1>6. DiskType'
  BY <1>1, <1>2, <1>3 DEF DiskType
<1>7. DiskInv'
  BY <1>1, <1>2, <1>3, <1>4 DEF DiskInv, DiskQuiet
<1>8. CASE WaitsOn(TASK_HD, ANY)' /\ \A r \in Proc \ {TASK_HD} : Unmoved(r)
  <2>1. HdProto'
    BY <1>3, <1>5, <1>8 DEF HdProto, HdServes, Place
  <2> QED
    BY <1>1, <1>4, <1>6, <1>7, <1>8, <2>1, DiskAlone
<1>9. ASSUME NEW f \in Proc \ {TASK_HD},
             SendsTo(f, TASK_HD), Ready(TASK_HD)', Ready(f)', msg'[TASK_HD] = msg[f],
             \A r \in Proc \ {TASK_HD, f} : Unmoved(r)
      PROVE  ServersInv'
  <2>1. f = TASK_FS /\ fs.at = "opening" /\ Sent(TASK_FS, Body("DEV_OPEN", 0))
    BY <1>1, <1>9, Senders DEF server
  <2>2. HdProto'
    BY <1>1, <1>3, <1>5, <1>9, <2>1 DEF HdProto, HdServes, Place, Sent
  <2>3. FsProto' /\ \A c \in Client : ~FsServes(c)'
    BY <1>1, <1>2, <1>9, <2>1 DEF FsProto, FsServes
  <2> QED
    BY <1>1, <1>4, <1>6, <1>7, <1>9, <2>1, <2>2, <2>3, DiskSide
<1> QED
  BY <1>4, <1>8, <1>9

\* task_hd answers: task_fs takes the answer or has yet to ask for it.
LEMMA HdReply ==
  ASSUME ServersInv, hd_reply, UNCHANGED <<sys, client, ticks, unix_time>>
  PROVE  ServersInv'
<1> USE IpcAssumption, HdAssumption, ServersAssumption
<1>1. /\ fault = "none" /\ Ready(TASK_HD) /\ Protocol /\ KernelInv
      /\ hd.at = "done" /\ UNCHANGED <<disk, irq, fs, misuse>>
  BY DEF hd_reply, hdAt, runs, Ready, ServersInv
<1>2. /\ DiskType /\ DiskQuiet /\ ~misuse /\ FsProto /\ hd.src = TASK_FS
      /\ \/ fs.at = "opening" /\ Ready(TASK_FS)
         \/ fs.at = "receive" /\ WaitsOn(TASK_FS, TASK_HD)
  BY <1>1 DEF Protocol, DiskInv, HdProto, HdServes
<1>3. PICK z \in Nat : z = 0
  OBVIOUS
<1>4. hd' = [at |-> "receive", src |-> NO_TASK, need |-> hd.need, count |-> z, made |-> z]
  BY <1>2, <1>3 DEF hd_reply, DiskType
<1>5. Place(TASK_FS)
  BY <1>1, PlaceFacts DEF Places
<1>6. /\ KernelInv' /\ fault' = "none" /\ has_int_msg' = has_int_msg
      /\ \A r \in Proc \ {TASK_HD, TASK_FS} : Unmoved(r)
      /\ \/ WaitsOn(TASK_FS, TASK_HD) /\ Ready(TASK_HD)' /\ Ready(TASK_FS)'
         \/ ~WaitsOn(TASK_FS, TASK_HD) /\ SendsTo(TASK_HD, TASK_FS)' /\ Unmoved(TASK_FS)
  <2>1. \A x : ~SendsTo(TASK_FS, x) /\ ~WaitsOn(TASK_FS, ANY)
    BY <1>2, <1>5 DEF Place
  <2>2. msg_send(TASK_HD, TASK_FS, Body("DEV_OPEN", 0))
    BY <1>2 DEF hd_reply
  <2>3. TASK_FS \in Proc \ {TASK_HD}
    OBVIOUS
  <2>4. KernelInv' /\ SendOutcome(TASK_HD, TASK_FS, Body("DEV_OPEN", 0))
    BY <1>1, <2>1, <2>2, <2>3, SendEffect
  <2> QED
    BY <2>1, <2>4 DEF SendOutcome
<1>7. Place(TASK_HD)' /\ Place(TASK_FS)'
  BY <1>6, PlaceFactsNext DEF Places
<1>8. DiskType'
  BY <1>1, <1>2, <1>4 DEF DiskType
<1>9. DiskInv'
  BY <1>1, <1>2, <1>4, <1>6 DEF DiskInv, DiskQuiet
<1>10. HdProto'
  BY <1>1, <1>2, <1>4, <1>5, <1>6, <1>7 DEF HdProto, HdServes, Place, Unmoved
<1>11. FsProto' /\ \A c \in Client : ~FsServes(c)'
  BY <1>1, <1>2, <1>5, <1>6, <1>7 DEF FsProto, FsServes, Place, Unmoved
<1> QED
  BY <1>1, <1>6, <1>8, <1>9, <1>10, <1>11, DiskSide

\* panic("hd error").
LEMMA HdTimeout ==
  ASSUME ServersInv, hd_timeout, UNCHANGED <<sys, client, ticks, unix_time>>
  PROVE  ServersInv'
<1>1. /\ UNCHANGED <<p_flags, p_msg, p_recvfrom, p_sendto, has_int_msg, q_sending, msg,
                     misuse>>
      /\ fault = "none" /\ fault' = "panic" /\ hd' = [hd EXCEPT !.at = "timeout"]
  BY DEF hd_timeout, hdAt, runs
<1>2. KernelInv'
  BY <1>1, KernelFrame DEF ServersInv, KernelInv, KernelTypeOK, Buffers
<1>3. hd'.at = "timeout"
  BY <1>1 DEF ServersInv, Protocol, DiskType
<1> QED
  BY <1>1, <1>2, <1>3 DEF ServersInv, ClockInv

----------------------------------------------------------------------------
(* task_fs opens the disk. *)

\* DEV_OPEN is sent.
LEMMA FsOpen ==
  ASSUME ServersInv, fs_open, UNCHANGED <<sys, client, ticks, unix_time>>
  PROVE  ServersInv'
<1> USE IpcAssumption, HdAssumption, ServersAssumption
<1>1. /\ fault = "none" /\ Ready(TASK_FS) /\ Protocol /\ KernelInv
      /\ fs.at = "start" /\ UNCHANGED <<disk, irq, hd, misuse>>
  BY DEF fs_open, fsAt, runs, Ready, ServersInv
<1>2. DiskType /\ DiskInv /\ HdProto /\ FsProto /\ ~HdServes
  BY <1>1 DEF Protocol, HdProto
<1>3. fs' = [at |-> "opening", src |-> fs.src]
  BY <1>2 DEF fs_open, FsProto
<1>4. Place(TASK_HD)
  BY <1>1, PlaceFacts DEF Places
<1>5. \/ hd.at = "receive" /\ Ready(TASK_HD)
      \/ hd.at = "got" /\ WaitsOn(TASK_HD, ANY)
  BY <1>2 DEF HdProto, HdServes, DiskType
<1>6. KernelInv' /\ SendOutcome(TASK_FS, TASK_HD, Body("DEV_OPEN", 0))
  <2>1. (\A x : ~SendsTo(TASK_HD, x)) /\ TASK_HD \in Proc \ {TASK_FS}
    BY <1>4, <1>5 DEF Place
  <2>2. msg_send(TASK_FS, TASK_HD, Body("DEV_OPEN", 0))
    BY DEF fs_open
  <2> QED
    BY <1>1, <2>1, <2>2, SendEffect
<1>7. Place(TASK_HD)' /\ Place(TASK_FS)'
  BY <1>6, PlaceFactsNext DEF Places
<1>8. DiskType'
  BY <1>1, <1>2 DEF DiskType
<1>9. DiskInv'
  BY <1>1, <1>2, <1>5, <1>6, DiskFrame DEF SendOutcome
<1>10. HdProto'
  BY <1>1, <1>2, <1>3, <1>4, <1>5, <1>6, <1>7 DEF HdProto, HdServes, Place, Unmoved, SendOutcome
<1>11. FsProto' /\ \A c \in Client : ~FsServes(c)'
  BY <1>2, <1>3, <1>6 DEF FsProto, FsServes, SendOutcome, Sent
<1> QED
  BY <1>1, <1>6, <1>8, <1>9, <1>10, <1>11, DiskSide DEF SendOutcome

\* Its answer is received.
LEMMA FsAwait ==
  ASSUME ServersInv, fs_await, UNCHANGED <<sys, client, ticks, unix_time>>
  PROVE  ServersInv'
<1> USE IpcAssumption, HdAssumption, ServersAssumption
<1>1. /\ fault = "none" /\ Ready(TASK_FS) /\ Protocol /\ KernelInv
      /\ fs.at = "opening" /\ UNCHANGED <<disk, irq, hd, misuse>>
  BY DEF fs_await, fsAt, runs, Ready, ServersInv
<1>2. DiskType /\ DiskInv /\ HdProto /\ FsProto
  BY <1>1 DEF Protocol
<1>3. fs' = [at |-> "receive", src |-> fs.src]
  BY <1>2 DEF fs_await, FsProto
<1>4. KernelInv' /\ RecvOutcome(TASK_FS, TASK_HD)
  <2>1. has_int_msg[TASK_FS] = 0 /\ TASK_HD \in Proc \ {TASK_FS}
    BY <1>1 DEF Protocol, KernelInv, KernelTypeOK
  <2>2. msg_recevie(TASK_FS, TASK_HD)
    BY DEF fs_await
  <2> QED
    BY <1>1, <2>1, <2>2, RecvEffect
<1>5. Place(TASK_HD)' /\ Place(TASK_FS)' /\ Place(TASK_HD)
  BY <1>1, <1>4, PlaceFacts, PlaceFactsNext DEF Places
<1>6. /\ fault' = "none" /\ has_int_msg' = has_int_msg
      /\ \A r \in Proc \ {TASK_HD, TASK_FS} : Unmoved(r)
      /\ \/ /\ hd.at = "receive" /\ Ready(TASK_HD)' /\ Ready(TASK_FS)'
         \/ /\ WaitsOn(TASK_FS, TASK_HD)' /\ Unmoved(TASK_HD)
  <2>1. SendsTo(TASK_HD, TASK_FS) => hd.at = "receive"
    BY <1>1, Senders
  <2>2. TASK_HD \notin {ANY, INTERRUPT}
    OBVIOUS
  <2> QED
    BY <1>4, <2>1, <2>2 DEF RecvOutcome
<1>7. DiskType'
  BY <1>1, <1>2 DEF DiskType
<1>8. DiskInv'
  BY <1>1, <1>2, <1>6, DiskFrame DEF Unmoved
<1>9. HdProto'
  BY <1>1, <1>2, <1>3, <1>5, <1>6 DEF HdProto, HdServes, Place, Unmoved
<1>10. FsProto' /\ \A c \in Client : ~FsServes(c)'
  BY <1>2, <1>3, <1>5, <1>6 DEF FsProto, FsServes, Place
<1> QED
  BY <1>1, <1>4, <1>6, <1>7, <1>8, <1>9, <1>10, DiskSide

----------------------------------------------------------------------------
(* task_fs and task_sys serve the processes. *)

\* The clock stands still.
LEMMA SameTime ==
  ASSUME ServersInv, UNCHANGED <<ticks, unix_time>>
  PROVE  /\ ClockInv /\ ClockInv' /\ ticks <= ticks' /\ unix_time <= unix_time'
         /\ unix_time \in Nat /\ unix_time' \in Nat
BY DivFacts DEF ServersInv, ClockInv

\* The call of c is not touched, nor is anybody newly at work for it.
Bystander(c) ==
  /\ client'[c] = client[c] /\ Unmoved(c)
  /\ FsServes(c)' => FsServes(c)
  /\ SysServes(c)' => SysServes(c)

\* What is left to show of a step that does not touch the disk.
LEMMA CallSide ==
  ASSUME ServersInv, fault = "none", KernelInv', fault' = "none",
         UNCHANGED <<disk, irq, hd, misuse, ticks, unix_time>>,
         has_int_msg' = has_int_msg, Unmoved(TASK_HD),
         HdServes => fs' = fs /\ Unmoved(TASK_FS),
         FsProto', SysProto', ClientType',
         \A c \in Client : ClientProto(c)' \/ Bystander(c)
  PROVE  ServersInv'
<1>1. Protocol
  BY DEF ServersInv
<1>2. DiskType' /\ DiskInv'
  BY <1>1, DiskFrame DEF Protocol, DiskType, Unmoved
<1>3. HdProto'
  BY <1>1, HdFrame DEF Protocol
<1>4. ASSUME NEW c \in Client, Bystander(c) PROVE ClientProto(c)'
  BY <1>1, <1>4, SameTime, ClientFrame DEF Protocol, Bystander
<1> QED
  BY <1>1, <1>2, <1>3, <1>4, SameTime DEF ServersInv, Protocol, DiskInv

\* task_fs takes a request.
LEMMA FsReceive ==
  ASSUME ServersInv, fs_receive, UNCHANGED <<sys, client, ticks, unix_time>>
  PROVE  ServersInv'
<1> USE IpcAssumption, HdAssumption, ServersAssumption
<1>1. /\ fault = "none" /\ Ready(TASK_FS) /\ Protocol /\ KernelInv
      /\ fs.at = "receive" /\ UNCHANGED <<disk, irq, hd, misuse>>
  BY DEF fs_receive, fsAt, runs, Ready, ServersInv
<1>2. Place(TASK_FS) /\ \A c \in Client : Place(c)
  BY <1>1, PlaceFacts DEF Places
<1>3. FsProto /\ SysProto /\ ClientType /\ ~HdServes /\ \A c \in Client : ClientProto(c)
  BY <1>1, <1>2 DEF Protocol, HdProto, Place
<1>4. fs' = [at |-> "got", src |-> fs.src]
  BY <1>3 DEF fs_receive, FsProto
<1>5. KernelInv' /\ RecvOutcome(TASK_FS, ANY)
  <2>1. msg_recevie(TASK_FS, ANY)
    BY DEF fs_receive
  <2> QED
    BY <1>1, <2>1, RecvEffect
<1>6. Place(TASK_FS)'
  BY <1>5, PlaceFactsNext DEF Places
<1>7. has_int_msg[TASK_FS] # 1
  BY <1>1 DEF Protocol
<1>8. ClientType'
  BY <1>3 DEF ClientType
<1>9. fault' = "none" /\ has_int_msg' = has_int_msg
  BY <1>5, <1>7 DEF RecvOutcome
<1>10. ASSUME Unmoved(TASK_SYS)
       PROVE  SysProto' /\ \A c \in Client : SysServes(c)' => SysServes(c)
  BY <1>3, <1>10, SameTime, SysFrame, SysServesFrame
<1>11. CASE WaitsOn(TASK_FS, ANY)' /\ \A r \in Proc \ {TASK_FS} : Unmoved(r)
  <2>1. Unmoved(TASK_HD) /\ Unmoved(TASK_SYS) /\ \A c \in Client : Unmoved(c)
    BY <1>11
  <2>2. FsProto' /\ \A c \in Client : ~FsServes(c)'
    BY <1>3, <1>4, <1>6, <1>11 DEF FsProto, FsServes, Place
  <2> QED
    BY <1>1, <1>3, <1>5, <1>8, <1>9, <1>10, <2>1, <2>2, CallSide DEF Bystander
<1>12. ASSUME NEW f \in Proc \ {TASK_FS},
              SendsTo(f, TASK_FS), Ready(TASK_FS)', Ready(f)',
              msg'[TASK_FS] = msg[f], msg'[f] = msg[f],
              \A r \in Proc \ {TASK_FS, f} : Unmoved(r)
       PROVE  ServersInv'
  <2>1. /\ f \in Client /\ client[f].at = "sent" /\ client[f].call = "READ"
        /\ Sent(f, Body("READ", 0))
    <3>1. f # TASK_HD
      BY <1>3, <1>12 DEF HdServes
    <3>2. f # TASK_SYS
      BY <1>1, <1>12, Senders
    <3>3. f \in Client
      BY <3>1, <3>2
    <3>4. client[f].at = "sent" /\ server(client[f].call) = TASK_FS /\ Sent(f, Body(client[f].call, 0))
      BY <1>1, <1>12, <3>3, Senders
    <3>5. client[f].call = "READ"
      BY <3>4 DEF server
    <3> QED
      BY <3>3, <3>4, <3>5
  <2>2. Unmoved(TASK_HD) /\ Unmoved(TASK_SYS) /\ \A c \in Client \ {f} : Unmoved(c)
    BY <1>12, <2>1
  <2>3. msg'[TASK_FS].source = f /\ msg'[TASK_FS].type = Body("READ", 0)
    BY <1>12, <2>1 DEF Sent
  <2>4. FsProto' /\ \A c \in Client \ {f} : ~FsServes(c)'
    BY <1>3, <1>4, <1>12, <2>1, <2>3 DEF FsProto, FsServes
  <2>5. ~SysServes(f)'
    <3>1. ~Owed(f)
      BY <1>2, <1>12, <2>1 DEF Owed, Place
    <3> QED
      BY <1>3, <1>10, <2>1, <2>2, <3>1 DEF ClientProto
  <2>6. ClientProto(f)'
    BY <1>3, <1>12, <2>1, <2>5 DEF ClientProto, Owed
  <2> QED
    BY <1>1, <1>3, <1>5, <1>8, <1>9, <1>10, <2>2, <2>4, <2>6, CallSide DEF Bystander
<1> QED
  BY <1>5, <1>7, <1>11, <1>12 DEF RecvOutcome

\* It reads the line.
LEMMA FsDispatch ==
  ASSUME ServersInv, fs_dispatch, UNCHANGED <<sys, client, ticks, unix_time>>
  PROVE  ServersInv'
<1> USE IpcAssumption, HdAssumption, ServersAssumption
<1>1. /\ fault = "none" /\ Ready(TASK_FS) /\ Protocol /\ KernelInv
      /\ fs.at = "got" /\ UNCHANGED <<disk, irq, hd, misuse>>
  BY DEF fs_dispatch, fsAt, runs, Ready, ServersInv
<1>2. Place(TASK_FS)
  BY <1>1, PlaceFacts DEF Places
<1>3. FsProto /\ SysProto /\ ClientType /\ ~HdServes
  BY <1>1 DEF Protocol, HdProto
<1>4. msg[TASK_FS].source \in Client /\ msg[TASK_FS].type = Body("READ", 0)
  BY <1>1, <1>2, <1>3 DEF FsProto, Place
<1>5. UNCHANGED ipcVars /\ fs' = [at |-> "reply", src |-> msg[TASK_FS].source]
  BY <1>4 DEF fs_dispatch, ipcVars, Body
<1>6. KernelInv' /\ fault' = "none" /\ has_int_msg' = has_int_msg /\ \A r : Unmoved(r)
  BY <1>1, <1>5, Still DEF ipcVars
<1>7. FsProto' /\ \A c \in Client : FsServes(c)' => FsServes(c)
  BY <1>1, <1>3, <1>4, <1>5, <1>6 DEF FsProto, FsServes, Unmoved
<1>8. SysProto' /\ \A c \in Client : SysServes(c)' => SysServes(c)
  BY <1>3, <1>6, SameTime, SysFrame, SysServesFrame
<1>9. ClientType'
  BY <1>3 DEF ClientType
<1> QED
  BY <1>1, <1>3, <1>6, <1>7, <1>8, <1>9, CallSide DEF Bystander

\* It answers: the process takes the answer or has yet to ask for it.
LEMMA FsReply ==
  ASSUME ServersInv, fs_reply, UNCHANGED <<sys, client, ticks, unix_time>>
  PROVE  ServersInv'
<1> USE IpcAssumption, HdAssumption, ServersAssumption
<1>1. /\ fault = "none" /\ Ready(TASK_FS) /\ Protocol /\ KernelInv
      /\ fs.at = "reply" /\ UNCHANGED <<disk, irq, hd, misuse>>
  BY DEF fs_reply, fsAt, runs, Ready, ServersInv
<1>2. Place(TASK_FS) /\ \A c \in Client : Place(c)
  BY <1>1, PlaceFacts DEF Places
<1>3. FsProto /\ SysProto /\ ClientType /\ ~HdServes /\ \A c \in Client : ClientProto(c)
  BY <1>1, <1>2 DEF Protocol, HdProto, Place
<1>4. PICK c \in Client : c = fs.src
  BY <1>1, <1>3 DEF FsProto
<1>5. FsServes(c) /\ Owed(c) /\ client[c].call = "READ" /\ ~SysServes(c)
  BY <1>1, <1>3, <1>4 DEF FsServes, ClientProto
<1>6. /\ client[c].at \in {"sent", "received"}
      /\ client[c].at = "sent" => Ready(c)
      /\ client[c].at = "received" => WaitsOn(c, TASK_FS)
  BY <1>3, <1>5 DEF Owed, ClientProto, server
<1>7. KernelInv' /\ SendOutcome(TASK_FS, c, Body("SYSCALL_RET", 0))
  <2>1. (\A x : ~SendsTo(c, x)) /\ c \in Proc \ {TASK_FS}
    BY <1>2, <1>6 DEF Place
  <2>2. msg_send(TASK_FS, c, Body("SYSCALL_RET", 0))
    BY <1>4 DEF fs_reply
  <2> QED
    BY <1>1, <2>1, <2>2, SendEffect
<1>8. fs' = [at |-> "receive", src |-> NO_TASK]
  BY DEF fs_reply
<1>9. /\ Place(TASK_FS)' /\ fault' = "none" /\ has_int_msg' = has_int_msg
      /\ Unmoved(TASK_HD) /\ Unmoved(TASK_SYS) /\ \A q \in Client \ {c} : Unmoved(q)
  BY <1>7, PlaceFactsNext DEF Places, SendOutcome
<1>10. /\ \/ client[c].at = "received" /\ Ready(TASK_FS)' /\ Ready(c)'
          \/ client[c].at = "sent" /\ SendsTo(TASK_FS, c)' /\ Ready(c)'
  BY <1>2, <1>6, <1>7 DEF SendOutcome, Place, Unmoved
<1>11. FsProto' /\ \A q \in Client \ {c} : ~FsServes(q)'
  BY <1>8, <1>9, <1>10 DEF FsProto, FsServes, Place
<1>12. SysProto' /\ \A q \in Client : SysServes(q)' => SysServes(q)
  BY <1>3, <1>9, SameTime, SysFrame, SysServesFrame
<1>13. ClientType'
  BY <1>3 DEF ClientType
<1>14. ClientProto(c)'
  <2>1. Fresh(c, msg[c].type)'
    BY <1>5 DEF Fresh, TrueFor
  <2>2. client[c].at = "received" => ~FsServes(c)'
    BY <1>8, <1>9, <1>10 DEF FsServes, Place
  <2> QED
    BY <1>3, <1>5, <1>6, <1>10, <1>12, <2>1, <2>2 DEF ClientProto, Owed
<1> QED
  BY <1>1, <1>3, <1>7, <1>9, <1>11, <1>12, <1>13, <1>14, CallSide DEF Bystander

\* task_sys takes a request.
LEMMA SysReceive ==
  ASSUME ServersInv, sys_receive
  PROVE  ServersInv'
<1> USE IpcAssumption, HdAssumption, ServersAssumption
<1>1. /\ fault = "none" /\ Ready(TASK_SYS) /\ Protocol /\ KernelInv
      /\ sys = "receive" /\ sys' = "got"
      /\ UNCHANGED <<disk, irq, hd, fs, misuse, client, ticks, unix_time>>
  BY DEF sys_receive, sysAt, runs, Ready, ServersInv
<1>2. \A c \in Client : Place(c)
  BY <1>1, PlaceFacts DEF Places
<1>3. FsProto /\ SysProto /\ ClientType /\ \A c \in Client : ClientProto(c)
  BY <1>1 DEF Protocol
<1>4. KernelInv' /\ RecvOutcome(TASK_SYS, ANY)
  <2>1. msg_recevie(TASK_SYS, ANY)
    BY DEF sys_receive
  <2> QED
    BY <1>1, <2>1, RecvEffect
<1>5. Place(TASK_SYS)'
  BY <1>4, PlaceFactsNext DEF Places
<1>6. has_int_msg[TASK_SYS] # 1
  BY <1>1 DEF Protocol
<1>7. ClientType'
  BY <1>1, <1>3 DEF ClientType
<1>8. fault' = "none" /\ has_int_msg' = has_int_msg
  BY <1>4, <1>6 DEF RecvOutcome
<1>9. ASSUME Unmoved(TASK_FS)
       PROVE  FsProto' /\ \A c \in Client : FsServes(c)' => FsServes(c)
  BY <1>1, <1>3, <1>9, FsFrame
<1>10. CASE WaitsOn(TASK_SYS, ANY)' /\ \A r \in Proc \ {TASK_SYS} : Unmoved(r)
  <2>1. Unmoved(TASK_HD) /\ Unmoved(TASK_FS) /\ \A c \in Client : Unmoved(c)
    BY <1>10
  <2>2. SysProto' /\ \A c \in Client : ~SysServes(c)'
    BY <1>1, <1>5, <1>10 DEF SysProto, SysServes, Place
  <2> QED
    BY <1>1, <1>4, <1>7, <1>8, <1>9, <2>1, <2>2, CallSide DEF Bystander
<1>11. ASSUME NEW f \in Proc \ {TASK_SYS},
              SendsTo(f, TASK_SYS), Ready(TASK_SYS)', Ready(f)',
              msg'[TASK_SYS] = msg[f], msg'[f] = msg[f],
              \A r \in Proc \ {TASK_SYS, f} : Unmoved(r)
       PROVE  ServersInv'
  <2>1. /\ f \in Client /\ client[f].at = "sent" /\ client[f].call # "READ"
        /\ Sent(f, Body(client[f].call, 0))
    <3>1. f # TASK_HD /\ f # TASK_FS
      BY <1>1, <1>11, Senders
    <3>2. f \in Client
      BY <3>1
    <3>3. /\ client[f].at = "sent" /\ server(client[f].call) = TASK_SYS
          /\ Sent(f, Body(client[f].call, 0))
      BY <1>1, <1>11, <3>2, Senders
    <3>4. client[f].call # "READ"
      BY <3>3 DEF server
    <3> QED
      BY <3>2, <3>3, <3>4
  <2>2. Unmoved(TASK_HD) /\ Unmoved(TASK_FS) /\ \A c \in Client \ {f} : Unmoved(c)
    BY <1>11, <2>1
  <2>3. Asked(f)' /\ msg'[TASK_SYS].source = f
    BY <1>1, <1>11, <2>1 DEF Sent, Asked
  <2>4. SysProto' /\ \A c \in Client \ {f} : ~SysServes(c)'
    BY <1>1, <1>11, <2>1, <2>3 DEF SysProto, SysServes
  <2>5. ~FsServes(f)'
    <3>1. ~Owed(f)
      BY <1>2, <1>11, <2>1 DEF Owed, Place
    <3> QED
      BY <1>3, <1>9, <2>1, <2>2, <3>1 DEF ClientProto
  <2>6. ClientProto(f)'
    BY <1>1, <1>3, <1>11, <2>1, <2>5 DEF ClientProto, Owed
  <2> QED
    BY <1>1, <1>4, <1>7, <1>8, <1>9, <2>2, <2>4, <2>6, CallSide DEF Bystander
<1> QED
  BY <1>4, <1>6, <1>10, <1>11 DEF RecvOutcome

\* It puts the value into the message.
LEMMA SysAnswer ==
  ASSUME ServersInv, sys_answer
  PROVE  ServersInv'
<1> USE IpcAssumption, HdAssumption, ServersAssumption
<1>1. /\ fault = "none" /\ Ready(TASK_SYS) /\ Protocol /\ KernelInv
      /\ sys = "got" /\ sys' = "reply"
      /\ UNCHANGED <<p_flags, p_msg, p_recvfrom, p_sendto, has_int_msg, q_sending, fault>>
      /\ UNCHANGED <<disk, irq, hd, fs, misuse, client, ticks, unix_time>>
      /\ msg' = [msg EXCEPT ![TASK_SYS].type = answer(msg[TASK_SYS])]
  BY DEF sys_answer, sysAt, runs, Ready, ServersInv, sysMsg
<1>2. Place(TASK_SYS)
  BY <1>1, PlaceFacts DEF Places
<1>3. FsProto /\ SysProto /\ ClientType /\ \A c \in Client : ClientProto(c)
  BY <1>1 DEF Protocol
<1>4. PICK c \in Client : msg[TASK_SYS] = [source |-> c, type |-> Body(client[c].call, 0)]
  BY <1>1, <1>2, <1>3 DEF SysProto, Place, Asked
<1>5. /\ SysServes(c) /\ client[c].call \in {"GETTIME", "GET_PID", "GET_TICKS"}
      /\ client[c].since \in Nat /\ client[c].since <= ticks
  <2>1. SysServes(c)
    BY <1>1, <1>4 DEF SysServes
  <2>2. Owed(c) /\ client[c].call # "READ"
    BY <1>3, <2>1 DEF ClientProto
  <2>3. client[c].call # "none"
    BY <1>3, <2>2 DEF ClientProto, Owed
  <2> QED
    BY <1>3, <2>1, <2>2, <2>3 DEF ClientType
<1>6. msg = [q \in Proc |-> msg[q]]
  BY <1>1 DEF KernelInv, KernelTypeOK, Buffers
<1>7. msg' = [msg EXCEPT ![TASK_SYS] = [source |-> c, type |-> answer(msg[TASK_SYS])]]
  <2>1. PICK b : b = Body(client[c].call, 0)
    OBVIOUS
  <2>2. PICK a : a = answer(msg[TASK_SYS])
    OBVIOUS
  <2>3. [msg[TASK_SYS] EXCEPT !.type = a] = [source |-> c, type |-> a]
    BY <1>4, <2>1
  <2>4. msg' = [msg EXCEPT ![TASK_SYS] = [msg[TASK_SYS] EXCEPT !.type = a]]
    BY <1>1, <2>2
  <2> QED
    BY <2>2, <2>3, <2>4
<1>8. KernelInv'
  <2>1. Buffers' /\ fault' = "none"
    BY <1>1, <1>6, <1>7 DEF Buffers
  <2> QED
    BY <1>1, <2>1, KernelFrame
<1>9. \A r \in Proc \ {TASK_SYS} : Unmoved(r)
  BY <1>1, <1>6, <1>7, UnmovedFacts
<1>10. /\ Ready(TASK_SYS)' /\ msg'[TASK_SYS].source = c
       /\ msg'[TASK_SYS].type = answer(msg[TASK_SYS])
  <2>1. PICK a : a = answer(msg[TASK_SYS])
    OBVIOUS
  <2>2. msg'[TASK_SYS] = [source |-> c, type |-> a]
    BY <1>6, <1>7, <2>1
  <2> QED
    BY <1>1, <2>1, <2>2 DEF Ready
<1>11. SysProto' /\ \A q \in Client : SysServes(q)' => SysServes(q)
  <2>1. Fresh(c, msg[TASK_SYS].type)'
    <3>1. ticks \in Nat /\ unix_time \in Nat /\ (client[c].since \div HZ) <= unix_time
      BY <1>5, DivFacts DEF ServersInv, ClockInv
    <3>2. /\ client[c].call = "GET_TICKS" => answer(msg[TASK_SYS]).val = ticks
          /\ client[c].call = "GET_PID" => answer(msg[TASK_SYS]).val = c
          /\ client[c].call = "GETTIME" => answer(msg[TASK_SYS]).val = unix_time
      BY <1>4 DEF answer, Body
    <3>3. client[c].since \div HZ \in Nat
      BY <1>5, DivFacts
    <3> QED
      BY <1>1, <1>5, <1>10, <3>1, <3>2, <3>3 DEF Fresh, TrueFor
  <2>2. SysProto'
    BY <1>1, <1>10, <2>1 DEF SysProto
  <2> QED
    BY <1>1, <1>5, <1>10, <2>2 DEF SysServes
<1>12. /\ FsProto' /\ Unmoved(TASK_HD) /\ Unmoved(TASK_FS)
       /\ \A q \in Client : Unmoved(q) /\ (FsServes(q)' => FsServes(q))
  BY <1>1, <1>3, <1>9, FsFrame
<1>13. ClientType'
  BY <1>1, <1>3 DEF ClientType
<1> QED
  BY <1>1, <1>8, <1>11, <1>12, <1>13, CallSide DEF Bystander

\* It answers.
LEMMA SysReply ==
  ASSUME ServersInv, sys_reply
  PROVE  ServersInv'
<1> USE IpcAssumption, HdAssumption, ServersAssumption
<1>1. /\ fault = "none" /\ Ready(TASK_SYS) /\ Protocol /\ KernelInv
      /\ sys = "reply" /\ sys' = "receive"
      /\ UNCHANGED <<disk, irq, hd, fs, misuse, client, ticks, unix_time>>
  BY DEF sys_reply, sysAt, runs, Ready, ServersInv
<1>2. \A c \in Client : Place(c)
  BY <1>1, PlaceFacts DEF Places
<1>3. FsProto /\ SysProto /\ ClientType /\ \A c \in Client : ClientProto(c)
  BY <1>1 DEF Protocol
<1>4. PICK c \in Client : c = msg[TASK_SYS].source
  BY <1>1, <1>3 DEF SysProto
<1>5. PICK t : t = msg[TASK_SYS].type
  OBVIOUS
<1>6. /\ SysServes(c) /\ Owed(c) /\ client[c].call # "READ" /\ ~FsServes(c)
      /\ TrueFor(c, client[c], t.val, ticks, unix_time)
  BY <1>1, <1>3, <1>4, <1>5 DEF SysServes, ClientProto, SysProto, Fresh
<1>7. /\ client[c].at \in {"sent", "received"}
      /\ client[c].at = "sent" => Ready(c)
      /\ client[c].at = "received" => WaitsOn(c, TASK_SYS)
  BY <1>3, <1>6 DEF Owed, ClientProto, server
<1>8. KernelInv' /\ SendOutcome(TASK_SYS, c, t)
  <2>1. (\A x : ~SendsTo(c, x)) /\ c \in Proc \ {TASK_SYS}
    BY <1>2, <1>7 DEF Place
  <2>2. msg_send(TASK_SYS, c, t)
    BY <1>4, <1>5 DEF sys_reply, sysMsg
  <2> QED
    BY <1>1, <2>1, <2>2, SendEffect
<1>9. /\ Place(TASK_SYS)' /\ fault' = "none" /\ has_int_msg' = has_int_msg
      /\ Unmoved(TASK_HD) /\ Unmoved(TASK_FS) /\ \A q \in Client \ {c} : Unmoved(q)
  BY <1>8, PlaceFactsNext DEF Places, SendOutcome
<1>10. /\ \/ client[c].at = "received" /\ Ready(TASK_SYS)' /\ Ready(c)' /\ msg'[c].type = t
          \/ client[c].at = "sent" /\ SendsTo(TASK_SYS, c)' /\ Ready(c)' /\ msg'[TASK_SYS].type = t
  BY <1>2, <1>7, <1>8 DEF SendOutcome, Place, Unmoved
<1>11. SysProto' /\ \A q \in Client \ {c} : ~SysServes(q)'
  <2>1. msg'[TASK_SYS].type = t => Fresh(c, msg[TASK_SYS].type)'
    BY <1>1, <1>6 DEF Fresh
  <2> QED
    BY <1>1, <1>9, <1>10, <2>1 DEF SysProto, SysServes, Place
<1>12. FsProto' /\ \A q \in Client : FsServes(q)' => FsServes(q)
  BY <1>1, <1>3, <1>9, FsFrame
<1>13. ClientType'
  BY <1>1, <1>3 DEF ClientType
<1>14. ClientProto(c)'
  <2>1. client[c].at = "received" => Fresh(c, msg[c].type)'
    BY <1>1, <1>6, <1>10 DEF Fresh
  <2>2. client[c].at = "received" => ~SysServes(c)'
    BY <1>1, <1>9, <1>10 DEF SysServes, Place
  <2> QED
    BY <1>1, <1>3, <1>6, <1>7, <1>10, <1>12, <2>1, <2>2 DEF ClientProto, Owed
<1> QED
  BY <1>1, <1>8, <1>9, <1>11, <1>12, <1>13, <1>14, CallSide DEF Bystander

----------------------------------------------------------------------------
(* The processes. *)

\* A process that makes a call is served by nobody yet.
LEMMA CallFacts ==
  ASSUME ServersInv, NEW p \in Client, NEW k \in Calls[p], call(p, k)
  PROVE  /\ fault = "none" /\ Ready(p) /\ Protocol /\ KernelInv /\ client[p].at = "user"
         /\ ~FsServes(p) /\ ~SysServes(p)
         /\ UNCHANGED <<disk, irq, hd, fs, misuse, sys, ticks, unix_time>>
         /\ client'[p] = [call |-> k, at |-> "sent", since |-> ticks]
         /\ \A c \in Client \ {p} : client'[c] = client[c]
         /\ ClientType' /\ k \in {"READ", "GETTIME", "GET_PID", "GET_TICKS"}
<1> USE ServersAssumption
<1>1. /\ fault = "none" /\ Ready(p) /\ Protocol /\ KernelInv /\ client[p].at = "user"
      /\ UNCHANGED <<disk, irq, hd, fs, misuse, sys, ticks, unix_time>>
      /\ client' = [client EXCEPT ![p] = [call |-> k, at |-> "sent", since |-> ticks]]
  BY DEF call, runs, Ready, ServersInv
<1>2. ClientType /\ ClientProto(p) /\ ticks \in Nat
  BY <1>1 DEF Protocol, ServersInv, ClockInv
<1>3. ~FsServes(p) /\ ~SysServes(p)
  BY <1>1, <1>2 DEF ClientProto, Owed
<1>4. k \in {"READ", "GETTIME", "GET_PID", "GET_TICKS"}
  OBVIOUS
<1>5. /\ client'[p] = [call |-> k, at |-> "sent", since |-> ticks]
      /\ \A c \in Client \ {p} : client'[c] = client[c]
  BY <1>1, <1>2 DEF ClientType
<1>6. ClientType'
  <2>1. [call |-> k, at |-> "sent", since |-> ticks]
          \in [call : {"none", "READ", "GETTIME", "GET_PID", "GET_TICKS"},
               at : {"user", "sent", "received", "spin"}, since : Nat]
    BY <1>2, <1>4
  <2>2. client' \in [Client -> [call : {"none", "READ", "GETTIME", "GET_PID", "GET_TICKS"},
                                at : {"user", "sent", "received", "spin"}, since : Nat]]
    BY <1>1, <1>2, <2>1 DEF ClientType
  <2>3. \A c \in Client : client'[c].since <= ticks'
    BY <1>1, <1>2, <1>5 DEF ClientType
  <2> QED
    BY <2>2, <2>3 DEF ClientType
<1> QED
  BY <1>1, <1>3, <1>4, <1>5, <1>6

\* read().
LEMMA CallRead ==
  ASSUME ServersInv, NEW p \in Client, "READ" \in Calls[p], call(p, "READ")
  PROVE  ServersInv'
<1> USE IpcAssumption, HdAssumption, ServersAssumption
<1>1. /\ fault = "none" /\ Ready(p) /\ Protocol /\ KernelInv /\ client[p].at = "user"
      /\ ~FsServes(p) /\ ~SysServes(p)
      /\ UNCHANGED <<disk, irq, hd, fs, misuse, sys, ticks, unix_time>>
      /\ client'[p] = [call |-> "READ", at |-> "sent", since |-> ticks]
      /\ \A c \in Client \ {p} : client'[c] = client[c]
      /\ ClientType'
  BY CallFacts
<1>2. Place(TASK_FS) /\ Place(TASK_HD) /\ \A c \in Client : Place(c)
  BY <1>1, PlaceFacts DEF Places
<1>3. HdProto /\ FsProto /\ SysProto /\ \A c \in Client : ClientProto(c)
  BY <1>1 DEF Protocol
<1>4. KernelInv' /\ SendOutcome(p, TASK_FS, Body("READ", 0))
  <2>1. PICK e \in Proc \ {p} : (\A x : SendsTo(TASK_FS, x) => x = e) /\ \A x : ~SendsTo(e, x)
    <3>1. CASE \A x : ~SendsTo(TASK_FS, x)
      BY <3>1
    <3>2. CASE SendsTo(TASK_FS, TASK_HD)
      <4>1. ~HdServes
        BY <1>2, <1>3, <3>2 DEF HdProto, Place
      <4>2. \A x : ~SendsTo(TASK_HD, x)
        BY <1>1, <4>1, Senders DEF HdServes
      <4> QED
        BY <1>2, <3>2, <4>2 DEF Place
    <3>3. ASSUME NEW c \in Client, SendsTo(TASK_FS, c), fs.at = "receive"
          PROVE  \E e \in Proc \ {p} : (\A x : SendsTo(TASK_FS, x) => x = e) /\ \A x : ~SendsTo(e, x)
      <4>1. FsServes(c) /\ c # p
        BY <1>1, <3>3 DEF FsServes
      <4>2. Owed(c)
        BY <1>3, <4>1 DEF ClientProto
      <4>3. \A x : ~SendsTo(c, x)
        BY <1>2, <1>3, <4>2 DEF ClientProto, Owed, Place
      <4> QED
        BY <1>2, <3>3, <4>1, <4>3 DEF Place
    <3> QED
      BY <1>1, <3>1, <3>2, <3>3, Senders
  <2>2. msg_send(p, TASK_FS, Body("READ", 0)) /\ TASK_FS \in Proc \ {p}
    BY DEF call, server
  <2> QED
    BY <1>1, <2>1, <2>2, SendEffect
<1>5. /\ fault' = "none" /\ has_int_msg' = has_int_msg /\ Place(p)'
      /\ Unmoved(TASK_HD) /\ Unmoved(TASK_SYS) /\ \A q \in Client \ {p} : Unmoved(q)
  BY <1>4, PlaceFactsNext DEF Places, SendOutcome
<1>6. ~SysServes(p)' /\ SysProto' /\ \A c \in Client : SysServes(c)' => SysServes(c)
  BY <1>1, <1>3, <1>5, SameTime, SysFrame, SysServesFrame
<1>7. CASE Unmoved(TASK_FS) /\ SendsTo(p, TASK_FS)' /\ Sent(p, Body("READ", 0))'
  <2>1. FsProto' /\ \A c \in Client : FsServes(c)' => FsServes(c)
    BY <1>1, <1>3, <1>7, FsFrame
  <2>2. ClientProto(p)'
    BY <1>1, <1>5, <1>6, <1>7, <2>1 DEF ClientProto, server
  <2> QED
    BY <1>1, <1>4, <1>5, <1>6, <1>7, <2>1, <2>2, CallSide DEF Bystander
<1>8. CASE /\ WaitsOn(TASK_FS, ANY) \/ WaitsOn(TASK_FS, p)
           /\ Ready(p)' /\ Ready(TASK_FS)'
           /\ msg'[TASK_FS] = [source |-> p, type |-> Body("READ", 0)]
  <2>1. fs.at = "got" /\ ~HdServes
    BY <1>2, <1>3, <1>8 DEF FsProto, HdProto, Place
  <2>2. FsProto' /\ \A c \in Client \ {p} : ~FsServes(c)'
    BY <1>1, <1>3, <1>8, <2>1 DEF FsProto, FsServes
  <2>3. ClientProto(p)'
    BY <1>1, <1>6, <1>8 DEF ClientProto, Owed
  <2> QED
    BY <1>1, <1>4, <1>5, <1>6, <2>1, <2>2, <2>3, CallSide DEF Bystander
<1> QED
  BY <1>4, <1>7, <1>8 DEF SendOutcome, Sent

\* time(), getpid() and get_ticks2().
LEMMA CallSys ==
  ASSUME ServersInv, NEW p \in Client, NEW k \in Calls[p], k # "READ", call(p, k)
  PROVE  ServersInv'
<1> USE IpcAssumption, HdAssumption, ServersAssumption
<1>1. /\ fault = "none" /\ Ready(p) /\ Protocol /\ KernelInv /\ client[p].at = "user"
      /\ ~FsServes(p) /\ ~SysServes(p)
      /\ UNCHANGED <<disk, irq, hd, fs, misuse, sys, ticks, unix_time>>
      /\ client'[p] = [call |-> k, at |-> "sent", since |-> ticks]
      /\ \A c \in Client \ {p} : client'[c] = client[c]
      /\ ClientType' /\ k # "none"
  BY CallFacts
<1>2. Place(TASK_SYS) /\ \A c \in Client : Place(c)
  BY <1>1, PlaceFacts DEF Places
<1>3. FsProto /\ SysProto /\ \A c \in Client : ClientProto(c)
  BY <1>1 DEF Protocol
<1>4. KernelInv' /\ SendOutcome(p, TASK_SYS, Body(k, 0))
  <2>1. PICK e \in Proc \ {p} : (\A x : SendsTo(TASK_SYS, x) => x = e) /\ \A x : ~SendsTo(e, x)
    <3>1. CASE \A x : ~SendsTo(TASK_SYS, x)
      BY <3>1
    <3>2. ASSUME NEW c \in Client, SendsTo(TASK_SYS, c), sys = "receive"
          PROVE  \E e \in Proc \ {p} : (\A x : SendsTo(TASK_SYS, x) => x = e) /\ \A x : ~SendsTo(e, x)
      <4>1. SysServes(c) /\ c # p
        BY <1>1, <3>2 DEF SysServes
      <4>2. Owed(c)
        BY <1>3, <4>1 DEF ClientProto
      <4>3. \A x : ~SendsTo(c, x)
        BY <1>2, <1>3, <4>2 DEF ClientProto, Owed, Place
      <4> QED
        BY <1>2, <3>2, <4>1, <4>3 DEF Place
    <3> QED
      BY <1>1, <3>1, <3>2, Senders
  <2>2. msg_send(p, TASK_SYS, Body(k, 0)) /\ TASK_SYS \in Proc \ {p}
    BY DEF call, server
  <2> QED
    BY <1>1, <2>1, <2>2, SendEffect
<1>5. /\ fault' = "none" /\ has_int_msg' = has_int_msg /\ Place(p)'
      /\ Unmoved(TASK_HD) /\ Unmoved(TASK_FS) /\ \A q \in Client \ {p} : Unmoved(q)
  BY <1>4, PlaceFactsNext DEF Places, SendOutcome
<1>6. ~FsServes(p)' /\ FsProto' /\ \A c \in Client : FsServes(c)' => FsServes(c)
  BY <1>1, <1>3, <1>5, FsFrame
<1>7. CASE Unmoved(TASK_SYS) /\ SendsTo(p, TASK_SYS)' /\ Sent(p, Body(k, 0))'
  <2>1. SysProto' /\ \A c \in Client : SysServes(c)' => SysServes(c)
    BY <1>1, <1>3, <1>7, SameTime, SysFrame, SysServesFrame
  <2>2. ClientProto(p)'
    BY <1>1, <1>5, <1>6, <1>7, <2>1 DEF ClientProto, server
  <2> QED
    BY <1>1, <1>4, <1>5, <1>6, <1>7, <2>1, <2>2, CallSide DEF Bystander
<1>8. CASE /\ WaitsOn(TASK_SYS, ANY) \/ WaitsOn(TASK_SYS, p)
           /\ Ready(p)' /\ Ready(TASK_SYS)'
           /\ msg'[TASK_SYS] = [source |-> p, type |-> Body(k, 0)]
  <2>1. sys = "got"
    BY <1>2, <1>3, <1>8 DEF SysProto, Place
  <2>2. SysProto' /\ \A c \in Client \ {p} : ~SysServes(c)'
    <3>1. Asked(p)' /\ msg'[TASK_SYS].source = p
      BY <1>1, <1>8 DEF Asked
    <3> QED
      BY <1>1, <1>8, <2>1, <3>1 DEF SysProto, SysServes
  <2>3. ClientProto(p)'
    BY <1>1, <1>6, <1>8 DEF ClientProto, Owed
  <2> QED
    BY <1>1, <1>4, <1>5, <1>6, <2>2, <2>3, CallSide DEF Bystander
<1> QED
  BY <1>4, <1>7, <1>8 DEF SendOutcome, Sent

\* The second half of the call.
LEMMA Await ==
  ASSUME ServersInv, NEW p \in Client, await(p)
  PROVE  ServersInv'
<1> USE IpcAssumption, HdAssumption, ServersAssumption
<1>1. /\ fault = "none" /\ Ready(p) /\ Protocol /\ KernelInv /\ client[p].at = "sent"
      /\ UNCHANGED <<disk, irq, hd, fs, misuse, sys, ticks, unix_time>>
      /\ client' = [client EXCEPT ![p].at = "received"]
  BY DEF await, runs, Ready, ServersInv
<1>2. FsProto /\ SysProto /\ ClientType /\ \A c \in Client : ClientProto(c) /\ Place(c)
  BY <1>1, PlaceFacts DEF Protocol, Places
<1>3. /\ client'[p].at = "received" /\ client'[p].call = client[p].call
      /\ client'[p].since = client[p].since /\ client[p].call # "none"
      /\ \A c \in Client \ {p} : client'[c] = client[c]
  BY <1>1, <1>2 DEF ClientType, ClientProto
<1>4. ClientType'
  <2>1. PICK a \in {"user", "sent", "received", "spin"} : a = "received"
    OBVIOUS
  <2>2. [client[p] EXCEPT !.at = a]
          \in [call : {"none", "READ", "GETTIME", "GET_PID", "GET_TICKS"},
               at : {"user", "sent", "received", "spin"}, since : Nat]
    BY <1>2 DEF ClientType
  <2>3. client' \in [Client -> [call : {"none", "READ", "GETTIME", "GET_PID", "GET_TICKS"},
                                at : {"user", "sent", "received", "spin"}, since : Nat]]
    BY <1>1, <1>2, <2>1, <2>2 DEF ClientType
  <2>4. \A c \in Client : client'[c].since <= ticks'
    BY <1>1, <1>2, <1>3 DEF ClientType
  <2> QED
    BY <2>3, <2>4 DEF ClientType
<1>5. PICK s \in {TASK_FS, TASK_SYS} : s = server(client[p].call)
  BY DEF server
<1>6. KernelInv' /\ RecvOutcome(p, s)
  <2>1. msg_recevie(p, s) /\ s \in Proc \ {p} /\ p # TASK_HD
    BY <1>5 DEF await
  <2>2. has_int_msg[p] = 0
    BY <1>1, <2>1 DEF Protocol, KernelInv, KernelTypeOK
  <2> QED
    BY <1>1, <2>1, <2>2, RecvEffect
<1>7. Place(p)' /\ Place(TASK_FS)' /\ Place(TASK_SYS)' /\ Place(TASK_FS) /\ s \notin {ANY, INTERRUPT}
  BY <1>1, <1>6, PlaceFacts, PlaceFactsNext DEF Places
<1>8. /\ fault' = "none" /\ has_int_msg' = has_int_msg /\ Unmoved(TASK_HD)
      /\ \A q \in Client \ {p} : Unmoved(q)
      /\ \/ /\ SendsTo(s, p) /\ Ready(p)' /\ Ready(s)' /\ msg'[p] = msg[s]
            /\ \A r \in Proc \ {p, s} : Unmoved(r)
         \/ WaitsOn(p, s)' /\ \A r \in Proc \ {p} : Unmoved(r)
  BY <1>6, <1>7 DEF RecvOutcome
<1>9. CASE WaitsOn(p, s)' /\ \A r \in Proc \ {p} : Unmoved(r)
  <2>1. Unmoved(TASK_FS) /\ Unmoved(TASK_SYS)
    BY <1>9
  <2>2. FsProto' /\ \A c \in Client : FsServes(c)' => FsServes(c)
    BY <1>1, <1>2, <2>1, FsFrame
  <2>3. SysProto' /\ \A c \in Client : SysServes(c)' => SysServes(c)
    BY <1>1, <1>2, <1>3, <2>1, SameTime, SysFrame, SysServesFrame
  <2>4. ClientProto(p)'
    BY <1>2, <1>3, <1>5, <1>7, <1>9, <2>2, <2>3 DEF ClientProto, Owed, Place, server
  <2> QED
    BY <1>1, <1>3, <1>4, <1>6, <1>8, <2>1, <2>2, <2>3, <2>4, CallSide DEF Bystander
<1>10. CASE /\ SendsTo(s, p) /\ Ready(p)' /\ Ready(s)' /\ msg'[p] = msg[s]
            /\ \A r \in Proc \ {p, s} : Unmoved(r)
  <2>1. CASE s = TASK_FS
    <3>1. client[p].call = "READ" /\ Unmoved(TASK_SYS)
      BY <1>5, <1>10, <2>1 DEF server
    <3>2. fs.at = "receive" /\ ~HdServes
      <4>1. fs.at = "receive"
        BY <1>1, <1>10, <2>1, Senders
      <4> QED
        BY <1>1, <1>7, <1>10, <2>1, <4>1 DEF Protocol, HdProto, Place
    <3>3. FsProto' /\ \A c \in Client : ~FsServes(c)'
      BY <1>1, <1>2, <1>7, <1>10, <2>1, <3>2 DEF FsProto, FsServes, Place
    <3>4. SysProto' /\ \A c \in Client : SysServes(c)' => SysServes(c)
      BY <1>1, <1>2, <1>3, <3>1, SameTime, SysFrame, SysServesFrame
    <3>5. Fresh(p, msg[p].type)' /\ ~SysServes(p)'
      BY <1>2, <1>3, <3>1, <3>4 DEF Fresh, TrueFor, ClientProto
    <3>6. ClientProto(p)'
      BY <1>3, <1>10, <3>3, <3>5 DEF ClientProto
    <3> QED
      BY <1>1, <1>3, <1>4, <1>6, <1>8, <3>2, <3>3, <3>4, <3>6, CallSide DEF Bystander
  <2>2. CASE s = TASK_SYS
    <3>1. client[p].call # "READ" /\ Unmoved(TASK_FS)
      BY <1>5, <1>10, <2>2 DEF server
    <3>2. sys = "receive" /\ Fresh(p, msg[TASK_SYS].type)
      BY <1>1, <1>10, <2>2, Senders
    <3>3. FsProto' /\ \A c \in Client : FsServes(c)' => FsServes(c)
      BY <1>1, <1>2, <3>1, FsFrame
    <3>4. SysProto' /\ \A c \in Client : ~SysServes(c)'
      BY <1>1, <1>2, <1>7, <1>10, <2>2, <3>2 DEF SysProto, SysServes, Place
    <3>5. Fresh(p, msg[p].type)' /\ ~FsServes(p)'
      <4>1. ~FsServes(p)'
        BY <1>2, <3>1, <3>3 DEF ClientProto
      <4>2. TrueFor(p, client[p], msg[TASK_SYS].type.val, ticks, unix_time)
        BY <3>2 DEF Fresh
      <4>3. TrueFor(p, client'[p], msg'[p].type.val, ticks', unix_time')
        BY <1>1, <1>3, <1>10, <2>2, <4>2 DEF TrueFor
      <4> QED
        BY <4>1, <4>3 DEF Fresh
    <3>6. ClientProto(p)'
      BY <1>3, <1>10, <3>4, <3>5 DEF ClientProto
    <3> QED
      BY <1>1, <1>3, <1>4, <1>6, <1>8, <3>1, <3>3, <3>4, <3>6, CallSide DEF Bystander
  <2> QED
    BY <2>1, <2>2
<1> QED
  BY <1>8, <1>9, <1>10

\* The call returns.
LEMMA Return ==
  ASSUME ServersInv, NEW p \in Client, return(p)
  PROVE  ServersInv'
<1> USE IpcAssumption, HdAssumption, ServersAssumption
<1>1. /\ fault = "none" /\ Ready(p) /\ Protocol /\ KernelInv /\ client[p].at = "received"
      /\ UNCHANGED <<p_flags, p_msg, p_recvfrom, p_sendto, has_int_msg, q_sending, fault>>
      /\ UNCHANGED <<disk, irq, hd, fs, misuse, sys, ticks, unix_time>>
      /\ msg' = [msg EXCEPT ![p] = [source |-> p, type |-> UNSET]]
  BY DEF return, runs, Ready, ServersInv
<1>2. FsProto /\ SysProto /\ ClientType /\ ClientProto(p)
  BY <1>1 DEF Protocol
<1>3. PICK k : /\ client' = [client EXCEPT ![p] = k]
               /\ k \in [call : {"none", "READ", "GETTIME", "GET_PID", "GET_TICKS"},
                         at : {"user", "spin"}, since : Nat]
               /\ k.since <= client[p].since
  <2>1. client[p] \in [call : {"none", "READ", "GETTIME", "GET_PID", "GET_TICKS"},
                       at : {"user", "sent", "received", "spin"}, since : Nat]
    BY <1>2 DEF ClientType
  <2>2. CASE accepted(client[p].call, msg[p].type)
    <3>1. client' = [client EXCEPT ![p] = Idle]
      BY <2>2 DEF return
    <3>2. PICK z \in Nat : z = 0
      OBVIOUS
    <3>3. Idle = [call |-> "none", at |-> "user", since |-> z]
      BY <3>2 DEF Idle
    <3>4. /\ Idle \in [call : {"none", "READ", "GETTIME", "GET_PID", "GET_TICKS"},
                       at : {"user", "spin"}, since : Nat]
          /\ Idle.since <= client[p].since
      BY <2>1, <3>2, <3>3
    <3> QED
      BY <3>1, <3>4
  <2>3. CASE ~accepted(client[p].call, msg[p].type)
    <3>1. client' = [client EXCEPT ![p] = [client[p] EXCEPT !.at = "spin"]]
      BY <2>3 DEF return
    <3>2. PICK k : k = [client[p] EXCEPT !.at = "spin"]
      OBVIOUS
    <3>3. k = [call |-> client[p].call, at |-> "spin", since |-> client[p].since]
      BY <2>1, <3>2
    <3>4. /\ k \in [call : {"none", "READ", "GETTIME", "GET_PID", "GET_TICKS"},
                    at : {"user", "spin"}, since : Nat]
          /\ k.since <= client[p].since
      BY <2>1, <3>3
    <3> QED
      BY <3>1, <3>2, <3>4
  <2> QED
    BY <2>2, <2>3
<1>4. /\ client'[p].at \in {"user", "spin"}
      /\ \A c \in Client \ {p} : client'[c] = client[c]
  BY <1>2, <1>3 DEF ClientType
<1>5. ClientType'
  <2>1. k \in [call : {"none", "READ", "GETTIME", "GET_PID", "GET_TICKS"},
               at : {"user", "sent", "received", "spin"}, since : Nat]
    BY <1>3
  <2>2. client' \in [Client -> [call : {"none", "READ", "GETTIME", "GET_PID", "GET_TICKS"},
                                at : {"user", "sent", "received", "spin"}, since : Nat]]
    BY <1>2, <1>3, <2>1 DEF ClientType
  <2>3. client'[p] = k
    BY <1>2, <1>3 DEF ClientType
  <2>4. /\ client[p].since \in Nat /\ client[p].since <= ticks
        /\ ticks \in Nat /\ k.since \in Nat
    BY <1>2, <1>3 DEF ClientType, ServersInv, ClockInv
  <2>5. k.since <= ticks
    BY <1>3, <2>4
  <2>6. \A c \in Client : client'[c].since <= ticks'
    BY <1>1, <1>2, <1>4, <2>3, <2>5 DEF ClientType
  <2> QED
    BY <2>2, <2>6 DEF ClientType
<1>6. ~FsServes(p) /\ ~SysServes(p)
  BY <1>1, <1>2 DEF ClientProto, Owed
<1>7. msg = [q \in Proc |-> msg[q]]
  BY <1>1 DEF KernelInv, KernelTypeOK, Buffers
<1>8. KernelInv'
  <2>1. Buffers' /\ fault' = "none"
    BY <1>1, <1>7 DEF Buffers
  <2> QED
    BY <1>1, <2>1, KernelFrame
<1>9. (\A r \in Proc \ {p} : Unmoved(r)) /\ Ready(p)'
  BY <1>1, <1>7, UnmovedFacts DEF Ready
<1>10. Unmoved(TASK_HD) /\ Unmoved(TASK_FS) /\ Unmoved(TASK_SYS) /\ \A c \in Client \ {p} : Unmoved(c)
  BY <1>9
<1>11. FsProto' /\ \A c \in Client : FsServes(c)' => FsServes(c)
  BY <1>1, <1>2, <1>10, FsFrame
<1>12. SysProto' /\ \A c \in Client : SysServes(c)' => SysServes(c)
  BY <1>1, <1>2, <1>4, <1>6, <1>10, SameTime, SysFrame, SysServesFrame
<1>13. ClientProto(p)'
  BY <1>4, <1>6, <1>9, <1>11, <1>12 DEF ClientProto
<1> QED
  BY <1>1, <1>4, <1>5, <1>8, <1>10, <1>11, <1>12, <1>13, CallSide DEF Bystander

\* The clock interrupt.
LEMMA Tick ==
  ASSUME ServersInv, tick
  PROVE  ServersInv'
<1> USE IpcAssumption, HdAssumption, ServersAssumption
<1>1. /\ fault = "none" /\ Protocol /\ KernelInv /\ ClockInv /\ ticks' = ticks + 1
      /\ unix_time' = (IF ticks' % HZ = 0 THEN unix_time + 1 ELSE unix_time)
      /\ UNCHANGED <<ipcVars, disk, irq, hd, fs, misuse, sys, client>>
  BY DEF tick, hdVars, ServersInv
<1>2. /\ ClockInv' /\ ticks <= ticks' /\ unix_time <= unix_time'
      /\ unix_time \in Nat /\ unix_time' \in Nat
  <2>1. ticks \in Nat /\ unix_time = ticks \div HZ
    BY <1>1 DEF ClockInv
  <2>2. ticks \div HZ \in Nat
    BY <2>1, DivFacts
  <2>3. unix_time' = ticks' \div HZ
    BY <1>1, <2>1, SecondFacts
  <2>4. unix_time \in Nat /\ unix_time' \in Nat /\ unix_time <= unix_time'
    BY <1>1, <2>1, <2>2
  <2> QED
    BY <1>1, <2>1, <2>3, <2>4 DEF ClockInv
<1>3. KernelInv' /\ fault' = "none" /\ has_int_msg' = has_int_msg /\ \A r : Unmoved(r)
  BY <1>1, Still DEF ipcVars
<1>4. DiskType' /\ DiskInv' /\ HdProto'
  BY <1>1, <1>3, DiskFrame, HdFrame DEF Protocol, DiskType, Unmoved
<1>5. FsProto' /\ \A c \in Client : FsServes(c)' => FsServes(c)
  BY <1>1, <1>3, FsFrame DEF Protocol
<1>6. SysProto' /\ \A c \in Client : SysServes(c)' => SysServes(c)
  BY <1>1, <1>2, <1>3, SysFrame, SysServesFrame DEF Protocol
<1>7. ASSUME NEW c \in Client PROVE ClientProto(c)'
  BY <1>1, <1>2, <1>3, <1>5, <1>6, ClientFrame DEF Protocol
<1>8. ClientType'
  BY <1>1, <1>2 DEF Protocol, ClientType, ClockInv
<1> QED
  BY <1>1, <1>2, <1>3, <1>4, <1>5, <1>6, <1>7, <1>8 DEF ServersInv, Protocol, DiskInv

----------------------------------------------------------------------------
(* The theorems. *)

\* The invariant holds at the start.
LEMMA InitServers == Init => ServersInv
<1> SUFFICES ASSUME Init PROVE ServersInv
  OBVIOUS
<1> USE IpcAssumption, HdAssumption, ServersAssumption
<1>1. KernelInv
  BY KernelInit DEF Init
<1>2. PICK z \in Nat : z = 0
  OBVIOUS
<1>3. /\ disk = [st |-> "idle", left |-> z] /\ irq = FALSE /\ ~misuse
      /\ hd = [at |-> "receive", src |-> NO_TASK, need |-> z, count |-> z, made |-> z]
      /\ fs = [at |-> "start", src |-> NO_TASK] /\ sys = "receive"
      /\ client = [c \in Client |-> [call |-> "none", at |-> "user", since |-> z]]
      /\ ticks = z /\ unix_time = z /\ fault = "none"
      /\ \A p \in Proc : Ready(p) /\ has_int_msg[p] = z
  BY <1>2 DEF Init, HdInit, IpcInit, Idle, Ready
<1>4. Places
  BY <1>1, PlaceFacts
<1>5. DiskType
  BY <1>3 DEF DiskType
<1>6. DiskInv
  BY <1>2, <1>3 DEF DiskInv, DiskQuiet
<1>7. HdProto /\ FsProto /\ SysProto
  BY <1>3, <1>4 DEF HdProto, HdServes, FsProto, SysProto, Places, Place
<1>8. ClientType
  <2>1. [call |-> "none", at |-> "user", since |-> z]
          \in [call : {"none", "READ", "GETTIME", "GET_PID", "GET_TICKS"},
               at : {"user", "sent", "received", "spin"}, since : Nat]
    OBVIOUS
  <2> QED
    BY <1>3, <2>1 DEF ClientType
<1>9. \A c \in Client : ClientProto(c)
  BY <1>3, <1>4 DEF ClientProto, FsServes, SysServes, Places, Place
<1>10. ClockInv
  BY <1>2, <1>3 DEF ClockInv
<1> QED
  BY <1>1, <1>2, <1>3, <1>5, <1>6, <1>7, <1>8, <1>9, <1>10 DEF ServersInv, Protocol

\* No step of the disk, a task, the clock or a process breaks the invariant.
LEMMA NextServers == ServersInv /\ [Next]_vars => ServersInv'
<1> SUFFICES ASSUME ServersInv, [Next]_vars PROVE ServersInv'
  OBVIOUS
<1>1. ASSUME fetch \/ settle \/ hd_handler \/ HdStep \/ hd_timeout \/ FsStep,
             UNCHANGED <<sys, client, ticks, unix_time>>
      PROVE  ServersInv'
  BY <1>1, DiskSteps, HandlerStep, HdOwnSteps, InterruptWait, HdReceive, HdReply, HdTimeout,
     FsOpen, FsAwait, FsReceive, FsDispatch, FsReply DEF HdStep, FsStep
<1>2. ASSUME SysStep PROVE ServersInv'
  BY <1>2, SysReceive, SysAnswer, SysReply DEF SysStep
<1>3. ASSUME NEW p \in Client, NEW k \in Calls[p], call(p, k) PROVE ServersInv'
  <2>1. CASE k = "READ"
    <3>1. call(p, "READ") /\ "READ" \in Calls[p]
      BY <1>3, <2>1
    <3> QED
      BY <3>1, CallRead
  <2>2. CASE k # "READ"
    BY <1>3, <2>2, CallSys
  <2> QED
    BY <2>1, <2>2
<1>4. ASSUME UNCHANGED vars PROVE ServersInv'
  <2>1. UNCHANGED <<ipcVars, disk, irq, hd, fs, misuse, sys, client, ticks, unix_time>>
    BY <1>4 DEF vars, hdVars
  <2>2. CASE fault # "none"
    <3>1. KernelInv'
      BY <2>1, Still DEF ServersInv
    <3> QED
      BY <2>1, <2>2, <3>1 DEF ServersInv, ClockInv, ipcVars
  <2>3. CASE fault = "none"
    <3>1. KernelInv' /\ fault' = "none" /\ has_int_msg' = has_int_msg /\ \A r : Unmoved(r)
      BY <2>1, <2>3, Still DEF ServersInv, ipcVars
    <3>2. DiskType' /\ DiskInv' /\ HdProto'
      BY <2>1, <2>3, <3>1, DiskFrame, HdFrame DEF ServersInv, Protocol, DiskType, Unmoved
    <3> QED
      BY <2>1, <2>3, <3>1, <3>2, DiskAlone
  <2> QED
    BY <2>2, <2>3
<1> QED
  BY <1>1, <1>2, <1>3, <1>4, Tick, Await, Return DEF Next

\* Every reachable state satisfies the inductive invariant.
THEOREM ServersInvariance == Spec => []ServersInv
BY InitServers, NextServers, PTL DEF Spec

\* hd_read_bytes reads no sector before the disk has it, and no command goes out
\* before the last one is read: for requests of any length.
THEOREM DriverInStep == Spec => []InStep
<1>1. ServersInv => InStep
  BY DEF ServersInv, InStep
<1> QED
  BY <1>1, ServersInvariance, PTL

\* interrupt_wait never sleeps for an interrupt that will not come.
THEOREM InterruptComes == Spec => []WakeupComing
<1>1. ServersInv => WakeupComing
  <2> SUFFICES ASSUME ServersInv, fault = "none", hd.at = "read",
                      "RECEIVING" \in p_flags[TASK_HD]
               PROVE  irq \/ (disk.st = "busy" /\ disk.left > 0)
    BY DEF WakeupComing
  <2>1. ~Ready(TASK_HD)
    BY DEF Ready
  <2>2. DiskWorks /\ has_int_msg[TASK_HD] = 0 /\ disk.left \in Nat
    BY <2>1 DEF ServersInv, Protocol, DiskInv, DiskType
  <2> QED
    BY <2>2 DEF DiskWorks
<1> QED
  BY <1>1, ServersInvariance, PTL

\* The timeout of task_hd is the only panic: no assertion of the kernel fails,
\* deadlock() finds no circle and no server gets a message it does not know,
\* with any number of processes.
THEOREM OnlyTimeout == Spec => []OnlyTimeoutPanics
<1>1. ServersInv => OnlyTimeoutPanics
  BY DEF ServersInv, OnlyTimeoutPanics
<1> QED
  BY <1>1, ServersInvariance, PTL

\* get_ticks2(), time() and getpid() return a value that was true for the
\* caller during the call.
THEOREM CallsAreFresh == Spec => []AnswersFresh
<1>1. ServersInv => AnswersFresh
  <2> SUFFICES ASSUME ServersInv, NEW p \in Client, fault = "none", Ready(p),
                      client[p].at = "received"
               PROVE  TrueFor(p, client[p], msg[p].type.val, ticks, unix_time)
    BY DEF AnswersFresh, answered, TrueFor, Ready
  <2>1. Place(p) /\ ClientProto(p)
    BY PlaceFacts, ServersAssumption DEF ServersInv, Protocol, Places
  <2> QED
    BY <2>1 DEF ClientProto, Fresh, Place
<1> QED
  BY <1>1, ServersInvariance, PTL
=============================================================================
