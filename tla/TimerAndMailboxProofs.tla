-------------------------- MODULE TimerAndMailboxProofs --------------------------
(***************************************************************************)
(* Proofs about what a service is given by module-os and module-sys: its   *)
(* timers (SystemTimer) and its mailbox (Mailbox).                         *)
(*                                                                         *)
(* The flag of a timer and the FreeRTOS timer agree once the daemon has    *)
(* caught up, for any set of timers, any length of the daemon's queue and  *)
(* any number of starts, stops, destructions and late expiries.            *)
(*                                                                         *)
(* In a mailbox no wake-up is lost, and it implements the queue of         *)
(* AbstractMailbox, for any number of threads, messages and waits that run *)
(* out.                                                                    *)
(***************************************************************************)
EXTENDS SystemTimer, Mailbox, SequenceTheorems, TLAPS

-----------------------------------------------------------------------------
(***************************************************************************)
(* The parts of the inductive invariant.                                   *)
(***************************************************************************)

\* A start carries the number of the start, which is not 0.
Types ==
    /\ attached \subseteq Timers
    /\ commands \in Seq(Command)
    /\ \A i \in DOMAIN commands : commands[i].op = "start" => commands[i].epoch # 0
    /\ armed \in [Timers -> Nat]
    /\ epoch \in [Timers -> Nat]
    /\ mailbox \in Seq(Expiry)
    /\ running \in Seq(Expiry) /\ Len(running) <= 1

\* The last command for a timer that the daemon has not yet seen, if any.
LastCommand(t, i) ==
    /\ i \in DOMAIN commands
    /\ commands[i].timer = t
    /\ \A j \in DOMAIN commands : j > i => commands[j].timer # t
Settled(t) == \A i \in DOMAIN commands : commands[i].timer # t

\* What FlagMatchesTimer says of a timer; a periodic one goes on running.
Agrees(t) ==
    /\ armed[t] # 0 => t \in active
    /\ t \in active => \/ armed[t] # 0
                       \/ t \notin Periodic /\ OnItsWay(t)

\* The last command on its way says what the flag says: the daemon may be
\* behind, but not on the wrong side.
Attached(t) ==
    /\ \A i : LastCommand(t, i) =>
          \/ commands[i].op = "start" /\ t \in active
          \/ commands[i].op = "stop" /\ t \notin active
    /\ Settled(t) => Agrees(t)

\* The address of a timer that is gone is dormant when its deletion has been
\* carried out, so a new timer begins like the first.
Detached(t) ==
    /\ t \notin active
    /\ \A i : LastCommand(t, i) => commands[i].op = "delete"
    /\ Settled(t) => armed[t] = 0

Flags ==
    \A t \in Timers : /\ t \in attached \ dropped => Attached(t)
                      /\ t \notin attached => Detached(t)

TimerInv == Types /\ Flags

-----------------------------------------------------------------------------
(***************************************************************************)
(* The queue of the daemon.                                                *)
(***************************************************************************)

\* What is sent for one timer goes behind the commands of all.
LEMMA Extend ==
    ASSUME commands \in Seq(Command), NEW k \in Seq(Command), NEW t,
           \A i \in DOMAIN k : k[i].timer = t, commands' = commands \o k
    PROVE  /\ commands' \in Seq(Command)
           /\ \A i \in DOMAIN commands' :
                 \/ i \in DOMAIN commands /\ commands'[i] = commands[i]
                 \/ \E j \in DOMAIN k : commands'[i] = k[j]
           /\ \A u : u # t =>
                 /\ Settled(u)' => Settled(u)
                 /\ \A i : LastCommand(u, i)' => LastCommand(u, i) /\ commands'[i] = commands[i]
           /\ k # <<>> => /\ ~Settled(t)'
                          /\ \A i : LastCommand(t, i)' => commands'[i] = k[Len(k)]
<1>1. PICK n, l : n = Len(commands) /\ l = Len(k)
      OBVIOUS
<1>2. /\ n \in Nat /\ l \in Nat
      /\ DOMAIN commands = 1 .. n /\ DOMAIN k = 1 .. l
      BY <1>1
<1>3. /\ commands' \in Seq(Command)
      /\ DOMAIN commands' = 1 .. (n + l)
      /\ \A i \in 1 .. (n + l) : commands'[i] = IF i <= n THEN commands[i] ELSE k[i - n]
      BY <1>1, <1>2, ConcatProperties, LenProperties
<1>4. \A i \in 1 .. (n + l) : i <= n => i \in 1 .. n /\ commands'[i] = commands[i]
      BY <1>2, <1>3
<1>5. \A i \in 1 .. (n + l) : ~(i <= n) => i - n \in 1 .. l /\ commands'[i] = k[i - n]
      BY <1>2, <1>3
<1>6. \A i \in 1 .. n : i \in 1 .. (n + l) /\ i <= n
      BY <1>2
<1>7. \A i \in DOMAIN commands' :
          \/ i \in DOMAIN commands /\ commands'[i] = commands[i]
          \/ \E j \in DOMAIN k : commands'[i] = k[j]
      BY <1>2, <1>3, <1>4, <1>5
<1>8. ASSUME NEW u, u # t
      PROVE  /\ Settled(u)' => Settled(u)
             /\ \A i : LastCommand(u, i)' => LastCommand(u, i) /\ commands'[i] = commands[i]
    <2>1. \A i \in DOMAIN commands' : commands'[i].timer = u =>
              i \in DOMAIN commands /\ commands'[i] = commands[i]
          BY <1>7, <1>8
    <2>2. \A i \in DOMAIN commands : i \in DOMAIN commands' /\ commands'[i] = commands[i]
          BY <1>2, <1>3, <1>4, <1>6
    <2> QED
        BY <2>1, <2>2 DEF Settled, LastCommand
<1>9. ASSUME k # <<>>
      PROVE  ~Settled(t)' /\ \A i : LastCommand(t, i)' => commands'[i] = k[Len(k)]
    <2>1. l > 0
          BY <1>1, <1>2, <1>9
    <2>2. n + l \in 1 .. (n + l) /\ ~(n + l <= n) /\ (n + l) - n = l /\ l \in 1 .. l
          BY <1>2, <2>1
    <2>3. commands'[n + l] = k[l] /\ k[l].timer = t
          BY <1>2, <1>5, <2>2
    <2>4. ~Settled(t)'
          BY <1>3, <2>2, <2>3 DEF Settled
    <2>5. ASSUME NEW i, LastCommand(t, i)' PROVE i = n + l
        <3>1. i \in 1 .. (n + l) /\ ~(n + l > i)
              BY <1>3, <2>2, <2>3, <2>5 DEF LastCommand
        <3> QED
            BY <1>2, <3>1
    <2> QED
        BY <1>1, <2>3, <2>4, <2>5
<1> QED
    BY <1>3, <1>7, <1>8, <1>9

\* xTimerStart and xTimerStop: what is not lost is behind the others.
LEMMA SendFacts ==
    ASSUME commands \in Seq(Command), NEW cmds \in Seq(Command), NEW t, cmds # <<>>,
           \A i \in DOMAIN cmds : cmds[i].timer = t, SendCommands(t, cmds)
    PROVE  /\ commands' \in Seq(Command)
           /\ \A i \in DOMAIN commands' :
                 \/ i \in DOMAIN commands /\ commands'[i] = commands[i]
                 \/ \E j \in DOMAIN cmds : commands'[i] = cmds[j]
           /\ \A u : u # t =>
                 /\ Settled(u)' => Settled(u)
                 /\ \A i : LastCommand(u, i)' => LastCommand(u, i) /\ commands'[i] = commands[i]
                 /\ u \in dropped' <=> u \in dropped
           /\ t \notin dropped' => /\ ~Settled(t)'
                                   /\ \A i : LastCommand(t, i)' => commands'[i] = cmds[Len(cmds)]
<1>1. PICK fit \in Int : /\ fit <= Len(cmds)
                         /\ commands' = commands \o SubSeq(cmds, 1, fit)
                         /\ dropped' = IF fit < Len(cmds) THEN dropped \cup {t} ELSE dropped
    <2>1. Len(commands) \in Nat /\ Len(cmds) \in Nat /\ TimerQueueLength \in Nat
          BY SystemTimerAssumption
    <2> DEFINE room == TimerQueueLength - Len(commands)
               f == IF Len(cmds) <= room THEN Len(cmds) ELSE room
    <2>2. f \in Int /\ f <= Len(cmds)
          BY <2>1
    <2>3. /\ commands' = commands \o SubSeq(cmds, 1, f)
          /\ dropped' = IF f < Len(cmds) THEN dropped \cup {t} ELSE dropped
          BY DEF SendCommands
    <2> HIDE DEF f
    <2> QED
        BY <2>2, <2>3
<1>2. Len(cmds) \in Nat /\ DOMAIN cmds = 1 .. Len(cmds)
      OBVIOUS
<1> DEFINE k == SubSeq(cmds, 1, fit)
<1>3. /\ k \in Seq(Command)
      /\ Len(k) = IF 1 <= fit THEN fit ELSE 0
      /\ \A i \in 1 .. fit : k[i] = cmds[i]
    <2>1. \A i \in 1 .. fit : cmds[i] \in Command
          BY <1>1, <1>2
    <2>2. /\ k \in Seq(Command)
          /\ Len(k) = IF 1 <= fit THEN fit - 1 + 1 ELSE 0
          /\ \A i \in 1 .. fit - 1 + 1 : k[i] = cmds[1 + i - 1]
          BY <2>1, SubSeqProperties
    <2> HIDE DEF k
    <2>3. fit - 1 + 1 = fit /\ \A i \in Int : 1 + i - 1 = i
          OBVIOUS
    <2>4. \A i \in 1 .. fit : k[i] = cmds[i]
          BY <2>2, <2>3
    <2> QED
        BY <2>2, <2>3, <2>4
<1>4. \A i \in DOMAIN k : i \in DOMAIN cmds /\ k[i] = cmds[i]
    <2> HIDE DEF k
    <2> QED
        BY <1>1, <1>2, <1>3
<1>5. \A i \in DOMAIN k : k[i].timer = t
      BY <1>4
<1>6. commands' = commands \o k
      BY <1>1
<1> HIDE DEF k
<1>7. /\ commands' \in Seq(Command)
      /\ \A i \in DOMAIN commands' :
            \/ i \in DOMAIN commands /\ commands'[i] = commands[i]
            \/ \E j \in DOMAIN k : commands'[i] = k[j]
      /\ \A u : u # t =>
            /\ Settled(u)' => Settled(u)
            /\ \A i : LastCommand(u, i)' => LastCommand(u, i) /\ commands'[i] = commands[i]
      /\ k # <<>> => /\ ~Settled(t)'
                     /\ \A i : LastCommand(t, i)' => commands'[i] = k[Len(k)]
      BY <1>3, <1>5, <1>6, Extend
<1>8. \A u : u # t => (u \in dropped' <=> u \in dropped)
      BY <1>1
<1>9. ASSUME t \notin dropped' PROVE k # <<>> /\ k[Len(k)] = cmds[Len(cmds)]
    <2>0. ~(fit < Len(cmds))
          BY <1>1, <1>9, Zenon
    <2>n. \A a, b \in Int : a <= b /\ ~(a < b) => a = b
          OBVIOUS
    <2>1. fit = Len(cmds)
        <3>1. fit \in Int /\ Len(cmds) \in Int /\ fit <= Len(cmds)
              BY <1>1, <1>2
        <3> QED
            BY <2>0, <2>n, <3>1, Zenon
    <2>2. 1 <= fit
          BY <1>2, <2>1
    <2>3. Len(k) = fit /\ fit \in 1 .. fit
          BY <1>3, <2>2
    <2> QED
        BY <1>3, <2>1, <2>2, <2>3
<1>10. \A i \in DOMAIN commands' :
          \/ i \in DOMAIN commands /\ commands'[i] = commands[i]
          \/ \E j \in DOMAIN cmds : commands'[i] = cmds[j]
      BY <1>4, <1>7
<1> QED
    BY <1>7, <1>8, <1>9, <1>10

\* start and restart: the last command is the start, and it has a number.
LEMMA LaunchCommands ==
    ASSUME Types, NEW t \in Timers,
           NEW start, NEW c, c = Cmd("start", t, epoch[t] + 1), start \in {<<c>>, <<c, c>>}
    PROVE  LET cmds == StopIfActive(t) \o start
           IN  /\ cmds \in Seq(Command) /\ cmds # <<>>
               /\ \A i \in DOMAIN cmds :
                     cmds[i].timer = t /\ (cmds[i].op = "start" => cmds[i].epoch # 0)
               /\ cmds[Len(cmds)].op = "start"
<1> DEFINE s == Cmd("stop", t, 0)
<1>1. epoch[t] + 1 \in Nat /\ epoch[t] + 1 # 0
      BY DEF Types
<1>2. /\ c \in Command /\ c.timer = t /\ c.op = "start" /\ c.epoch # 0
      /\ s \in Command /\ s.timer = t /\ s.op = "stop"
      BY <1>1 DEF Cmd, Command
<1>3. StopIfActive(t) \in {<<s>>, <<>>}
      BY DEF StopIfActive
<1> HIDE DEF s
<1>4. PICK p : p = StopIfActive(t)
      OBVIOUS
<1>5. /\ p \in Seq(Command) /\ Len(p) \in Nat
      /\ \A i \in 1 .. Len(p) : p[i] = s
    <2>1. CASE p = <<s>>
          BY <1>2, <2>1
    <2>2. CASE p = <<>>
          BY <2>2
    <2> QED
        BY <1>3, <1>4, <2>1, <2>2
<1>6. /\ start \in Seq(Command) /\ Len(start) \in Nat /\ Len(start) > 0
      /\ \A i \in 1 .. Len(start) : start[i] = c
    <2>1. CASE start = <<c>>
          BY <1>2, <2>1
    <2>2. CASE start = <<c, c>>
          BY <1>2, <2>2
    <2> QED
        BY <2>1, <2>2
<1>7. PICK cmds : cmds = p \o start
      OBVIOUS
<1>8. /\ cmds \in Seq(Command) /\ Len(cmds) = Len(p) + Len(start)
      /\ DOMAIN cmds = 1 .. Len(cmds)
      /\ \A i \in 1 .. Len(p) + Len(start) :
            cmds[i] = IF i <= Len(p) THEN p[i] ELSE start[i - Len(p)]
      BY <1>5, <1>6, <1>7, ConcatProperties, LenProperties
<1>9. \A i \in 1 .. Len(p) + Len(start) :
          cmds[i] = IF i <= Len(p) THEN s ELSE c
    <2> SUFFICES ASSUME NEW i \in 1 .. Len(p) + Len(start)
                 PROVE  cmds[i] = IF i <= Len(p) THEN s ELSE c
        OBVIOUS
    <2>1. CASE i <= Len(p)
        <3>1. i \in 1 .. Len(p)
              BY <1>5, <1>6, <2>1
        <3> QED
            BY <1>5, <1>8, <2>1, <3>1
    <2>2. CASE ~(i <= Len(p))
        <3>1. i - Len(p) \in 1 .. Len(start)
              BY <1>5, <1>6, <2>2
        <3> QED
            BY <1>6, <1>8, <2>2, <3>1
    <2> QED
        BY <2>1, <2>2
<1>10. /\ Len(cmds) \in 1 .. Len(p) + Len(start) /\ ~(Len(cmds) <= Len(p))
       /\ cmds # <<>>
      BY <1>5, <1>6, <1>8
<1>11. cmds[Len(cmds)] = c
      BY <1>9, <1>10
<1>12. \A i \in DOMAIN cmds :
          cmds[i].timer = t /\ (cmds[i].op = "start" => cmds[i].epoch # 0)
      BY <1>2, <1>8, <1>9
<1> QED
    BY <1>2, <1>4, <1>7, <1>8, <1>10, <1>11, <1>12

\* A single stop or deletion.
LEMMA OneCommand ==
    ASSUME NEW t \in Timers, NEW op \in {"stop", "delete"},
           NEW k, k = <<Cmd(op, t, 0)>>
    PROVE  /\ k \in Seq(Command) /\ k # <<>>
           /\ \A i \in DOMAIN k : k[i].timer = t /\ k[i].op = op
           /\ k[Len(k)].op = op
<1>1. PICK c : c = Cmd(op, t, 0)
      OBVIOUS
<1>2. c \in Command /\ c.timer = t /\ c.op = op
      BY <1>1 DEF Cmd, Command
<1>3. /\ k \in Seq(Command) /\ k # <<>> /\ Len(k) = 1
      /\ \A i \in DOMAIN k : k[i] = c
      /\ k[1] = c
      BY <1>1, <1>2
<1> QED
    BY <1>2, <1>3

\* The daemon takes the first command.
LEMMA TakeFacts ==
    ASSUME commands \in Seq(Command), commands # <<>>, commands' = Tail(commands)
    PROVE  /\ Head(commands) = commands[1] /\ 1 \in DOMAIN commands /\ commands[1] \in Command
           /\ commands' \in Seq(Command)
           /\ \A i \in DOMAIN commands' :
                 i + 1 \in DOMAIN commands /\ commands'[i] = commands[i + 1]
           /\ \A u : \A i : LastCommand(u, i)' =>
                 LastCommand(u, i + 1) /\ commands'[i] = commands[i + 1]
           /\ \A u : Settled(u)' => Settled(u) \/ LastCommand(u, 1)
           /\ \A u : u # commands[1].timer /\ Settled(u)' => Settled(u)
<1>1. /\ Head(commands) = commands[1] /\ 1 \in DOMAIN commands /\ commands[1] \in Command
      /\ commands' \in Seq(Command)
      /\ DOMAIN commands = 1 .. Len(commands) /\ Len(commands) \in Nat
      /\ DOMAIN commands' = 1 .. (Len(commands) - 1)
      /\ \A i \in DOMAIN commands' :
            i \in Nat /\ i + 1 \in DOMAIN commands /\ commands'[i] = commands[i + 1]
      OBVIOUS
<1>2. \A j \in DOMAIN commands : j # 1 =>
          /\ j - 1 \in DOMAIN commands' /\ commands'[j - 1] = commands[j]
          /\ \A i \in DOMAIN commands' : j > i + 1 => j - 1 > i
    <2> SUFFICES ASSUME NEW j \in DOMAIN commands, j # 1
                 PROVE  /\ j - 1 \in DOMAIN commands' /\ commands'[j - 1] = commands[j]
                        /\ \A i \in DOMAIN commands' : j > i + 1 => j - 1 > i
        OBVIOUS
    <2>1. j \in Nat /\ j - 1 \in 1 .. (Len(commands) - 1) /\ (j - 1) + 1 = j
          BY <1>1
    <2>2. \A i \in DOMAIN commands' : j > i + 1 => j - 1 > i
          BY <1>1, <2>1
    <2> QED
        BY <1>1, <2>1, <2>2
<1>3. ASSUME NEW u, NEW i, LastCommand(u, i)'
      PROVE  LastCommand(u, i + 1) /\ commands'[i] = commands[i + 1]
    <2>1. i \in DOMAIN commands' /\ i + 1 \in DOMAIN commands /\ commands'[i] = commands[i + 1]
          BY <1>1, <1>3 DEF LastCommand
    <2>2. \A j \in DOMAIN commands : j > i + 1 => j # 1
          BY <1>1, <2>1
    <2> QED
        BY <1>2, <1>3, <2>1, <2>2 DEF LastCommand
<1>4. \A u : Settled(u)' => \A j \in DOMAIN commands : j # 1 => commands[j].timer # u
      BY <1>2 DEF Settled
<1>5. \A j \in DOMAIN commands : j > 1 => j # 1
      BY <1>1
<1>6. \A u : Settled(u)' => Settled(u) \/ LastCommand(u, 1)
      BY <1>1, <1>4, <1>5 DEF Settled, LastCommand
<1>7. \A u : u # commands[1].timer /\ Settled(u)' => Settled(u)
      BY <1>4 DEF Settled
<1> QED
    BY <1>1, <1>3, <1>6, <1>7

-----------------------------------------------------------------------------
(***************************************************************************)
(* The mailbox and what the daemon is at.                                  *)
(***************************************************************************)

\* The service takes a message: the messages of other timers stay.
LEMMA TakeMessage ==
    ASSUME mailbox \in Seq(Expiry), mailbox # <<>>, mailbox' = Tail(mailbox), running' = running
    PROVE  /\ Head(mailbox) \in Expiry
           /\ mailbox' \in Seq(Expiry)
           /\ \A u : u # Head(mailbox).timer /\ OnItsWay(u) => OnItsWay(u)'
<1>1. /\ Head(mailbox) = mailbox[1] /\ Head(mailbox) \in Expiry
      /\ mailbox' \in Seq(Expiry)
      /\ DOMAIN mailbox = 1 .. Len(mailbox) /\ Len(mailbox) \in Nat
      /\ DOMAIN mailbox' = 1 .. (Len(mailbox) - 1)
      /\ \A i \in DOMAIN mailbox' : i \in Nat /\ mailbox'[i] = mailbox[i + 1]
      OBVIOUS
<1>2. \A j \in DOMAIN mailbox : j # 1 =>
          j - 1 \in DOMAIN mailbox' /\ mailbox'[j - 1] = mailbox[j]
    <2> SUFFICES ASSUME NEW j \in DOMAIN mailbox, j # 1
                 PROVE  j - 1 \in DOMAIN mailbox' /\ mailbox'[j - 1] = mailbox[j]
        OBVIOUS
    <2>1. j \in Nat /\ j - 1 \in 1 .. (Len(mailbox) - 1) /\ (j - 1) + 1 = j
          BY <1>1
    <2> QED
        BY <1>1, <2>1
<1>3. ASSUME NEW u, u # Head(mailbox).timer, NEW m \in Elems(mailbox), m.timer = u
      PROVE  m \in Elems(mailbox)'
    <2>1. PICK j \in DOMAIN mailbox : mailbox[j] = m
          BY DEF Elems
    <2>2. j # 1
          BY <1>1, <1>3, <2>1
    <2> QED
        BY <1>2, <2>1, <2>2 DEF Elems
<1>4. \A u : u # Head(mailbox).timer /\ OnItsWay(u) => OnItsWay(u)'
      BY <1>3 DEF OnItsWay, Idle
<1> QED
    BY <1>1, <1>4

\* Run sends its message: the expiry goes on from the daemon to the mailbox.
LEMMA SendMessage ==
    ASSUME mailbox \in Seq(Expiry), NEW x \in Expiry, mailbox' = Append(mailbox, x)
    PROVE  /\ mailbox' \in Seq(Expiry)
           /\ x \in Elems(mailbox)'
           /\ \A m \in Elems(mailbox) : m \in Elems(mailbox)'
<1>1. /\ mailbox' \in Seq(Expiry)
      /\ DOMAIN mailbox = 1 .. Len(mailbox) /\ Len(mailbox) \in Nat
      /\ DOMAIN mailbox' = 1 .. (Len(mailbox) + 1)
      /\ mailbox'[Len(mailbox) + 1] = x
      /\ \A i \in 1 .. Len(mailbox) : mailbox'[i] = mailbox[i]
      OBVIOUS
<1>2. Len(mailbox) + 1 \in DOMAIN mailbox' /\ \A i \in DOMAIN mailbox : i \in DOMAIN mailbox'
      BY <1>1
<1>3. x \in Elems(mailbox)'
      BY <1>1, <1>2 DEF Elems
<1>4. \A m \in Elems(mailbox) : m \in Elems(mailbox)'
      BY <1>1, <1>2 DEF Elems
<1> QED
    BY <1>1, <1>3, <1>4

-----------------------------------------------------------------------------
(***************************************************************************)
(* A step that leaves a timer alone: its last command is the same, unless  *)
(* the daemon has taken others, its flag and its FreeRTOS timer are, too,  *)
(* and a single-shot expiry is not lost.                                   *)
(***************************************************************************)
LEMMA LeftAlone ==
    ASSUME NEW u,
           Settled(u)' => Settled(u),
           \A i : LastCommand(u, i)' =>
                \E j : LastCommand(u, j) /\ commands'[i] = commands[j],
           armed'[u] = armed[u],
           u \in active' <=> u \in active,
           u \in active /\ u \notin Periodic /\ OnItsWay(u) => OnItsWay(u)'
    PROVE  (Attached(u) => Attached(u)') /\ (Detached(u) => Detached(u)')
<1>1. Agrees(u) => Agrees(u)'
      BY DEF Agrees
<1>2. ASSUME Attached(u) PROVE Attached(u)'
      BY <1>1, <1>2 DEF Attached
<1>3. ASSUME Detached(u) PROVE Detached(u)'
      BY <1>3 DEF Detached
<1> QED
    BY <1>2, <1>3

\* Commands sent for t, and nothing else of the timers changes but the flag
\* of t: every other timer is left alone.
LEMMA OthersAlone ==
    ASSUME NEW t, NEW u, u # t,
           Settled(u)' => Settled(u),
           \A i : LastCommand(u, i)' => LastCommand(u, i) /\ commands'[i] = commands[i],
           armed' = armed,
           u \in active' <=> u \in active,
           OnItsWay(u) => OnItsWay(u)'
    PROVE  (Attached(u) => Attached(u)') /\ (Detached(u) => Detached(u)')
<1>1. \A i : LastCommand(u, i)' =>
          \E j : LastCommand(u, j) /\ commands'[i] = commands[j]
      OBVIOUS
<1> QED
    BY <1>1, LeftAlone

-----------------------------------------------------------------------------
(***************************************************************************)
(* One lemma per operation.                                                *)
(***************************************************************************)

\* Commands for t are on their way and the last of them says what the flag
\* of t says now; this is what start, restart, stop and a single-shot
\* callback have in common.
LEMMA Ordered ==
    ASSUME TimerInv, NEW t \in Timers, NEW cmds \in Seq(Command), cmds # <<>>,
           \A i \in DOMAIN cmds :
                cmds[i].timer = t /\ (cmds[i].op = "start" => cmds[i].epoch # 0),
           \/ cmds[Len(cmds)].op = "start" /\ active' = active \cup {t}
           \/ cmds[Len(cmds)].op = "stop" /\ active' = active \ {t},
           t \in attached,
           SendCommands(t, cmds),
           armed' = armed, attached' = attached, running' = running,
           \A u : u # t /\ OnItsWay(u) => OnItsWay(u)'
    PROVE  /\ commands' \in Seq(Command)
           /\ \A i \in DOMAIN commands' : commands'[i].op = "start" => commands'[i].epoch # 0
           /\ Flags'
<1>1. commands \in Seq(Command)
      BY DEF TimerInv, Types
<1>2. \A i \in DOMAIN cmds : cmds[i].timer = t
      OBVIOUS
<1>3. /\ commands' \in Seq(Command)
      /\ \A i \in DOMAIN commands' :
            \/ i \in DOMAIN commands /\ commands'[i] = commands[i]
            \/ \E j \in DOMAIN cmds : commands'[i] = cmds[j]
      /\ \A u : u # t =>
            /\ Settled(u)' => Settled(u)
            /\ \A i : LastCommand(u, i)' => LastCommand(u, i) /\ commands'[i] = commands[i]
            /\ u \in dropped' <=> u \in dropped
      /\ t \notin dropped' => /\ ~Settled(t)'
                              /\ \A i : LastCommand(t, i)' => commands'[i] = cmds[Len(cmds)]
      BY <1>1, <1>2, SendFacts
<1>4. \A i \in DOMAIN commands' : commands'[i].op = "start" => commands'[i].epoch # 0
      BY <1>3 DEF TimerInv, Types
<1>5. ASSUME NEW u \in Timers, u # t
      PROVE  /\ u \in attached' \ dropped' => Attached(u)'
             /\ u \notin attached' => Detached(u)'
    <2>1. u \in active' <=> u \in active
          BY <1>5
    <2>2. (Attached(u) => Attached(u)') /\ (Detached(u) => Detached(u)')
          BY <1>3, <1>5, <2>1, OthersAlone
    <2> QED
        BY <1>3, <1>5, <2>2 DEF TimerInv, Flags
<1>6. t \notin dropped' => Attached(t)'
    <2>1. \/ cmds[Len(cmds)].op = "start" /\ t \in active'
          \/ cmds[Len(cmds)].op = "stop" /\ t \notin active'
          OBVIOUS
    <2> QED
        BY <1>3, <2>1 DEF Attached
<1>7. Flags'
      BY <1>5, <1>6 DEF Flags
<1> QED
    BY <1>3, <1>4, <1>7

\* start and restart
LEMMA LaunchKeeps ==
    ASSUME TimerInv, NEW t \in Timers, Start(t) \/ Restart(t)
    PROVE  TimerInv'
<1>1. PICK c : c = Cmd("start", t, epoch[t] + 1)
      OBVIOUS
<1>2. PICK start : start \in {<<c>>, <<c, c>>} /\ Launch(t, start)
      BY <1>1 DEF Start, Restart
<1>3. PICK cmds : cmds = StopIfActive(t) \o start
      OBVIOUS
<1>4. /\ cmds \in Seq(Command) /\ cmds # <<>>
      /\ \A i \in DOMAIN cmds :
            cmds[i].timer = t /\ (cmds[i].op = "start" => cmds[i].epoch # 0)
      /\ cmds[Len(cmds)].op = "start"
      BY <1>1, <1>2, <1>3, LaunchCommands DEF TimerInv
<1>5. /\ t \in attached /\ SendCommands(t, cmds)
      /\ epoch' = [epoch EXCEPT ![t] = @ + 1]
      /\ active' = active \cup {t}
      /\ armed' = armed /\ attached' = attached /\ running' = running /\ mailbox' = mailbox
      BY <1>2, <1>3 DEF Launch
<1>6. \A u : u # t /\ OnItsWay(u) => OnItsWay(u)'
      BY <1>5 DEF OnItsWay, Elems
<1>7. /\ commands' \in Seq(Command)
      /\ \A i \in DOMAIN commands' : commands'[i].op = "start" => commands'[i].epoch # 0
      /\ Flags'
      BY <1>4, <1>5, <1>6, Ordered
<1>8. Types'
      BY <1>5, <1>7 DEF TimerInv, Types
<1> QED
    BY <1>7, <1>8 DEF TimerInv

\* stop
LEMMA StopKeeps ==
    ASSUME TimerInv, NEW t \in Timers, Stop(t)
    PROVE  TimerInv'
<1>1. PICK cmds : cmds = <<Cmd("stop", t, 0)>>
      OBVIOUS
<1>2. /\ cmds \in Seq(Command) /\ cmds # <<>>
      /\ \A i \in DOMAIN cmds : cmds[i].timer = t /\ cmds[i].op = "stop"
      /\ cmds[Len(cmds)].op = "stop"
      BY <1>1, OneCommand
<1>3. /\ t \in attached /\ SendCommands(t, cmds)
      /\ active' = active \ {t} /\ epoch' = epoch
      /\ armed' = armed /\ attached' = attached /\ running' = running /\ mailbox' = mailbox
      BY <1>1 DEF Stop
<1>4. \A i \in DOMAIN cmds :
          cmds[i].timer = t /\ (cmds[i].op = "start" => cmds[i].epoch # 0)
      BY <1>2
<1>5. \A u : u # t /\ OnItsWay(u) => OnItsWay(u)'
      BY <1>3 DEF OnItsWay, Elems
<1>6. /\ commands' \in Seq(Command)
      /\ \A i \in DOMAIN commands' : commands'[i].op = "start" => commands'[i].epoch # 0
      /\ Flags'
      BY <1>2, <1>3, <1>4, <1>5, Ordered
<1>7. Types'
      BY <1>3, <1>6 DEF TimerInv, Types
<1> QED
    BY <1>6, <1>7 DEF TimerInv

\* TimerHandle::reset: the deletion is the last command of the timer.
LEMMA DestroyKeeps ==
    ASSUME TimerInv, NEW t \in Timers, Destroy(t)
    PROVE  TimerInv'
<1>1. PICK k : k = <<Cmd("delete", t, 0)>>
      OBVIOUS
<1>2. /\ k \in Seq(Command) /\ k # <<>>
      /\ \A i \in DOMAIN k : k[i].timer = t /\ k[i].op = "delete"
      /\ k[Len(k)].op = "delete"
      BY <1>1, OneCommand
<1>3. commands \in Seq(Command) /\ Cmd("delete", t, 0) \in Command
      BY DEF TimerInv, Types, Cmd, Command
<1>4. commands' = commands \o k
      BY <1>1, <1>3, AppendIsConcat DEF Destroy
<1>5. /\ active' = active \ {t} /\ epoch' = epoch /\ attached' = attached \ {t}
      /\ dropped' = dropped
      /\ armed' = armed /\ running' = running /\ mailbox' = mailbox
      BY DEF Destroy
<1>6. /\ commands' \in Seq(Command)
      /\ \A i \in DOMAIN commands' :
            \/ i \in DOMAIN commands /\ commands'[i] = commands[i]
            \/ \E j \in DOMAIN k : commands'[i] = k[j]
      /\ \A u : u # t =>
            /\ Settled(u)' => Settled(u)
            /\ \A i : LastCommand(u, i)' => LastCommand(u, i) /\ commands'[i] = commands[i]
      /\ ~Settled(t)' /\ \A i : LastCommand(t, i)' => commands'[i] = k[Len(k)]
    <2>1. \A i \in DOMAIN k : k[i].timer = t
          BY <1>2
    <2>2. /\ commands' \in Seq(Command)
          /\ \A i \in DOMAIN commands' :
                \/ i \in DOMAIN commands /\ commands'[i] = commands[i]
                \/ \E j \in DOMAIN k : commands'[i] = k[j]
          /\ \A u : u # t =>
                /\ Settled(u)' => Settled(u)
                /\ \A i : LastCommand(u, i)' => LastCommand(u, i) /\ commands'[i] = commands[i]
          /\ k # <<>> => /\ ~Settled(t)'
                         /\ \A i : LastCommand(t, i)' => commands'[i] = k[Len(k)]
          BY <1>2, <1>3, <1>4, <2>1, Extend
    <2> QED
        BY <1>2, <2>2
<1>7. Types'
      BY <1>2, <1>5, <1>6 DEF TimerInv, Types
<1>8. Detached(t)'
      BY <1>2, <1>5, <1>6 DEF Detached
<1>9. ASSUME NEW u \in Timers, u # t
      PROVE  /\ u \in attached' \ dropped' => Attached(u)'
             /\ u \notin attached' => Detached(u)'
    <2>1. u \in active' <=> u \in active
          BY <1>5, <1>9
    <2>2. OnItsWay(u) => OnItsWay(u)'
          BY <1>5 DEF OnItsWay, Elems
    <2>3. (Attached(u) => Attached(u)') /\ (Detached(u) => Detached(u)')
          BY <1>5, <1>6, <1>9, <2>1, <2>2, OthersAlone
    <2> QED
        BY <1>5, <1>9, <2>3 DEF TimerInv, Flags
<1>10. Flags'
      BY <1>5, <1>8, <1>9 DEF Flags
<1> QED
    BY <1>7, <1>10 DEF TimerInv

\* A timer is created at an address whose deletion has been carried out.
LEMMA CreateKeeps ==
    ASSUME TimerInv, NEW t \in Timers, Create(t)
    PROVE  TimerInv'
<1>1. /\ t \notin attached /\ attached' = attached \cup {t} /\ dropped' = dropped \ {t}
      /\ active' = active /\ epoch' = epoch /\ commands' = commands
      /\ armed' = armed /\ running' = running /\ mailbox' = mailbox
      BY DEF Create
<1>2. Settled(t)
      BY DEF Create, Pending, Elems, Settled
<1>3. t \notin active /\ armed[t] = 0
      BY <1>1, <1>2 DEF TimerInv, Flags, Detached
<1>4. Settled(t)' /\ \A i : ~LastCommand(t, i)'
      BY <1>1, <1>2 DEF Settled, LastCommand
<1>5. Attached(t)'
      BY <1>1, <1>3, <1>4 DEF Attached, Agrees
<1>6. ASSUME NEW u \in Timers, u # t
      PROVE  /\ u \in attached' \ dropped' => Attached(u)'
             /\ u \notin attached' => Detached(u)'
    <2>1. /\ OnItsWay(u) => OnItsWay(u)'
          /\ Settled(u)' => Settled(u)
          /\ \A i : LastCommand(u, i)' => LastCommand(u, i) /\ commands'[i] = commands[i]
          BY <1>1 DEF OnItsWay, Elems, Settled, LastCommand
    <2>2. (Attached(u) => Attached(u)') /\ (Detached(u) => Detached(u)')
          BY <1>1, <1>6, <2>1, OthersAlone
    <2> QED
        BY <1>1, <1>6, <2>2 DEF TimerInv, Flags
<1>7. Flags'
      BY <1>1, <1>5, <1>6 DEF Flags
<1>8. Types'
      BY <1>1 DEF TimerInv, Types
<1> QED
    BY <1>7, <1>8 DEF TimerInv

\* A step that sends no command and touches neither the flags nor the
\* FreeRTOS timers keeps the invariant if it loses no single-shot expiry of
\* an active timer.
LEMMA QuietKeeps ==
    ASSUME TimerInv,
           attached' = attached, dropped' = dropped, active' = active,
           commands' = commands, armed' = armed,
           \A u \in active : u \notin Periodic /\ OnItsWay(u) => OnItsWay(u)'
    PROVE  Flags'
<1> SUFFICES ASSUME NEW u \in Timers
             PROVE  /\ u \in attached' \ dropped' => Attached(u)'
                    /\ u \notin attached' => Detached(u)'
    BY DEF Flags
<1>1. /\ Settled(u)' => Settled(u)
      /\ \A i : LastCommand(u, i)' =>
            \E j : LastCommand(u, j) /\ commands'[i] = commands[j]
      BY DEF Settled, LastCommand
<1>2. u \in active /\ u \notin Periodic /\ OnItsWay(u) => OnItsWay(u)'
      OBVIOUS
<1>3. (Attached(u) => Attached(u)') /\ (Detached(u) => Detached(u)')
      BY <1>1, <1>2, LeftAlone
<1> QED
    BY <1>3 DEF TimerInv, Flags

\* TimerHandle and onTimeout
LEMMA OnTimeoutKeeps ==
    ASSUME TimerInv, OnTimeout
    PROVE  TimerInv'
<1>1. PICK m : m = Head(mailbox)
      OBVIOUS
<1>2. /\ mailbox # <<>> /\ mailbox' = Tail(mailbox)
      /\ attached' = attached /\ epoch' = epoch /\ armed' = armed /\ running' = running
      BY DEF OnTimeout
<1>3. /\ m \in Expiry /\ mailbox' \in Seq(Expiry)
      /\ \A u : u # m.timer /\ OnItsWay(u) => OnItsWay(u)'
      BY <1>1, <1>2, TakeMessage DEF TimerInv, Types
<1>4. m.timer \in Timers
      BY <1>3 DEF Expiry
<1>5. PICK t \in Timers : t = m.timer
      BY <1>4
<1>6. CASE /\ t \notin attached \/ t \notin active
           /\ active' = active /\ commands' = commands /\ dropped' = dropped
    <2>1. t \notin active
          BY <1>6 DEF TimerInv, Flags, Detached
    <2>2. Flags'
          BY <1>2, <1>3, <1>5, <1>6, <2>1, QuietKeeps
    <2> QED
        BY <1>2, <1>3, <1>6, <2>2 DEF TimerInv, Types
<1>7. CASE /\ t \in attached /\ t \in Periodic
           /\ active' = active /\ commands' = commands /\ dropped' = dropped
    <2>1. Flags'
          BY <1>2, <1>3, <1>5, <1>7, QuietKeeps
    <2> QED
        BY <1>2, <1>3, <1>7, <2>1 DEF TimerInv, Types
<1>8. CASE /\ t \in attached
           /\ active' = active \ {t}
           /\ SendCommands(t, <<Cmd("stop", t, 0)>>)
    <2>1. PICK cmds : cmds = <<Cmd("stop", t, 0)>>
          OBVIOUS
    <2>2. /\ cmds \in Seq(Command) /\ cmds # <<>>
          /\ \A i \in DOMAIN cmds : cmds[i].timer = t /\ cmds[i].op = "stop"
          /\ cmds[Len(cmds)].op = "stop"
          BY <2>1, OneCommand
    <2>3. SendCommands(t, cmds)
          BY <1>8, <2>1
    <2>4. \A i \in DOMAIN cmds :
              cmds[i].timer = t /\ (cmds[i].op = "start" => cmds[i].epoch # 0)
          BY <2>2
    <2>5. \A u : u # t /\ OnItsWay(u) => OnItsWay(u)'
          BY <1>3, <1>5
    <2>6. /\ commands' \in Seq(Command)
          /\ \A i \in DOMAIN commands' : commands'[i].op = "start" => commands'[i].epoch # 0
          /\ Flags'
          BY <1>2, <1>8, <2>2, <2>3, <2>4, <2>5, Ordered
    <2> QED
        BY <1>2, <1>3, <2>6 DEF TimerInv, Types
<1>9. \/ /\ t \notin attached \/ t \notin active
         /\ active' = active /\ commands' = commands /\ dropped' = dropped
      \/ /\ t \in attached /\ t \in Periodic
         /\ active' = active /\ commands' = commands /\ dropped' = dropped
      \/ /\ t \in attached
         /\ active' = active \ {t}
         /\ SendCommands(t, <<Cmd("stop", t, 0)>>)
      BY <1>1, <1>5 DEF OnTimeout
<1> QED
    BY <1>6, <1>7, <1>8, <1>9

\* FreeRTOS carries out a command: if it was the last one for its timer, the
\* FreeRTOS timer is now what the flag says.
LEMMA DaemonCommandKeeps ==
    ASSUME TimerInv, DaemonCommand
    PROVE  TimerInv'
<1>1. PICK c : c = Head(commands)
      OBVIOUS
<1>2. /\ commands # <<>> /\ commands' = Tail(commands)
      /\ armed' = [armed EXCEPT ![c.timer] = IF c.op = "start" THEN c.epoch ELSE 0]
      /\ attached' = attached /\ active' = active /\ epoch' = epoch /\ dropped' = dropped
      /\ running' = running /\ mailbox' = mailbox
      BY <1>1 DEF DaemonCommand
<1>3. /\ c = commands[1] /\ 1 \in DOMAIN commands /\ c \in Command
      /\ commands' \in Seq(Command)
      /\ \A i \in DOMAIN commands' :
            i + 1 \in DOMAIN commands /\ commands'[i] = commands[i + 1]
      /\ \A u : \A i : LastCommand(u, i)' =>
            LastCommand(u, i + 1) /\ commands'[i] = commands[i + 1]
      /\ \A u : Settled(u)' => Settled(u) \/ LastCommand(u, 1)
      /\ \A u : u # commands[1].timer /\ Settled(u)' => Settled(u)
      BY <1>1, <1>2, TakeFacts DEF TimerInv, Types
<1>4. c.timer \in Timers /\ c.epoch \in Nat
      BY <1>3 DEF Command
<1>5. PICK t \in Timers : t = c.timer
      BY <1>4
<1>6. /\ armed \in [Timers -> Nat] /\ armed' \in [Timers -> Nat]
      /\ armed'[t] = IF c.op = "start" THEN c.epoch ELSE 0
      /\ \A u \in Timers : u # t => armed'[u] = armed[u]
      BY <1>2, <1>4, <1>5 DEF TimerInv, Types
<1>7. c.op = "start" => c.epoch # 0
      BY <1>3 DEF TimerInv, Types
<1>8. Types'
      BY <1>2, <1>3, <1>6 DEF TimerInv, Types
<1>9. ASSUME NEW u \in Timers, u # t
      PROVE  /\ u \in attached' \ dropped' => Attached(u)'
             /\ u \notin attached' => Detached(u)'
    <2>1. \A i : LastCommand(u, i)' =>
              \E j : LastCommand(u, j) /\ commands'[i] = commands[j]
          BY <1>3
    <2>2. Settled(u)' => Settled(u)
          BY <1>3, <1>5, <1>9
    <2>3. armed'[u] = armed[u]
          BY <1>6, <1>9
    <2>4. OnItsWay(u) => OnItsWay(u)'
          BY <1>2 DEF OnItsWay, Elems
    <2>5. (Attached(u) => Attached(u)') /\ (Detached(u) => Detached(u)')
          BY <1>2, <2>1, <2>2, <2>3, <2>4, LeftAlone
    <2> QED
        BY <1>2, <1>9, <2>5 DEF TimerInv, Flags
<1>10. Settled(t)' => LastCommand(t, 1)
    <2>1. ~Settled(t)
          BY <1>3, <1>5 DEF Settled
    <2> QED
        BY <1>3, <2>1
<1>11. ASSUME t \in attached' \ dropped' PROVE Attached(t)'
    <2>1. Attached(t)
          BY <1>2, <1>11 DEF TimerInv, Flags
    <2>2. ASSUME NEW i, LastCommand(t, i)'
          PROVE  \/ commands'[i].op = "start" /\ t \in active'
                 \/ commands'[i].op = "stop" /\ t \notin active'
        <3>1. LastCommand(t, i + 1) /\ commands'[i] = commands[i + 1]
              BY <1>3, <2>2
        <3> QED
            BY <1>2, <2>1, <3>1 DEF Attached
    <2>3. ASSUME Settled(t)' PROVE Agrees(t)'
        <3>1. \/ c.op = "start" /\ t \in active
              \/ c.op = "stop" /\ t \notin active
              BY <1>3, <1>10, <2>1, <2>3 DEF Attached
        <3>2. \/ armed'[t] # 0 /\ t \in active'
              \/ armed'[t] = 0 /\ t \notin active'
              BY <1>2, <1>6, <1>7, <3>1
        <3> QED
            BY <3>2 DEF Agrees
    <2> QED
        BY <2>2, <2>3 DEF Attached
<1>12. ASSUME t \notin attached' PROVE Detached(t)'
    <2>1. Detached(t)
          BY <1>2, <1>12 DEF TimerInv, Flags
    <2>2. \A i : LastCommand(t, i)' => commands'[i].op = "delete"
          BY <1>3, <2>1 DEF Detached
    <2>3. ASSUME Settled(t)' PROVE armed'[t] = 0
        <3>1. c.op = "delete"
              BY <1>3, <1>10, <2>1, <2>3 DEF Detached
        <3> QED
            BY <1>6, <3>1
    <2>4. t \notin active'
          BY <1>2, <2>1 DEF Detached
    <2> QED
        BY <2>2, <2>3, <2>4 DEF Detached
<1>13. Flags'
      BY <1>9, <1>11, <1>12 DEF Flags
<1> QED
    BY <1>8, <1>13 DEF TimerInv

\* A timer expires: a periodic one goes on running, a single-shot one is
\* dormant and its expiry on its way.
LEMMA ExpireKeeps ==
    ASSUME TimerInv, NEW t \in Timers, DaemonExpire(t)
    PROVE  TimerInv'
<1>1. /\ running = <<>> /\ armed[t] # 0
      /\ running' = IF t \in attached THEN << [timer |-> t, epoch |-> armed[t]] >> ELSE <<>>
      /\ armed' = IF t \in Periodic THEN armed ELSE [armed EXCEPT ![t] = 0]
      /\ attached' = attached /\ active' = active /\ epoch' = epoch /\ dropped' = dropped
      /\ commands' = commands /\ mailbox' = mailbox
      BY DEF DaemonExpire, Idle
<1>2. /\ armed \in [Timers -> Nat] /\ armed' \in [Timers -> Nat]
      /\ \A u \in Timers : u # t \/ t \in Periodic => armed'[u] = armed[u]
      /\ t \notin Periodic => armed'[t] = 0
      BY <1>1 DEF TimerInv, Types
<1>3. PICK x : x = [timer |-> t, epoch |-> armed[t]]
      OBVIOUS
<1>4. x \in Expiry /\ x.timer = t
      BY <1>2, <1>3 DEF Expiry
<1>5. t \in attached => running' = <<x>> /\ running' # <<>> /\ running'[1] = x
      BY <1>1, <1>3
<1>6. running' \in Seq(Expiry) /\ Len(running') <= 1
    <2>1. CASE t \in attached
        <3>1. PICK r : r = <<x>>
              OBVIOUS
        <3>2. r \in Seq(Expiry) /\ Len(r) <= 1
              BY <1>4, <3>1
        <3>3. running' = r
              BY <1>5, <2>1, <3>1
        <3> QED
            BY <3>2, <3>3, Zenon
    <2>2. CASE t \notin attached
          BY <1>1, <2>2
    <2> QED
        BY <2>1, <2>2
<1>7. Types'
      BY <1>1, <1>2, <1>6 DEF TimerInv, Types
<1>8. \A u : OnItsWay(u) => OnItsWay(u)'
      BY <1>1 DEF OnItsWay, Elems, Idle
<1>9. ASSUME NEW u
      PROVE  /\ Settled(u)' <=> Settled(u)
             /\ \A i : LastCommand(u, i)' =>
                   \E j : LastCommand(u, j) /\ commands'[i] = commands[j]
      BY <1>1 DEF Settled, LastCommand
<1>10. ASSUME NEW u \in Timers, u # t \/ t \in Periodic
       PROVE  /\ u \in attached' \ dropped' => Attached(u)'
              /\ u \notin attached' => Detached(u)'
    <2>1. armed'[u] = armed[u]
          BY <1>2, <1>10
    <2>2. (Attached(u) => Attached(u)') /\ (Detached(u) => Detached(u)')
          BY <1>1, <1>8, <1>9, <2>1, LeftAlone
    <2> QED
        BY <1>1, <1>10, <2>2 DEF TimerInv, Flags
<1>11. ASSUME t \notin Periodic, t \in attached' \ dropped' PROVE Attached(t)'
    <2>1. Attached(t)
          BY <1>1, <1>11 DEF TimerInv, Flags
    <2>2. OnItsWay(t)'
          BY <1>1, <1>4, <1>5, <1>11 DEF OnItsWay, Idle
    <2>3. Agrees(t)'
          BY <1>2, <1>11, <2>2 DEF Agrees
    <2>4. \A i : LastCommand(t, i)' =>
              \/ commands'[i].op = "start" /\ t \in active'
              \/ commands'[i].op = "stop" /\ t \notin active'
          BY <1>1, <1>9, <2>1 DEF Attached
    <2> QED
        BY <2>3, <2>4 DEF Attached
<1>12. ASSUME t \notin Periodic, t \notin attached' PROVE Detached(t)'
    <2>1. Detached(t)
          BY <1>1, <1>12 DEF TimerInv, Flags
    <2>2. \A i : LastCommand(t, i)' => commands'[i].op = "delete"
          BY <1>9, <2>1 DEF Detached
    <2> QED
        BY <1>1, <1>2, <1>12, <2>1, <2>2 DEF Detached
<1>13. Flags'
      BY <1>10, <1>11, <1>12 DEF Flags
<1> QED
    BY <1>7, <1>13 DEF TimerInv

\* Run: the expiry of an active timer goes to the mailbox; only that of a
\* timer which is gone, and so not active, is lost.
LEMMA RunKeeps ==
    ASSUME TimerInv, DaemonRun
    PROVE  TimerInv'
<1>1. PICK x : x = running[1]
      OBVIOUS
<1>2. /\ running # <<>> /\ running' = <<>>
      /\ attached' = attached /\ active' = active /\ epoch' = epoch /\ dropped' = dropped
      /\ commands' = commands /\ armed' = armed
      BY DEF DaemonRun, Idle
<1>3. x \in Expiry
      BY <1>1, <1>2 DEF TimerInv, Types
<1>4. x.timer \in Timers
      BY <1>3 DEF Expiry
<1>5. running' \in Seq(Expiry) /\ Len(running') <= 1
      BY <1>2
<1>6. CASE x.timer \in attached /\ mailbox' = Append(mailbox, x)
    <2>1. /\ mailbox' \in Seq(Expiry)
          /\ x \in Elems(mailbox)'
          /\ \A m \in Elems(mailbox) : m \in Elems(mailbox)'
          BY <1>3, <1>6, SendMessage DEF TimerInv, Types
    <2>2. \A u : OnItsWay(u) => OnItsWay(u)'
          BY <1>1, <2>1 DEF OnItsWay
    <2>3. Flags'
          BY <1>2, <2>2, QuietKeeps
    <2> QED
        BY <1>2, <1>5, <2>1, <2>3 DEF TimerInv, Types
<1>7. CASE x.timer \notin attached /\ mailbox' = mailbox
    <2>1. x.timer \notin active
          BY <1>4, <1>7 DEF TimerInv, Flags, Detached
    <2>2. \A u \in active : OnItsWay(u) => OnItsWay(u)'
          BY <1>1, <1>7, <2>1 DEF OnItsWay, Elems
    <2>3. Flags'
          BY <1>2, <2>2, QuietKeeps
    <2> QED
        BY <1>2, <1>5, <1>7, <2>3 DEF TimerInv, Types
<1> QED
    BY <1>1, <1>6, <1>7 DEF DaemonRun

-----------------------------------------------------------------------------

\* The invariant is inductive.
LEMMA TimerInductive == TimerInv /\ [Next]_vars => TimerInv'
<1> SUFFICES ASSUME TimerInv, [Next]_vars PROVE TimerInv'
    OBVIOUS
<1>1. CASE vars' = vars
    <2>1. Flags'
        <3>1. \A u : OnItsWay(u) => OnItsWay(u)'
              BY <1>1 DEF vars, OnItsWay, Elems
        <3> QED
            BY <1>1, <3>1, QuietKeeps DEF vars
    <2> QED
        BY <1>1, <2>1 DEF vars, TimerInv, Types
<1>2. ASSUME NEW t \in Timers, Start(t) \/ Restart(t) PROVE TimerInv'
      BY <1>2, LaunchKeeps
<1>3. ASSUME NEW t \in Timers, Stop(t) PROVE TimerInv'
      BY <1>3, StopKeeps
<1>4. ASSUME NEW t \in Timers, Destroy(t) PROVE TimerInv'
      BY <1>4, DestroyKeeps
<1>5. ASSUME NEW t \in Timers, Create(t) PROVE TimerInv'
      BY <1>5, CreateKeeps
<1>6. ASSUME NEW t \in Timers, DaemonExpire(t) PROVE TimerInv'
      BY <1>6, ExpireKeeps
<1> QED
    BY <1>1, <1>2, <1>3, <1>4, <1>5, <1>6, OnTimeoutKeeps, DaemonCommandKeeps, RunKeeps
    DEF Next, Daemon

\* Every timer exists at first, dormant and not active.
LEMMA TimerInitially == Init => TimerInv
<1> SUFFICES ASSUME Init PROVE TimerInv
    OBVIOUS
<1>1. Types
      BY DEF Init, Types, Idle
<1>2. \A t \in Timers : t \in attached /\ t \notin active /\ armed[t] = 0
      BY DEF Init
<1>3. DOMAIN commands = {}
      BY DEF Init
<1>4. \A t \in Timers : \A i : ~LastCommand(t, i)
      BY <1>3 DEF LastCommand
<1>5. Flags
      BY <1>2, <1>4 DEF Flags, Attached, Agrees
<1> QED
    BY <1>1, <1>5 DEF TimerInv

\* A timer none of whose commands was lost, and whose commands the daemon
\* has all carried out: if its FreeRTOS timer runs then its flag is set, and
\* if its flag is set then the FreeRTOS timer runs or its expiry is on its
\* way.  SystemTimer.cpp keeps the two apart; this is what onTimeout, start
\* and stop rely on when they look at the flag alone.
THEOREM FlagSafe == Spec => []FlagMatchesTimer
<1>1. TimerInv => FlagMatchesTimer
    <2> SUFFICES ASSUME TimerInv, NEW t \in attached \ dropped, ~Pending(t)
                 PROVE  /\ armed[t] # 0 => t \in active
                        /\ t \in active => armed[t] # 0 \/ OnItsWay(t)
        BY DEF FlagMatchesTimer
    <2>0. t \in Timers
          BY DEF TimerInv, Types
    <2>1. Settled(t)
          BY DEF Pending, Elems, Settled
    <2> QED
        BY <2>0, <2>1 DEF TimerInv, Flags, Attached, Agrees
<1>2. Spec => []TimerInv
      BY TimerInitially, TimerInductive, PTL DEF Spec
<1> QED
    BY <1>1, <1>2, PTL

-----------------------------------------------------------------------------
(***************************************************************************)
(* The mailbox: its invariant.                                             *)
(***************************************************************************)

\* What MailboxTypeOK needs to be kept: the thread of the service is inside one call
\* only, a push has a message, and only a pop with a time limit, which is
\* counted, runs out.
Calls ==
    /\ pc # "idle" => push[Thread] = "idle"
    /\ \A p \in Pushers : push[p] # "idle" => item[p] \in Items
    /\ limited /\ pc \notin {"idle", "expired"} => timedOut < MaxTimeouts
    /\ pc = "expired" => limited

\* A given semaphore counts like an entry of the list: both stand for a wait
\* that ran out, but for one during a wait.
EntriesCounted ==
    Len(WaitList) + (IF ThreadWaitSem THEN 1 ELSE 0)
        <= timedOut + (IF Waiting THEN 1 ELSE 0)

MailboxInv == MailboxTypeOK /\ Calls /\ NoLostWakeup /\ EntriesCounted

-----------------------------------------------------------------------------
(***************************************************************************)
(* Types.                                                                  *)
(***************************************************************************)

\* The initial state, when the service and its mailbox have been made, has the
\* types and satisfies Calls.
LEMMA TypeInit == MailboxInit => MailboxTypeOK /\ Calls
<1> SUFFICES ASSUME MailboxInit PROVE MailboxTypeOK /\ Calls
  OBVIOUS
<1> USE MailboxAssumption DEF MailboxInit, Pushers, Items, NoItem
<1>1. queue_ \in Seq(Items) /\ WaitList \in Seq({Thread})
  OBVIOUS
<1>2. \A p \in Pushers : Locked(p) <=> mutex_ = p
  BY DEF Locked
<1>3. push \in [Pushers -> {"idle", "lock", "append", "signal"}]
  OBVIOUS
<1>4. item \in [Pushers -> Items \cup {NoItem}]
  OBVIOUS
<1>5. pushed \in 0..MaxItems /\ timedOut \in 0..MaxTimeouts
  OBVIOUS
<1>6. mutex_ \in Pushers \cup {None} /\ result \in Items \cup {NoItem}
  OBVIOUS
<1>7. ThreadWaitSem \in BOOLEAN /\ limited \in BOOLEAN
  OBVIOUS
<1>8. pc = "idle"
  OBVIOUS
<1>9. Calls
  BY DEF Calls
<1> HIDE DEF MailboxInit, Pushers, Items, NoItem
<1> QED
  BY <1>1, <1>2, <1>3, <1>4, <1>5, <1>6, <1>7, <1>8, <1>9, Zenon DEF MailboxTypeOK

\* The steps of push (Mailbox.hpp) keep the types and the ownership of the
\* mutex.
LEMMA TypePush ==
    ASSUME MailboxTypeOK, Calls, NEW p \in Pushers, BeginPush(p) \/ PushStep(p)
    PROVE  MailboxTypeOK' /\ Calls'
<1> USE MailboxAssumption DEF MailboxTypeOK, Calls, Pushers, Items, NoItem, Locked,
                              reader
<1>1. CASE BeginPush(p)
  BY <1>1 DEF BeginPush
<1>2. CASE PushLock(p)
  BY <1>2 DEF PushLock
<1>3. CASE PushAppend(p)
  <2>1. item[p] \in Items /\ push[p] = "append" /\ mutex_ = p
    BY <1>3 DEF PushAppend
  <2>2. queue_' \in Seq(Items)
    BY <1>3, <2>1 DEF PushAppend
  <2> QED
    BY <1>3, <2>1, <2>2 DEF PushAppend
<1>4. CASE PushSignal(p)
  <2>1. WaitList' \in Seq({Thread}) /\ ThreadWaitSem' \in BOOLEAN
    BY <1>4 DEF PushSignal, Signal
  <2> QED
    BY <1>4, <2>1 DEF PushSignal
<1> QED
  BY <1>1, <1>2, <1>3, <1>4 DEF PushStep

\* The steps of pop (Mailbox.hpp and Thread::Wait) keep the types and the
\* ownership of the mutex.
LEMMA TypePop ==
    ASSUME MailboxTypeOK, Calls, BeginPop \/ PopStep
    PROVE  MailboxTypeOK' /\ Calls'
<1> USE MailboxAssumption DEF MailboxTypeOK, Calls, Pushers, Items, NoItem, Locked,
                              writers
<1>1. CASE BeginPop
  BY <1>1 DEF BeginPop
<1>2. CASE PopLock
  BY <1>2 DEF PopLock
<1>3. CASE PopFront
  <2>1. Head(queue_) \in Items /\ queue_' \in Seq(Items)
    BY <1>3 DEF PopFront
  <2> QED
    BY <1>3, <2>1 DEF PopFront
<1>4. CASE PopAddToWaitList
  BY <1>4 DEF PopAddToWaitList
<1>5. CASE PopUnlock
  BY <1>5 DEF PopUnlock
<1>6. CASE PopTake
  BY <1>6 DEF PopTake
<1>7. CASE PopTimeout
  BY <1>7 DEF PopTimeout
<1>8. CASE PopRelock
  BY <1>8 DEF PopRelock
<1>9. CASE PopReturnNull
  BY <1>9 DEF PopReturnNull
<1> QED
  BY <1>1, <1>2, <1>3, <1>4, <1>5, <1>6, <1>7, <1>8, <1>9 DEF PopStep

-----------------------------------------------------------------------------
(***************************************************************************)
(* Wake-ups.                                                               *)
(***************************************************************************)

\* A push never leaves a waiting service without a signal: what it appends,
\* it announces afterwards (Mailbox.hpp push).
LEMMA WakeupPush ==
    ASSUME MailboxInv, NEW p \in Pushers, BeginPush(p) \/ PushStep(p)
    PROVE  NoLostWakeup' /\ EntriesCounted'
<1> USE DEF MailboxInv, MailboxTypeOK, NoLostWakeup, EntriesCounted, Waiting, reader
<1>1. CASE BeginPush(p)
  BY <1>1 DEF BeginPush
<1>2. CASE PushLock(p)
  BY <1>2 DEF PushLock
<1>3. CASE PushAppend(p)
  BY <1>3 DEF PushAppend
<1>4. CASE PushSignal(p)
  <2>1. CASE WaitList = <<>>
    BY <1>4, <2>1 DEF PushSignal, Signal
  <2>2. CASE WaitList # <<>>
    <3>1. ThreadWaitSem' /\ WaitList' = Tail(WaitList)
      BY <1>4, <2>2 DEF PushSignal, Signal
    <3>2. Len(WaitList') = Len(WaitList) - 1 /\ Len(WaitList) \in Nat
      BY <2>2, <3>1
    <3>3. NoLostWakeup'
      BY <3>1
    <3>4. UNCHANGED <<pc, timedOut>>
      BY <1>4 DEF PushSignal
    <3>5. Len(WaitList) <= timedOut + (IF Waiting THEN 1 ELSE 0)
      BY <3>2
    <3>6. Len(WaitList') + 1 <= timedOut + (IF Waiting THEN 1 ELSE 0)
      BY <3>2, <3>5
    <3>7. EntriesCounted'
      BY <3>1, <3>4, <3>6
    <3> QED
      BY <3>3, <3>7
  <2> QED
    BY <2>1, <2>2
<1> QED
  BY <1>1, <1>2, <1>3, <1>4 DEF PushStep

\* A pop that goes to wait has put itself on the list while it held the mutex
\* and the queue was empty (Thread::Wait).
LEMMA WakeupPop ==
    ASSUME MailboxInv, BeginPop \/ PopStep
    PROVE  NoLostWakeup' /\ EntriesCounted'
<1> USE MailboxAssumption
    DEF MailboxInv, MailboxTypeOK, NoLostWakeup, EntriesCounted, Waiting, writers
<1>1. CASE BeginPop
  BY <1>1 DEF BeginPop
<1>2. CASE PopLock
  BY <1>2 DEF PopLock
<1>3. CASE PopFront
  BY <1>3 DEF PopFront
<1>4. CASE PopAddToWaitList
  <2>1. Len(WaitList') = Len(WaitList) + 1 /\ WaitList' # <<>>
    BY <1>4 DEF PopAddToWaitList
  <2> QED
    BY <1>4, <2>1 DEF PopAddToWaitList
<1>5. CASE PopUnlock
  BY <1>5 DEF PopUnlock
<1>6. CASE PopTake
  BY <1>6 DEF PopTake
<1>7. CASE PopTimeout
  BY <1>7 DEF PopTimeout
<1>8. CASE PopRelock
  BY <1>8 DEF PopRelock
<1>9. CASE PopReturnNull
  BY <1>9 DEF PopReturnNull
<1> QED
  BY <1>1, <1>2, <1>3, <1>4, <1>5, <1>6, <1>7, <1>8, <1>9 DEF PopStep

\* MailboxInv is an inductive invariant of the mailbox.
LEMMA MailboxInvariance == MailboxSpec => []MailboxInv
<1>1. MailboxInit => MailboxInv
  <2>1. MailboxInit => NoLostWakeup /\ EntriesCounted
    BY DEF MailboxInit, NoLostWakeup, EntriesCounted, Waiting
  <2> QED
    BY <2>1, TypeInit DEF MailboxInv
<1>2. MailboxInv /\ [MailboxNext]_mailboxVars => MailboxInv'
  <2> SUFFICES ASSUME MailboxInv, [MailboxNext]_mailboxVars PROVE MailboxInv'
    OBVIOUS
  <2> USE DEF MailboxInv
  <2>1. CASE \E p \in Pushers : BeginPush(p) \/ PushStep(p)
    BY <2>1, TypePush, WakeupPush
  <2>2. CASE BeginPop \/ PopStep
    BY <2>2, TypePop, WakeupPop
  <2>3. CASE UNCHANGED mailboxVars
    BY <2>3 DEF mailboxVars, MailboxTypeOK, Calls, NoLostWakeup, EntriesCounted, Waiting,
                Locked
  <2> QED
    BY <2>1, <2>2, <2>3 DEF MailboxNext
<1> QED
  BY <1>1, <1>2, PTL DEF MailboxSpec

\* The variables always have their types, and a thread owns the mutex
\* exactly while it is in a critical section of push or pop.
THEOREM MailboxTypeCorrect == MailboxSpec => []MailboxTypeOK
<1>1. MailboxInv => MailboxTypeOK
  BY DEF MailboxInv
<1> QED
  BY <1>1, MailboxInvariance, PTL

\* A service that waits in pop although its mailbox is not empty has been
\* signaled or is about to be, for any number of stale entries that earlier
\* waits left in the list (Thread::Wait, ConditionVariable::Signal).
THEOREM NoWakeupIsLost == MailboxSpec => []NoLostWakeup
<1>1. MailboxInv => NoLostWakeup
  BY DEF MailboxInv
<1> QED
  BY <1>1, MailboxInvariance, PTL

\* The wait list is no longer than the number of waits that ran out, and one
\* more during a wait (AddToWaitList, Signal).
THEOREM WaitListBounded == MailboxSpec => []StaleOnlyFromTimeouts
<1>1. MailboxInv => StaleOnlyFromTimeouts
  BY MailboxAssumption
     DEF MailboxInv, MailboxTypeOK, EntriesCounted, StaleOnlyFromTimeouts, Waiting
<1> QED
  BY <1>1, MailboxInvariance, PTL

-----------------------------------------------------------------------------
(***************************************************************************)
(* Refinement.                                                             *)
(***************************************************************************)

\* A step of push is a push to the abstract queue when it appends, and
\* invisible otherwise.
LEMMA PushImplements ==
    ASSUME MailboxInv, NEW p \in Pushers, BeginPush(p) \/ PushStep(p)
    PROVE  Abstract!Next \/ UNCHANGED Abstract!vars
<1> USE DEF Abstract!vars, reader
<1>1. CASE BeginPush(p)
  BY <1>1 DEF BeginPush
<1>2. CASE PushLock(p)
  BY <1>2 DEF PushLock
<1>3. CASE PushAppend(p)
  <2>1. item[p] \in Items
    BY <1>3 DEF PushAppend, MailboxInv, Calls
  <2>2. Abstract!Push(item[p])
    BY <1>3 DEF PushAppend, Abstract!Push
  <2> QED
    BY <2>1, <2>2 DEF Abstract!Next
<1>4. CASE PushSignal(p)
  BY <1>4 DEF PushSignal
<1> QED
  BY <1>1, <1>2, <1>3, <1>4 DEF PushStep

\* A step of pop begins the abstract pop, takes the first message, returns
\* nothing after the time limit, or is invisible.
LEMMA PopImplements ==
    ASSUME MailboxInv, BeginPop \/ PopStep
    PROVE  Abstract!Next \/ UNCHANGED Abstract!vars
<1> USE DEF Abstract!vars, writers
<1>1. CASE BeginPop
  BY <1>1 DEF BeginPop, Abstract!Next, Abstract!StartPop
<1>2. CASE PopLock
  BY <1>2 DEF PopLock
<1>3. CASE PopFront
  BY <1>3 DEF PopFront, Abstract!Next, Abstract!PopItem
<1>4. CASE PopAddToWaitList
  BY <1>4 DEF PopAddToWaitList
<1>5. CASE PopUnlock
  BY <1>5 DEF PopUnlock
<1>6. CASE PopTake
  BY <1>6 DEF PopTake
<1>7. CASE PopTimeout
  BY <1>7 DEF PopTimeout
<1>8. CASE PopRelock
  BY <1>8 DEF PopRelock
<1>9. CASE PopReturnNull
  BY <1>9 DEF PopReturnNull, MailboxInv, Calls, Abstract!Next, Abstract!PopNothing
<1> QED
  BY <1>1, <1>2, <1>3, <1>4, <1>5, <1>6, <1>7, <1>8, <1>9 DEF PopStep

\* The mailbox is a first-in first-out queue: a message is in it from
\* push_back to pop_front, and a pop that times out takes nothing
\* (Mailbox.hpp).
THEOREM MailboxIsQueue == MailboxSpec => ImplementsQueue
<1>1. MailboxInit => Abstract!Init
  BY DEF MailboxInit, Abstract!Init
<1>2. MailboxInv /\ [MailboxNext]_mailboxVars => [Abstract!Next]_Abstract!vars
  <2> SUFFICES ASSUME MailboxInv, [MailboxNext]_mailboxVars
               PROVE  Abstract!Next \/ UNCHANGED Abstract!vars
    OBVIOUS
  <2>1. CASE \E p \in Pushers : BeginPush(p) \/ PushStep(p)
    BY <2>1, PushImplements
  <2>2. CASE BeginPop \/ PopStep
    BY <2>2, PopImplements
  <2>3. CASE UNCHANGED mailboxVars
    BY <2>3 DEF mailboxVars, Abstract!vars
  <2> QED
    BY <2>1, <2>2, <2>3 DEF MailboxNext
<1> QED
  BY <1>1, <1>2, MailboxInvariance, PTL DEF MailboxSpec, ImplementsQueue, Abstract!Spec
=============================================================================
