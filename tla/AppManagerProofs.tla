-------------------------- MODULE AppManagerProofs --------------------------
(***************************************************************************)
(* Proofs about AppManager, for any number of applications and requests:   *)
(* every answer meets the action in progress; and as long as no switch is  *)
(* begun in the middle of another one, no handler looks into an object     *)
(* that is not there, and at rest the application on top of the stack, and *)
(* no other, has the focus.                                                *)
(***************************************************************************)
EXTENDS AppManager, SequenceTheorems, WellFoundedInduction, TLAPS

\* The manager never starts an application that is starting already: the Pure
\* tests it (startApplication), and on the Bell no application delays its close,
\* so that no second confirmation comes for the same switch.  The only tasks with
\* WaitForResponseToClose are those of the Pure's messages application
\* (NewMessage.cpp:368 and 392).
StartsOnce == Product = "PurePhone" \/ Blocking = {}

-----------------------------------------------------------------------------
(***************************************************************************)
(* The phases of a switch.  The application t on top of the stack opens    *)
(* while another one, f, makes room: it gives up the focus or closes.  At  *)
(* the same time an application g may carry out the action in progress.    *)
(***************************************************************************)

Openings == {"boot", "waiting", "started", "initialised", "switching", "confirmed",
             "told", "quiet"}
Closings == {"none", "unfocusing", "left", "closing", "finalizing", "confirming",
             "leaving", "exiting"}
Errands == {"none", "sent", "answered"}

\* The opening has come to its end: t has the focus, and the manager knows.
AtRest == {"told", "quiet"}

Customs == {"Custom", "CustomKeep"}
Replies == {"Initialised", "SwitchConfirmation", "CloseConfirmation", "FinalizingClose",
            "CloseRequest", "ActionHandled"}

\* The messages to the manager that a phase leaves in its mailbox, besides
\* requests; n: f has announced that it closes later.
MailDue(o, c, k, n) ==
    {y \in Replies :
        \/ y = "Initialised" /\ o = "initialised"
        \/ y = "SwitchConfirmation" /\ (o = "confirmed" \/ c = "left")
        \/ y = "CloseConfirmation" /\ c = "confirming"
        \/ y = "FinalizingClose" /\ n
        \/ y = "CloseRequest" /\ c = "leaving"
        \/ y = "ActionHandled" /\ k = "answered"}

\* The messages in the inbox of an application a.
InboxDue(a, t, f, g, o, c, k) ==
    {m \in AppMessages :
        \/ m = "Start" /\ a = t /\ o = "started"
        \/ m = "Switch" /\ a = t /\ o \in {"switching", "told"}
        \/ m = "LostFocus" /\ a = f /\ c = "unfocusing"
        \/ m = "Close" /\ a = f /\ c = "closing"
        \/ m = "Exit" /\ a = f /\ c = "exiting"
        \/ m = "Action" /\ a = g /\ k = "sent"}

Mails == [type : ManagerMessages, app : Apps \cup {NoApp}]
Objects == [Apps -> [state : AppState, inbox : Seq(AppMessages), alive : BOOLEAN]]
Stacks == Seq([app : Apps, closeable : BOOLEAN])

\* The mailbox q holds each reply of Y once and no other.  Initialised comes
\* from t, what concerns a closing from f, the confirmation of a switch from s.
\* Requests are anywhere in between.
Mail(q, Y, t, f, s) ==
    /\ \A y \in Replies : y \in Y <=> \E i \in DOMAIN q : q[i].type = y
    /\ \A i, j \in DOMAIN q : q[i].type = q[j].type => i = j \/ q[i].type \notin Replies
    /\ \A i, j \in DOMAIN q :
           q[i].type = "FinalizingClose" /\ q[j].type = "CloseConfirmation" => i < j
    /\ \A i \in DOMAIN q :
           /\ q[i].type = "Initialised" => q[i].app = t
           /\ q[i].type \in {"CloseConfirmation", "FinalizingClose", "CloseRequest"} =>
                  q[i].app = f
           /\ q[i].type = "SwitchConfirmation" => q[i].app = s
           /\ q[i].type \in RequestKinds => q[i].app \in Apps

\* An inbox q holds each message of S once and no other, Exit as the last.
Box(q, S) ==
    /\ \A m \in AppMessages : m \in S <=> \E i \in DOMAIN q : q[i] = m
    /\ \A i, j \in DOMAIN q : q[i] = q[j] => i = j
    /\ \A i \in DOMAIN q : q[i] = "Exit" => i = Len(q)

\* The application on top: its state s, and whether it is alive.
TopIs(o, s, alive) ==
    /\ o = "boot" => ~ alive
    /\ o = "waiting" => (alive => s = "ACTIVE_BACKGROUND")
    /\ o \notin {"boot", "waiting"} => alive
    /\ o = "started" => s = "DEACTIVATED"
    /\ o = "initialised" => s = "INITIALIZING"
    /\ o = "switching" => s \in {"ACTIVATING", "ACTIVE_BACKGROUND"}
    /\ o \in {"confirmed", "told", "quiet"} => s = "ACTIVE_FORGROUND"

\* The application that makes room.
LeaverIs(c, s) ==
    /\ c \in {"unfocusing", "closing"} => s = "ACTIVE_FORGROUND"
    /\ c = "left" => s = "ACTIVE_BACKGROUND"
    /\ c = "finalizing" => s = "FINALIZING_CLOSE"
    /\ c = "confirming" => s = "DEACTIVATING"
    /\ c \in {"leaving", "exiting"} => s = "DEACTIVATED"

AppIs(a, s, alive, t, f, o, c) ==
    /\ a = t => TopIs(o, s, alive)
    /\ a # t /\ a = f /\ c # "none" => alive /\ LeaverIs(c, s)
    /\ a # t /\ (a # f \/ c = "none") => (alive => s = "ACTIVE_BACKGROUND")

\* All applications: their states and their inboxes.
People(ob, t, f, g, o, c, k) ==
    /\ \A a \in Apps : AppIs(a, ob[a].state, ob[a].alive, t, f, o, c)
    /\ \A a \in Apps : Box(ob[a].inbox, InboxDue(a, t, f, g, o, c, k))
    /\ k = "sent" => ob[g].alive

\* How the phases go together.
Shape(t, f, o, c, n) ==
    /\ c # "none" => f # t
    /\ o = "waiting" => n \/ c \in {"unfocusing", "left", "closing", "confirming"}
    /\ n \/ c \in {"unfocusing", "left", "closing"} => o = "waiting"
    /\ n => c \in {"finalizing", "confirming"}
    /\ o = "boot" => c = "none"
    /\ c = "finalizing" \/ (c = "confirming" /\ (n \/ o # "waiting")) => f \in Blocking
    /\ ~ (o = "started" /\ c = "exiting")

\* What the manager keeps of it.
Stage(st, sk, wt, t, f, o, c) ==
    /\ o = "boot" <=> sk = <<>>
    /\ sk # <<>> => sk[1].app = t
    /\ o = "waiting" => st = IF c \in {"unfocusing", "left"}
                             THEN "AwaitingLostFocusConfirmation"
                             ELSE "AwaitingCloseConfirmation"
    /\ o \in {"switching", "confirmed"} => st = "AwaitingFocusConfirmation"
    /\ o \in {"boot", "told", "quiet"} => st = "Running"
    /\ wt = IF o = "started" THEN t ELSE IF c = "exiting" THEN f ELSE NoApp
    /\ c \in {"closing", "finalizing", "confirming"} =>
           /\ f \in Closeable
           /\ \A i \in DOMAIN sk : sk[i].app = f => sk[i].closeable

\* Switches and steps back do not go through the registry.
Acts(ac) == \A j \in DOMAIN ac : ac[j].kind \in Customs \cup {"Launch", "Popup"}

\* The registry ac, with the action in progress at p and the loop at i: a launch
\* in progress is the opening of t, what waits is looked at again when the
\* opening or the errand comes to its end, and the first request is that for
\* the root application.
Registry(ac, p, i, q, t, o, k) ==
    /\ i # 0 => p = 0
    /\ Acts(ac)
    /\ p # 0 /\ ac[p].kind = "Launch" => ac[p].app = t /\ o \notin AtRest
    /\ i = 0 /\ p = 0 /\ ac # <<>> => o \notin AtRest
    /\ i > 1 => o \notin AtRest
    /\ k # "none" <=> p # 0 /\ ac[p].kind \in Customs \cup {"Popup"}
    /\ o = "boot" =>
           \/ q # <<>> /\ q[1] = Msg("Launch", Root) /\ ac = <<>> /\ i = 0
           \/ i = 1 /\ ac = <<[kind |-> "Launch", app |-> Root]>>

Phase(t, f, g, o, c, k, n) ==
    /\ Stage(state, stack, wait, t, f, o, c)
    /\ Shape(t, f, o, c, n)
    /\ People(object, t, f, g, o, c, k)
    /\ Mail(mailbox, MailDue(o, c, k, n), t, f, IF o = "confirmed" THEN t ELSE f)
    /\ Registry(actions, pending, it, mailbox, t, o, k)
    /\ it # 0 => wait = NoApp

IInv ==
    /\ TypeOK
    /\ fault = {}
    /\ \E t, f, g \in Apps : \E o \in Openings, c \in Closings, k \in Errands, n \in BOOLEAN :
           Phase(t, f, g, o, c, k, n)

-----------------------------------------------------------------------------
(***************************************************************************)
(* Mailboxes and inboxes.                                                  *)
(***************************************************************************)

\* The elements of a queue have its type.
LEMMA ElementType ==
    ASSUME NEW S, NEW q \in Seq(S), NEW i \in DOMAIN q
    PROVE  q[i] \in S
  OBVIOUS

\* Positions of a queue without its first element.
LEMMA TailPositions ==
    ASSUME NEW S, NEW q \in Seq(S), q # <<>>
    PROVE  /\ Head(q) = q[1] /\ 1 \in DOMAIN q /\ Head(q) \in S
           /\ Tail(q) \in Seq(S)
           /\ \A i \in DOMAIN Tail(q) : i + 1 \in DOMAIN q /\ Tail(q)[i] = q[i + 1]
           /\ \A i \in DOMAIN q : i # 1 => i - 1 \in DOMAIN Tail(q) /\ Tail(q)[i - 1] = q[i]
           /\ Len(Tail(q)) = Len(q) - 1 /\ Len(q) \in Nat
  OBVIOUS

\* Positions of a queue with one more element.
LEMMA AppendPositions ==
    ASSUME NEW S, NEW q \in Seq(S), NEW m \in S
    PROVE  /\ Append(q, m) \in Seq(S) /\ Append(q, m) # <<>>
           /\ DOMAIN Append(q, m) = DOMAIN q \cup {Len(q) + 1}
           /\ Append(q, m)[Len(q) + 1] = m
           /\ \A i \in DOMAIN q : i \in Nat /\ i > 0 /\ i <= Len(q) /\ Append(q, m)[i] = q[i]
           /\ Len(Append(q, m)) = Len(q) + 1 /\ Len(q) \in Nat
  OBVIOUS

\* The manager takes the first message (Service loop): what it takes is due,
\* and is due no longer.
LEMMA MailTail ==
    ASSUME NEW q \in Seq(Mails), q # <<>>, NEW Y, NEW Z, NEW t, NEW f, NEW s,
           Mail(q, Y, t, f, s),
           \A y \in Replies : y \in Z <=> y \in Y /\ y # Head(q).type
    PROVE  Mail(Tail(q), Z, t, f, s)
<1>1. PICK r : r = Tail(q)
  OBVIOUS
<1>2. /\ Head(q) = q[1] /\ 1 \in DOMAIN q
      /\ \A i \in DOMAIN r : i + 1 \in DOMAIN q /\ r[i] = q[i + 1] /\ i \in Nat /\ i > 0
      /\ \A i \in DOMAIN q : i # 1 => i - 1 \in DOMAIN r /\ r[i - 1] = q[i]
  BY <1>1, TailPositions
<1>3. ASSUME NEW y \in Replies PROVE y \in Z <=> \E i \in DOMAIN r : r[i].type = y
  <2>1. CASE y # q[1].type
    <3>1. y \in Z <=> \E i \in DOMAIN q : q[i].type = y
      BY <1>2, <2>1 DEF Mail
    <3>2. ASSUME NEW i \in DOMAIN q, q[i].type = y PROVE \E j \in DOMAIN r : r[j].type = y
      BY <1>2, <2>1, <3>2
    <3>3. ASSUME NEW i \in DOMAIN r, r[i].type = y PROVE \E j \in DOMAIN q : q[j].type = y
      BY <1>2, <3>3
    <3> QED
      BY <3>1, <3>2, <3>3
  <2>2. CASE y = q[1].type
    <3>1. y \notin Z
      BY <1>2, <2>2
    <3>2. ASSUME NEW i \in DOMAIN r, r[i].type = y PROVE FALSE
      <4>1. i + 1 \in DOMAIN q /\ q[i + 1].type = q[1].type /\ i + 1 # 1
        BY <1>2, <2>2, <3>2
      <4> QED
        BY <4>1, <1>2, <2>2 DEF Mail
    <3> QED
      BY <3>1, <3>2
  <2> QED
    BY <2>1, <2>2
<1>4. ASSUME NEW i \in DOMAIN r, NEW j \in DOMAIN r
      PROVE  /\ r[i].type = r[j].type => i = j \/ r[i].type \notin Replies
             /\ r[i].type = "FinalizingClose" /\ r[j].type = "CloseConfirmation" => i < j
  <2>1. i + 1 \in DOMAIN q /\ j + 1 \in DOMAIN q /\ r[i] = q[i + 1] /\ r[j] = q[j + 1]
        /\ i \in Nat /\ j \in Nat
    BY <1>2
  <2> QED
    BY <2>1 DEF Mail
<1>5. ASSUME NEW i \in DOMAIN r
      PROVE  /\ r[i].type = "Initialised" => r[i].app = t
             /\ r[i].type \in {"CloseConfirmation", "FinalizingClose", "CloseRequest"} =>
                    r[i].app = f
             /\ r[i].type = "SwitchConfirmation" => r[i].app = s
             /\ r[i].type \in RequestKinds => r[i].app \in Apps
  BY <1>2 DEF Mail
<1>6. Mail(r, Z, t, f, s)
  BY <1>3, <1>4, <1>5 DEF Mail
<1> QED
  BY <1>1, <1>6

\* The first message in the mailbox is a request or a reply that is due, from
\* the application it should come from.
LEMMA MailHead ==
    ASSUME NEW q \in Seq(Mails), q # <<>>, NEW Y, NEW t, NEW f, NEW s, Mail(q, Y, t, f, s)
    PROVE  /\ Head(q).type \in Replies => Head(q).type \in Y
           /\ Head(q).type = "Initialised" => Head(q).app = t
           /\ Head(q).type \in {"CloseConfirmation", "FinalizingClose", "CloseRequest"} =>
                  Head(q).app = f
           /\ Head(q).type = "SwitchConfirmation" => Head(q).app = s
           /\ Head(q).type \in RequestKinds => Head(q).app \in Apps
           /\ Head(q).type = "CloseConfirmation" => "FinalizingClose" \notin Y
<1>1. /\ Head(q) = q[1] /\ 1 \in DOMAIN q
      /\ \A i \in DOMAIN Tail(q) : i + 1 \in DOMAIN q /\ Tail(q)[i] = q[i + 1] /\ i \in Nat /\ i > 0
      /\ Tail(q) \in Seq(Mails)
  BY TailPositions
<1>3. Head(q).type = "CloseConfirmation" => "FinalizingClose" \notin Y
  <2> SUFFICES ASSUME q[1].type = "CloseConfirmation", "FinalizingClose" \in Y PROVE FALSE
    BY <1>1
  <2>1. PICK i \in DOMAIN q : q[i].type = "FinalizingClose"
    BY DEF Mail, Replies
  <2>2. i < 1 /\ i \in Nat /\ i > 0
    BY <1>1, <2>1 DEF Mail
  <2> QED
    BY <2>2
<1>4. Head(q).type \in Replies => Head(q).type \in Y
  BY <1>1 DEF Mail
<1> QED
  BY <1>1, <1>3, <1>4 DEF Mail

\* A reply arrives in the manager's mailbox.
LEMMA MailAppend ==
    ASSUME NEW q \in Seq(Mails), NEW m \in Mails, NEW Y, NEW Z, NEW t, NEW f, NEW s,
           Mail(q, Y, t, f, s), m.type \in Replies, m.type \notin Y,
           m.type = "Initialised" => m.app = t,
           m.type \in {"CloseConfirmation", "FinalizingClose", "CloseRequest"} => m.app = f,
           m.type = "SwitchConfirmation" => m.app = s,
           m.type = "FinalizingClose" => "CloseConfirmation" \notin Y,
           \A y \in Replies : y \in Z <=> y \in Y \/ y = m.type
    PROVE  Mail(Append(q, m), Z, t, f, s)
<1>1. PICK r : r = Append(q, m)
  OBVIOUS
<1>2. PICK l \in Nat : l = Len(q) + 1
  OBVIOUS
<1>3. /\ DOMAIN r = DOMAIN q \cup {l} /\ r[l] = m
      /\ \A i \in DOMAIN q : i \in Nat /\ i > 0 /\ i < l /\ r[i] = q[i]
  BY <1>1, <1>2, AppendPositions
<1>4. \A i \in DOMAIN q : q[i].type # m.type
  BY DEF Mail
<1>5. ASSUME NEW y \in Replies PROVE y \in Z <=> \E i \in DOMAIN r : r[i].type = y
  BY <1>3 DEF Mail
<1>6. ASSUME NEW i \in DOMAIN r, NEW j \in DOMAIN r
      PROVE  r[i].type = r[j].type => i = j \/ r[i].type \notin Replies
  BY <1>3, <1>4 DEF Mail
<1>7. ASSUME NEW i \in DOMAIN r, NEW j \in DOMAIN r,
             r[i].type = "FinalizingClose", r[j].type = "CloseConfirmation"
      PROVE  i < j
  <2>1. CASE i = l
    BY <1>3, <1>7, <2>1 DEF Mail, Replies
  <2>2. CASE i \in DOMAIN q
    BY <1>3, <1>7, <2>2 DEF Mail
  <2> QED
    BY <2>1, <2>2, <1>3
<1>8. ASSUME NEW i \in DOMAIN r
      PROVE  /\ r[i].type = "Initialised" => r[i].app = t
             /\ r[i].type \in {"CloseConfirmation", "FinalizingClose", "CloseRequest"} =>
                    r[i].app = f
             /\ r[i].type = "SwitchConfirmation" => r[i].app = s
             /\ r[i].type \in RequestKinds => r[i].app \in Apps
  BY <1>3 DEF Mail, Replies, RequestKinds
<1>9. Mail(r, Z, t, f, s)
  BY <1>5, <1>6, <1>7, <1>8 DEF Mail
<1> QED
  BY <1>1, <1>9

\* A request that is first in q is first in r.
Alike(q, r) ==
    q # <<>> /\ q[1].type \in RequestKinds => r # <<>> /\ r[1] = q[1]

\* What comes last leaves the first message where it is.
LEMMA AppendAlike ==
    ASSUME NEW q \in Seq(Mails), NEW m \in Mails
    PROVE  Alike(q, Append(q, m))
<1>1. q = <<>> \/ 1 \in DOMAIN q
  OBVIOUS
<1> QED
  BY <1>1, AppendPositions DEF Alike

\* No request is lost when a reply is taken.
LEMMA TailAlike ==
    ASSUME NEW q \in Seq(Mails), q # <<>>, Head(q).type \in Replies
    PROVE  Alike(q, Tail(q))
<1>1. Head(q) = q[1]
  OBVIOUS
<1> QED
  BY <1>1 DEF Alike, Replies, RequestKinds

\* A request arrives, at any time.
LEMMA MailRequest ==
    ASSUME NEW q \in Seq(Mails), NEW m \in Mails, NEW Y, NEW t, NEW f, NEW s,
           Mail(q, Y, t, f, s), m.type \in RequestKinds, m.app \in Apps
    PROVE  Mail(Append(q, m), Y, t, f, s)
<1>1. PICK r : r = Append(q, m)
  OBVIOUS
<1>2. PICK l \in Nat : l = Len(q) + 1
  OBVIOUS
<1>3. /\ DOMAIN r = DOMAIN q \cup {l} /\ r[l] = m
      /\ \A i \in DOMAIN q : i \in Nat /\ i > 0 /\ i < l /\ r[i] = q[i]
  BY <1>1, <1>2, AppendPositions
<1>5. m.type \notin Replies
  BY DEF Replies, RequestKinds
<1>6. ASSUME NEW y \in Replies PROVE y \in Y <=> \E i \in DOMAIN r : r[i].type = y
  BY <1>3, <1>5 DEF Mail
<1>7. ASSUME NEW i \in DOMAIN r, NEW j \in DOMAIN r
      PROVE  r[i].type = r[j].type => i = j \/ r[i].type \notin Replies
  BY <1>3, <1>5 DEF Mail
<1>8. ASSUME NEW i \in DOMAIN r, NEW j \in DOMAIN r,
             r[i].type = "FinalizingClose", r[j].type = "CloseConfirmation"
      PROVE  i < j
  BY <1>3, <1>5, <1>8 DEF Mail, Replies
<1>9. ASSUME NEW i \in DOMAIN r
      PROVE  /\ r[i].type = "Initialised" => r[i].app = t
             /\ r[i].type \in {"CloseConfirmation", "FinalizingClose", "CloseRequest"} =>
                    r[i].app = f
             /\ r[i].type = "SwitchConfirmation" => r[i].app = s
             /\ r[i].type \in RequestKinds => r[i].app \in Apps
  BY <1>3, <1>5 DEF Mail, Replies
<1>10. Mail(r, Y, t, f, s)
  BY <1>6, <1>7, <1>8, <1>9 DEF Mail
<1> QED
  BY <1>1, <1>10

\* Who sent a reply matters only while it is there.
LEMMA MailNames ==
    ASSUME NEW q, NEW Y, NEW t, NEW f, NEW s, NEW tt, NEW ff, NEW ss,
           Mail(q, Y, t, f, s),
           "Initialised" \in Y => tt = t,
           "CloseConfirmation" \in Y \/ "FinalizingClose" \in Y \/ "CloseRequest" \in Y => ff = f,
           "SwitchConfirmation" \in Y => ss = s
    PROVE  Mail(q, Y, tt, ff, ss)
<1>1. ASSUME NEW i \in DOMAIN q
      PROVE  /\ q[i].type = "Initialised" => q[i].app = tt
             /\ q[i].type \in {"CloseConfirmation", "FinalizingClose", "CloseRequest"} =>
                    q[i].app = ff
             /\ q[i].type = "SwitchConfirmation" => q[i].app = ss
  BY DEF Mail, Replies
<1> QED
  BY <1>1 DEF Mail

\* An empty mailbox owes nothing.
LEMMA MailEmpty ==
    ASSUME NEW Y, NEW t, NEW f, NEW s, Mail(<<>>, Y, t, f, s)
    PROVE  \A y \in Replies : y \notin Y
  BY DEF Mail

\* An application takes its first message; Exit is the last one it gets.
LEMMA BoxTail ==
    ASSUME NEW q \in Seq(AppMessages), q # <<>>, NEW S, NEW R, Box(q, S),
           \A m \in AppMessages : m \in R <=> m \in S /\ m # Head(q)
    PROVE  Box(Tail(q), R)
<1>1. PICK r : r = Tail(q)
  OBVIOUS
<1>2. /\ Head(q) = q[1] /\ 1 \in DOMAIN q
      /\ \A i \in DOMAIN r : i + 1 \in DOMAIN q /\ r[i] = q[i + 1] /\ i \in Nat /\ i > 0
      /\ \A i \in DOMAIN q : i # 1 => i - 1 \in DOMAIN r /\ r[i - 1] = q[i]
      /\ Len(r) = Len(q) - 1 /\ Len(q) \in Nat
  BY <1>1, TailPositions
<1>3. ASSUME NEW m \in AppMessages PROVE m \in R <=> \E i \in DOMAIN r : r[i] = m
  <2>1. CASE m # q[1]
    <3>1. m \in R <=> \E i \in DOMAIN q : q[i] = m
      BY <1>2, <2>1 DEF Box
    <3>2. ASSUME NEW i \in DOMAIN q, q[i] = m PROVE \E j \in DOMAIN r : r[j] = m
      BY <1>2, <2>1, <3>2
    <3>3. ASSUME NEW i \in DOMAIN r, r[i] = m PROVE \E j \in DOMAIN q : q[j] = m
      BY <1>2, <3>3
    <3> QED
      BY <3>1, <3>2, <3>3
  <2>2. CASE m = q[1]
    <3>1. ASSUME NEW i \in DOMAIN r, r[i] = m PROVE FALSE
      <4>1. i + 1 \in DOMAIN q /\ q[i + 1] = q[1] /\ i + 1 # 1
        BY <1>2, <2>2, <3>1
      <4> QED
        BY <4>1, <1>2 DEF Box
    <3> QED
      BY <1>2, <2>2, <3>1
  <2> QED
    BY <2>1, <2>2
<1>4. ASSUME NEW i \in DOMAIN r, NEW j \in DOMAIN r, r[i] = r[j] PROVE i = j
  <2>1. i + 1 \in DOMAIN q /\ j + 1 \in DOMAIN q /\ q[i + 1] = q[j + 1] /\ i \in Nat /\ j \in Nat
    BY <1>2, <1>4
  <2>2. i + 1 = j + 1
    BY <2>1 DEF Box
  <2> QED
    BY <2>1, <2>2
<1>5. ASSUME NEW i \in DOMAIN r, r[i] = "Exit" PROVE i = Len(r)
  <2>1. i + 1 = Len(q) /\ i \in Nat
    BY <1>2, <1>5 DEF Box
  <2> QED
    BY <2>1, <1>2
<1>6. Box(r, R)
  BY <1>3, <1>4, <1>5 DEF Box
<1> QED
  BY <1>1, <1>6

\* What an application finds first is due, and Exit comes alone.
LEMMA BoxHead ==
    ASSUME NEW q \in Seq(AppMessages), q # <<>>, NEW S, Box(q, S)
    PROVE  /\ Head(q) \in AppMessages /\ Head(q) \in S
           /\ Head(q) = "Exit" => \A m \in AppMessages : m \in S => m = "Exit"
<1>1. Head(q) = q[1] /\ 1 \in DOMAIN q /\ q[1] \in AppMessages
  OBVIOUS
<1>2. Head(q) \in S
  BY <1>1 DEF Box
<1>3. ASSUME Head(q) = "Exit", NEW m \in AppMessages, m \in S PROVE m = "Exit"
  <2>1. Len(q) = 1
    BY <1>1, <1>3 DEF Box
  <2>2. PICK i \in DOMAIN q : q[i] = m
    BY <1>3 DEF Box
  <2>3. i = 1
    BY <2>1, <2>2
  <2> QED
    BY <1>1, <1>3, <2>2, <2>3
<1> QED
  BY <1>1, <1>2, <1>3

\* A message arrives in an inbox.
LEMMA BoxAppend ==
    ASSUME NEW q \in Seq(AppMessages), NEW m \in AppMessages, NEW S, NEW R, Box(q, S),
           m \notin S, "Exit" \notin S,
           \A x \in AppMessages : x \in R <=> x \in S \/ x = m
    PROVE  Box(Append(q, m), R)
<1>1. PICK r : r = Append(q, m)
  OBVIOUS
<1>2. PICK l \in Nat : l = Len(q) + 1
  OBVIOUS
<1>3. /\ DOMAIN r = DOMAIN q \cup {l} /\ r[l] = m /\ Len(r) = l
      /\ \A i \in DOMAIN q : i \in Nat /\ i > 0 /\ i < l /\ r[i] = q[i]
  BY <1>1, <1>2, AppendPositions
<1>4. \A i \in DOMAIN q : q[i] # m /\ q[i] # "Exit"
  BY DEF Box, AppMessages
<1>5. ASSUME NEW x \in AppMessages PROVE x \in R <=> \E i \in DOMAIN r : r[i] = x
  BY <1>3 DEF Box
<1>6. ASSUME NEW i \in DOMAIN r, NEW j \in DOMAIN r, r[i] = r[j] PROVE i = j
  BY <1>3, <1>4, <1>6 DEF Box
<1>7. ASSUME NEW i \in DOMAIN r, r[i] = "Exit" PROVE i = Len(r)
  BY <1>3, <1>4, <1>7
<1>8. Box(r, R)
  BY <1>5, <1>6, <1>7 DEF Box
<1> QED
  BY <1>1, <1>8

\* An empty inbox, and the inbox of a new application (ApplicationLauncher).
LEMMA BoxStart ==
    ASSUME NEW S
    PROVE  /\ Box(<<>>, S) <=> \A m \in AppMessages : m \notin S
           /\ (\A m \in AppMessages : m \in S <=> m = "Start") => Box(<<"Start">>, S)
           /\ <<>> \in Seq(AppMessages) /\ <<"Start">> \in Seq(AppMessages)
<1>1. Box(<<>>, S) <=> \A m \in AppMessages : m \notin S
  BY DEF Box
<1>2. <<"Start">> \in Seq(AppMessages)
  BY DEF AppMessages
<1>3. DOMAIN <<"Start">> = {1} /\ <<"Start">>[1] = "Start" /\ Len(<<"Start">>) = 1
  OBVIOUS
<1>4. ASSUME \A m \in AppMessages : m \in S <=> m = "Start" PROVE Box(<<"Start">>, S)
  BY <1>3, <1>4 DEF Box, AppMessages
<1> QED
  BY <1>1, <1>2, <1>4

-----------------------------------------------------------------------------
(***************************************************************************)
(* The parts of a handler.                                                 *)
(***************************************************************************)

Worlds == [state : ManagerState, stack : Stacks, object : Objects, wait : Apps \cup {NoApp},
           mailbox : Seq(Mails), fault : SUBSET {"action", "handle", "object"}]

\* ob2 is ob but for the living application a.
Updated(ob, ob2, a, s, q) ==
    /\ ob2 \in Objects
    /\ ob2[a].state = s /\ ob2[a].inbox = q /\ ob2[a].alive
    /\ \A b \in Apps : b # a => ob2[b] = ob[b]

\* v is w but for the objects.
OnlyObjects(v, w) ==
    /\ v \in Worlds
    /\ v.state = w.state /\ v.stack = w.stack /\ v.wait = w.wait
    /\ v.mailbox = w.mailbox /\ v.fault = w.fault

\* A message to a living application changes its inbox.
LEMMA SendToDoes ==
    ASSUME NEW w \in Worlds, NEW a \in Apps, NEW m \in AppMessages, w.object[a].alive
    PROVE  /\ OnlyObjects(SendTo(w, a, m), w)
           /\ Updated(w.object, SendTo(w, a, m).object, a, w.object[a].state,
                      Append(w.object[a].inbox, m))
<1>1. PICK v : v = SendTo(w, a, m)
  OBVIOUS
<1>2. v = [w EXCEPT !.object[a].inbox = Append(@, m)]
  BY <1>1 DEF SendTo
<1>3. w.object \in Objects /\ w.object[a].inbox \in Seq(AppMessages)
  BY DEF Worlds, Objects
<1>4. Append(w.object[a].inbox, m) \in Seq(AppMessages)
  BY <1>3
<1>5. v.object = [w.object EXCEPT ![a].inbox = Append(@, m)]
  BY <1>2 DEF Worlds
<1>6. v.object \in Objects
  <2>1. PICK O : O = [state : AppState, inbox : Seq(AppMessages), alive : BOOLEAN]
    OBVIOUS
  <2>2. PICK r : r = [w.object[a] EXCEPT !.inbox = Append(@, m)]
    OBVIOUS
  <2>3. w.object \in [Apps -> O] /\ w.object[a] \in O
    BY <1>3, <2>1 DEF Objects
  <2>4. r \in O
    BY <1>4, <2>1, <2>2, <2>3
  <2>5. v.object = [w.object EXCEPT ![a] = r]
    BY <1>5, <2>2
  <2> QED
    BY <2>1, <2>3, <2>4, <2>5 DEF Objects
<1>7. v = [w EXCEPT !.object = v.object]
  BY <1>2, <1>5 DEF Worlds
<1>8. OnlyObjects(v, w)
  BY <1>6, <1>7 DEF OnlyObjects, Worlds
<1>9. Updated(w.object, v.object, a, w.object[a].state, Append(w.object[a].inbox, m))
  BY <1>3, <1>4, <1>5, <1>6 DEF Updated, Objects
<1> QED
  BY <1>1, <1>8, <1>9

\* The manager writes the state of a living application.
LEMMA SetStateDoes ==
    ASSUME NEW w \in Worlds, NEW a \in Apps, NEW s \in AppState, w.object[a].alive
    PROVE  /\ OnlyObjects(SetState(w, a, s), w)
           /\ Updated(w.object, SetState(w, a, s).object, a, s, w.object[a].inbox)
<1>1. PICK v : v = SetState(w, a, s)
  OBVIOUS
<1>2. v = [w EXCEPT !.object[a].state = s]
  BY <1>1 DEF SetState
<1>3. w.object \in Objects
  BY DEF Worlds
<1>5. v.object = [w.object EXCEPT ![a].state = s]
  BY <1>2 DEF Worlds
<1>6. v.object \in Objects
  <2>1. PICK O : O = [state : AppState, inbox : Seq(AppMessages), alive : BOOLEAN]
    OBVIOUS
  <2>2. PICK r : r = [w.object[a] EXCEPT !.state = s]
    OBVIOUS
  <2>3. w.object \in [Apps -> O] /\ w.object[a] \in O
    BY <1>3, <2>1 DEF Objects
  <2>4. r \in O
    BY <2>1, <2>2, <2>3
  <2>5. v.object = [w.object EXCEPT ![a] = r]
    BY <1>5, <2>2
  <2> QED
    BY <2>1, <2>3, <2>4, <2>5 DEF Objects
<1>7. v = [w EXCEPT !.object = v.object]
  BY <1>2, <1>5 DEF Worlds
<1>8. OnlyObjects(v, w)
  BY <1>6, <1>7 DEF OnlyObjects, Worlds
<1>9. Updated(w.object, v.object, a, s, w.object[a].inbox)
  BY <1>3, <1>5, <1>6 DEF Updated, Objects
<1> QED
  BY <1>1, <1>8, <1>9

\* A new object for an application that has none (ApplicationLauncherT::run).
LEMMA RunDoes ==
    ASSUME NEW w \in Worlds, NEW a \in Apps, ~ w.object[a].alive
    PROVE  /\ Run(w, a) \in Worlds
           /\ Run(w, a).state = w.state /\ Run(w, a).stack = w.stack /\ Run(w, a).wait = a
           /\ Run(w, a).mailbox = w.mailbox /\ Run(w, a).fault = w.fault
           /\ Updated(w.object, Run(w, a).object, a, "DEACTIVATED", <<"Start">>)
<1>1. PICK v : v = Run(w, a)
  OBVIOUS
<1>2. PICK n : n = [NoObject EXCEPT !.inbox = <<"Start">>, !.alive = TRUE]
  OBVIOUS
<1>3. n.state = "DEACTIVATED" /\ n.inbox = <<"Start">> /\ n.alive = TRUE
  BY <1>2 DEF NoObject
<1>4. v = [w EXCEPT !.object[a] = n, !.wait = a, !.fault = w.fault]
  BY <1>1, <1>2 DEF Run
<1>5. w.object \in Objects
  BY DEF Worlds
<1>6. n \in [state : AppState, inbox : Seq(AppMessages), alive : BOOLEAN]
  <2>1. NoObject \in [state : AppState, inbox : Seq(AppMessages), alive : BOOLEAN]
    BY BoxStart DEF AppState, NoObject
  <2> QED
    BY <1>2, <2>1, BoxStart
<1>7. v.object = [w.object EXCEPT ![a] = n]
  BY <1>4 DEF Worlds
<1>8. v.object \in Objects
  BY <1>5, <1>6, <1>7 DEF Objects
<1>9. v = [w EXCEPT !.object = v.object, !.wait = a, !.fault = w.fault]
  BY <1>4, <1>7 DEF Worlds
<1>10. /\ v \in Worlds /\ v.state = w.state /\ v.stack = w.stack /\ v.wait = a
       /\ v.mailbox = w.mailbox /\ v.fault = w.fault
  BY <1>8, <1>9 DEF Worlds
<1>11. Updated(w.object, v.object, a, "DEACTIVATED", <<"Start">>)
  BY <1>3, <1>5, <1>7, <1>8 DEF Updated, Objects
<1> QED
  BY <1>1, <1>10, <1>11

\* A phase says of a living application what is true of it.
Fits(a, s, q, t, f, g, o, c, k) ==
    AppIs(a, s, TRUE, t, f, o, c) /\ Box(q, InboxDue(a, t, f, g, o, c, k))

\* Of the others than a two phases say the same.
Others(ob, a, t, f, g, o, c, k, tt, ff, gg, oo, cc, kk) ==
    /\ \A b \in Apps : b # a =>
           /\ AppIs(b, ob[b].state, ob[b].alive, t, f, o, c) =>
                  AppIs(b, ob[b].state, ob[b].alive, tt, ff, oo, cc)
           /\ InboxDue(b, tt, ff, gg, oo, cc, kk) = InboxDue(b, t, f, g, o, c, k)
    /\ kk = "sent" => gg = a \/ (gg = g /\ k = "sent")

\* The people after one of them has changed: what a phase says of that one
\* has to be shown, of the others the new phase must say what the old did.
LEMMA PeopleMove ==
    ASSUME NEW ob, NEW ob2, NEW a \in Apps, NEW s, NEW q,
           Updated(ob, ob2, a, s, q),
           NEW t, NEW f, NEW g, NEW o, NEW c, NEW k,
           NEW tt, NEW ff, NEW gg, NEW oo, NEW cc, NEW kk, gg \in Apps,
           People(ob, t, f, g, o, c, k),
           Fits(a, s, q, tt, ff, gg, oo, cc, kk),
           Others(ob, a, t, f, g, o, c, k, tt, ff, gg, oo, cc, kk)
    PROVE  People(ob2, tt, ff, gg, oo, cc, kk)
<1>1. ASSUME NEW b \in Apps
      PROVE  /\ AppIs(b, ob2[b].state, ob2[b].alive, tt, ff, oo, cc)
             /\ Box(ob2[b].inbox, InboxDue(b, tt, ff, gg, oo, cc, kk))
  <2>1. CASE b = a
    BY <2>1 DEF Updated, Fits
  <2>2. CASE b # a
    <3>1. ob2[b] = ob[b]
      BY <2>2 DEF Updated
    <3>2. /\ AppIs(b, ob[b].state, ob[b].alive, t, f, o, c)
          /\ Box(ob[b].inbox, InboxDue(b, t, f, g, o, c, k))
      BY DEF People
    <3> QED
      BY <2>2, <3>1, <3>2 DEF Others
  <2> QED
    BY <2>1, <2>2
<1>2. kk = "sent" => ob2[gg].alive
  BY DEF Updated, People, Others
<1> QED
  BY <1>1, <1>2 DEF People

\* Two phases that agree on every message of an application's inbox.
LEMMA SameDue ==
    ASSUME NEW a, NEW t, NEW f, NEW g, NEW o, NEW c, NEW k,
           NEW tt, NEW ff, NEW gg, NEW oo, NEW cc, NEW kk,
           (a = tt /\ oo = "started") <=> (a = t /\ o = "started"),
           (a = tt /\ oo \in {"switching", "told"}) <=> (a = t /\ o \in {"switching", "told"}),
           (a = ff /\ cc = "unfocusing") <=> (a = f /\ c = "unfocusing"),
           (a = ff /\ cc = "closing") <=> (a = f /\ c = "closing"),
           (a = ff /\ cc = "exiting") <=> (a = f /\ c = "exiting"),
           (a = gg /\ kk = "sent") <=> (a = g /\ k = "sent")
    PROVE  InboxDue(a, tt, ff, gg, oo, cc, kk) = InboxDue(a, t, f, g, o, c, k)
  BY DEF InboxDue

\* The application on top is started: asked to come to the foreground if it
\* waits in the background, run if there is none (startApplication).
LEMMA StartOpens ==
    ASSUME NEW w \in Worlds, NEW t \in Apps, NEW f, NEW g \in Apps, NEW c, NEW k,
           People(w.object, t, f, g, "waiting", c, k), c # "none" => f # t
    PROVE  /\ StartApplication(w, t) \in Worlds
           /\ StartApplication(w, t).stack = w.stack
           /\ StartApplication(w, t).mailbox = w.mailbox
           /\ StartApplication(w, t).fault = w.fault
           /\ \/ /\ StartApplication(w, t).state = "AwaitingFocusConfirmation"
                 /\ StartApplication(w, t).wait = w.wait
                 /\ People(StartApplication(w, t).object, t, f, g, "switching", c, k)
              \/ /\ StartApplication(w, t).state = w.state
                 /\ StartApplication(w, t).wait = t
                 /\ People(StartApplication(w, t).object, t, f, g, "started", c, k)
<1>1. /\ w.object \in Objects /\ w.object[t].inbox \in Seq(AppMessages)
      /\ w.object[t].state \in AppState /\ w.object[t].alive \in BOOLEAN
  BY DEF Worlds, Objects
<1>2. /\ w.object[t].alive => w.object[t].state = "ACTIVE_BACKGROUND"
      /\ Box(w.object[t].inbox, InboxDue(t, t, f, g, "waiting", c, k))
  BY DEF People, AppIs, TopIs
<1>3. CASE w.object[t].alive
  <2>1. PICK v : v = SendTo(w, t, "Switch")
    OBVIOUS
  <2>2. /\ OnlyObjects(v, w)
        /\ Updated(w.object, v.object, t, "ACTIVE_BACKGROUND",
                   Append(w.object[t].inbox, "Switch"))
    BY <1>2, <1>3, <2>1, SendToDoes DEF AppMessages
  <2>3. PICK x : x = StartApplication(w, t)
    OBVIOUS
  <2>4. x = [v EXCEPT !.state = "AwaitingFocusConfirmation"]
    BY <1>2, <1>3, <2>1, <2>3 DEF StartApplication, StateOf
  <2>5. /\ x \in Worlds /\ x.stack = w.stack /\ x.mailbox = w.mailbox /\ x.fault = w.fault
        /\ x.wait = w.wait /\ x.state = "AwaitingFocusConfirmation" /\ x.object = v.object
    BY <2>2, <2>4 DEF OnlyObjects, Worlds, ManagerState
  <2>6. Box(Append(w.object[t].inbox, "Switch"), InboxDue(t, t, f, g, "switching", c, k))
    <3>1. \A m \in AppMessages : m \in InboxDue(t, t, f, g, "switching", c, k) <=>
              m \in InboxDue(t, t, f, g, "waiting", c, k) \/ m = "Switch"
      BY DEF InboxDue, AppMessages
    <3>2. /\ "Switch" \notin InboxDue(t, t, f, g, "waiting", c, k)
          /\ "Exit" \notin InboxDue(t, t, f, g, "waiting", c, k)
          /\ "Switch" \in AppMessages
      BY DEF InboxDue, AppMessages
    <3> QED
      BY <1>1, <1>2, <3>1, <3>2, BoxAppend
  <2>7. Fits(t, "ACTIVE_BACKGROUND", Append(w.object[t].inbox, "Switch"),
             t, f, g, "switching", c, k)
    BY <2>6 DEF Fits, AppIs, TopIs
  <2>8. Others(w.object, t, t, f, g, "waiting", c, k, t, f, g, "switching", c, k)
    <3>1. ASSUME NEW b \in Apps, b # t
          PROVE  InboxDue(b, t, f, g, "switching", c, k) = InboxDue(b, t, f, g, "waiting", c, k)
      BY <3>1, SameDue
    <3> QED
      BY <3>1 DEF Others, AppIs
  <2>9. People(v.object, t, f, g, "switching", c, k)
    BY <2>2, <2>7, <2>8, PeopleMove
  <2> QED
    BY <2>3, <2>5, <2>9
<1>4. CASE ~ w.object[t].alive
  <2>1. PICK x : x = StartApplication(w, t)
    OBVIOUS
  <2>2. x = Run(w, t)
    BY <1>4, <2>1 DEF StartApplication, StateOf, IsApplicationStarting
  <2>3. /\ x \in Worlds /\ x.stack = w.stack /\ x.mailbox = w.mailbox /\ x.fault = w.fault
        /\ x.wait = t /\ x.state = w.state
        /\ Updated(w.object, x.object, t, "DEACTIVATED", <<"Start">>)
    BY <1>4, <2>2, RunDoes
  <2>4. ~ (k = "sent" /\ g = t)
    BY <1>4 DEF People
  <2>5. Box(<<"Start">>, InboxDue(t, t, f, g, "started", c, k))
    <3>1. \A m \in AppMessages : m \in InboxDue(t, t, f, g, "started", c, k) <=> m = "Start"
      BY <2>4 DEF InboxDue, AppMessages
    <3> QED
      BY <3>1, BoxStart
  <2>6. Fits(t, "DEACTIVATED", <<"Start">>, t, f, g, "started", c, k)
    BY <2>5 DEF Fits, AppIs, TopIs
  <2>7. Others(w.object, t, t, f, g, "waiting", c, k, t, f, g, "started", c, k)
    <3>1. ASSUME NEW b \in Apps, b # t
          PROVE  InboxDue(b, t, f, g, "started", c, k) = InboxDue(b, t, f, g, "waiting", c, k)
      BY <3>1, SameDue
    <3> QED
      BY <3>1 DEF Others, AppIs
  <2>8. People(x.object, t, f, g, "started", c, k)
    BY <2>3, <2>6, <2>7, PeopleMove
  <2> QED
    BY <2>1, <2>3, <2>8
<1> QED
  BY <1>1, <1>3, <1>4

\* The application that is to be launched is the one on top
\* (getLaunchingApplication).
LEMMA LaunchesTop ==
    ASSUME NEW w \in Worlds, NEW t \in Apps, w.stack # <<>>, w.stack[1].app = t,
           StateOf(w, t) # "ACTIVE_FORGROUND"
    PROVE  GetLaunchingApplication(w) = t /\ StartLaunching(w) = StartApplication(w, t)
<1>1. GetLaunchingApplication(w) = t
  BY DEF GetLaunchingApplication
<1>2. t # NoApp
  BY AppManagerAssumption
<1> QED
  BY <1>1, <1>2 DEF StartLaunching

\* What getFocusedApplication finds has the focus, and it finds the
\* application on top first.
LEMMA FocusFound ==
    ASSUME NEW w \in Worlds
    PROVE  /\ GetFocusedApplication(w) # NoApp =>
                  /\ GetFocusedApplication(w) \in Apps
                  /\ w.object[GetFocusedApplication(w)].alive
                  /\ w.object[GetFocusedApplication(w)].state = "ACTIVE_FORGROUND"
           /\ w.stack = <<>> =>
                  GetFocusedApplication(w) = NoApp /\ GetStartingApplication(w) = NoApp
           /\ w.stack # <<>> /\ StateOf(w, w.stack[1].app) = "ACTIVE_FORGROUND" =>
                  GetFocusedApplication(w) = w.stack[1].app
<1> DEFINE found == {i \in DOMAIN w.stack : StateOf(w, w.stack[i].app) = "ACTIVE_FORGROUND"}
           least == CHOOSE i \in found : \A j \in found : i <= j
<1>1. GetFocusedApplication(w) = IF found = {} THEN NoApp ELSE w.stack[least].app
  BY DEF GetFocusedApplication, FirstInStack
<1>2. w.stack \in Stacks /\ DOMAIN w.stack = 1 .. Len(w.stack) /\ Len(w.stack) \in Nat
  BY DEF Worlds, Stacks
<1>3. w.stack = <<>> => found = {}
  BY <1>2
<1>4. w.stack = <<>> => GetStartingApplication(w) = NoApp
  BY <1>2 DEF GetStartingApplication, FirstInStack
<1>5. ASSUME found # {} PROVE least \in found
  <2>1. found \subseteq Nat
    BY <1>2
  <2>2. PICK i \in found : \A j \in found : ~ (<<j, i>> \in OpToRel(<, Nat))
    BY <1>5, <2>1, NatLessThanWellFounded, WFMin
  <2>3. \A j \in found : ~ (j < i)
    BY <2>1, <2>2 DEF OpToRel
  <2>4. \A j \in found : i <= j
    BY <2>1, <2>3
  <2> HIDE DEF found
  <2> QED
    BY <2>4
<1>6. ASSUME w.stack # <<>>, StateOf(w, w.stack[1].app) = "ACTIVE_FORGROUND"
      PROVE  found # {} /\ least = 1
  <2>1. 1 \in found /\ \A j \in found : 1 <= j /\ j \in Nat
    BY <1>2, <1>6
  <2> HIDE DEF found
  <2>2. \A i \in found : (\A j \in found : i <= j) <=> i = 1
    BY <2>1
  <2>3. \E i \in found : \A j \in found : i <= j
    BY <2>1
  <2>4. least \in found /\ \A j \in found : least <= j
    BY <2>3
  <2> QED
    BY <2>1, <2>2, <2>4
<1>7. ASSUME found # {}
      PROVE  /\ w.stack[least].app \in Apps /\ w.object[w.stack[least].app].alive
             /\ w.object[w.stack[least].app].state = "ACTIVE_FORGROUND"
  <2>1. PICK l : l = least
    OBVIOUS
  <2>2. l \in DOMAIN w.stack /\ StateOf(w, w.stack[l].app) = "ACTIVE_FORGROUND"
    BY <1>5, <1>7, <2>1
  <2> HIDE DEF least, found
  <2>3. w.stack[l].app \in Apps
    <3>1. w.stack[l] \in [app : Apps, closeable : BOOLEAN]
      BY <1>2, <2>2, ElementType DEF Stacks
    <3> QED
      BY <3>1
  <2> QED
    BY <2>1, <2>2, <2>3 DEF StateOf
<1> HIDE DEF found, least
<1> QED
  BY <1>1, <1>3, <1>4, <1>6, <1>7

-----------------------------------------------------------------------------
(***************************************************************************)
(* The invariant, taken apart and put together again.                      *)
(***************************************************************************)

WorldPhase(w, t, f, g, o, c, k, n) ==
    /\ w \in Worlds /\ w.fault = {}
    /\ Stage(w.state, w.stack, w.wait, t, f, o, c)
    /\ Shape(t, f, o, c, n)
    /\ People(w.object, t, f, g, o, c, k)
    /\ Mail(w.mailbox, MailDue(o, c, k, n), t, f, IF o = "confirmed" THEN t ELSE f)

RegistryTypes(ac, p, i) ==
    /\ ac \in Seq([kind : RequestKinds, app : Apps])
    /\ p \in 0 .. Len(ac) /\ i \in 0 .. Len(ac)

At(t, f, g, o, c, k, n) ==
    /\ WorldPhase(Now, t, f, g, o, c, k, n)
    /\ RegistryTypes(actions, pending, it)
    /\ Registry(actions, pending, it, mailbox, t, o, k)
    /\ it # 0 => wait = NoApp
    /\ requests \in 0 .. MaxRequests /\ crossings \in 0 .. MaxCrossings

\* The fields of the manager's state.
LEMMA NowFields ==
    /\ Now.state = state /\ Now.stack = stack /\ Now.object = object
    /\ Now.wait = wait /\ Now.mailbox = mailbox /\ Now.fault = fault
  BY DEF Now

\* The invariant holds if the manager and its applications are in a phase.
LEMMA Unpack ==
    ASSUME IInv
    PROVE  \E t, f, g \in Apps :
               \E o \in Openings, c \in Closings, k \in Errands, n \in BOOLEAN :
                   At(t, f, g, o, c, k, n)
<1>1. PICK t \in Apps, f \in Apps, g \in Apps, o \in Openings, c \in Closings, k \in Errands,
           n \in BOOLEAN : Phase(t, f, g, o, c, k, n)
  BY DEF IInv
<1>2. Now \in Worlds /\ Now.fault = {}
  BY DEF IInv, TypeOK, Now, Worlds, Stacks, Objects, Mails
<1>3. WorldPhase(Now, t, f, g, o, c, k, n)
  BY <1>1, <1>2, NowFields DEF WorldPhase, Phase
<1>4. /\ RegistryTypes(actions, pending, it)
      /\ requests \in 0 .. MaxRequests /\ crossings \in 0 .. MaxCrossings
  BY DEF IInv, TypeOK, RegistryTypes
<1>5. At(t, f, g, o, c, k, n)
  BY <1>1, <1>3, <1>4 DEF At, Phase
<1> QED
  BY <1>5

\* A step into a phase keeps the invariant.
LEMMA Settle ==
    ASSUME NEW v, NEW t \in Apps, NEW f \in Apps, NEW g \in Apps, NEW o \in Openings,
           NEW c \in Closings, NEW k \in Errands, NEW n \in BOOLEAN,
           WorldPhase(v, t, f, g, o, c, k, n), Become(v),
           RegistryTypes(actions', pending', it'),
           Registry(actions', pending', it', v.mailbox, t, o, k),
           it' # 0 => v.wait = NoApp, requests' \in 0 .. MaxRequests,
           crossings' \in 0 .. MaxCrossings
    PROVE  IInv'
<1>1. /\ v.state = state' /\ v.stack = stack' /\ v.object = object'
      /\ v.wait = wait' /\ v.mailbox = mailbox' /\ v.fault = fault'
  BY DEF Become
<1>2. v \in Worlds /\ v.fault = {}
  BY DEF WorldPhase
<1>3. TypeOK'
  BY <1>1, <1>2 DEF TypeOK, Worlds, Stacks, Objects, Mails, RegistryTypes
<1>4. Phase(t, f, g, o, c, k, n)'
  BY <1>1 DEF Phase, WorldPhase
<1> QED
  BY <1>1, <1>2, <1>3, <1>4 DEF IInv

\* The registry is as it was while the phases change, unless the opening comes
\* to its end.
LEMMA RegistryKeeps ==
    ASSUME NEW ac, NEW p, NEW i, NEW q, NEW t, NEW o, NEW k,
           Registry(ac, p, i, q, t, o, k), NEW r, NEW oo, NEW kk, Alike(q, r),
           o = "boot" <=> oo = "boot", oo \in AtRest <=> o \in AtRest,
           kk = "none" <=> k = "none"
    PROVE  Registry(ac, p, i, r, t, oo, kk)
  BY DEF Registry, Alike, Msg, RequestKinds

\* An application takes its first message and enters state s.
LEMMA PeopleTakes ==
    ASSUME NEW ob \in Objects, NEW ob2, NEW a \in Apps, NEW s, ob[a].inbox # <<>>,
           Updated(ob, ob2, a, s, Tail(ob[a].inbox)),
           NEW t, NEW f, NEW g \in Apps, NEW o, NEW c, NEW k, NEW oo, NEW cc, NEW kk,
           People(ob, t, f, g, o, c, k),
           AppIs(a, s, TRUE, t, f, oo, cc),
           \A m \in AppMessages : m \in InboxDue(a, t, f, g, oo, cc, kk) <=>
               m \in InboxDue(a, t, f, g, o, c, k) /\ m # Head(ob[a].inbox),
           Others(ob, a, t, f, g, o, c, k, t, f, g, oo, cc, kk)
    PROVE  People(ob2, t, f, g, oo, cc, kk)
<1>1. ob[a].inbox \in Seq(AppMessages) /\ Box(ob[a].inbox, InboxDue(a, t, f, g, o, c, k))
  BY DEF Objects, People
<1>2. Box(Tail(ob[a].inbox), InboxDue(a, t, f, g, oo, cc, kk))
  BY <1>1, BoxTail
<1>3. Fits(a, s, Tail(ob[a].inbox), t, f, g, oo, cc, kk)
  BY <1>2 DEF Fits
<1> QED
  BY <1>3, PeopleMove

-----------------------------------------------------------------------------
(***************************************************************************)
(* The steps of an application.                                            *)
(***************************************************************************)

\* An application that takes its first message, enters state s and sends the
\* manager a reply m, or none: the phases oo, cc, kk, nn that follow.
LEMMA AppMoves ==
    ASSUME NEW t \in Apps, NEW f \in Apps, NEW g \in Apps, NEW o \in Openings,
           NEW c \in Closings, NEW k \in Errands, NEW n \in BOOLEAN,
           At(t, f, g, o, c, k, n),
           NEW oo \in Openings, NEW cc \in Closings, NEW kk \in Errands, NEW nn \in BOOLEAN,
           People(object', t, f, g, oo, cc, kk), object' \in Objects,
           Mail(mailbox', MailDue(oo, cc, kk, nn), t, f, IF oo = "confirmed" THEN t ELSE f),
           mailbox' \in Seq(Mails), Alike(mailbox, mailbox'),
           Shape(t, f, oo, cc, nn), Stage(state, stack, wait', t, f, oo, cc),
           UNCHANGED <<state, stack, actions, pending, it, fault, requests, crossings>>,
           o = "boot" <=> oo = "boot", oo \in AtRest <=> o \in AtRest,
           kk = "none" <=> k = "none", wait' \in {wait, NoApp}
    PROVE  IInv'
<1>1. PICK v : v = [state |-> state, stack |-> stack, object |-> object', wait |-> wait',
                    mailbox |-> mailbox', fault |-> fault]
  OBVIOUS
<1>2. Now \in Worlds /\ Now.fault = {} /\ Mail(mailbox, MailDue(o, c, k, n), t, f, IF o = "confirmed" THEN t ELSE f)
  BY NowFields DEF At, WorldPhase
<1>3. /\ v.state = state /\ v.stack = stack /\ v.object = object' /\ v.wait = wait'
      /\ v.mailbox = mailbox' /\ v.fault = fault
  BY <1>1
<1>4. v \in Worlds
  <2>1. state \in ManagerState /\ stack \in Stacks /\ wait' \in Apps \cup {NoApp}
        /\ fault \in SUBSET {"action", "handle", "object"}
    BY <1>2, NowFields DEF Worlds
  <2> QED
    BY <1>1, <2>1 DEF Worlds
<1>5. WorldPhase(v, t, f, g, oo, cc, kk, nn)
  BY <1>2, <1>3, <1>4, NowFields DEF WorldPhase
<1>6. Become(v)
  BY <1>3 DEF Become
<1>7. Registry(actions', pending', it', v.mailbox, t, oo, kk)
  <2>1. Registry(actions, pending, it, mailbox', t, oo, kk)
    BY RegistryKeeps DEF At
  <2> QED
    BY <1>3, <2>1
<1>8. /\ RegistryTypes(actions', pending', it')
      /\ requests' \in 0 .. MaxRequests /\ crossings' \in 0 .. MaxCrossings
  BY DEF At
<1>9. it' # 0 => v.wait = NoApp
  BY <1>3 DEF At
<1> QED
  BY <1>5, <1>6, <1>7, <1>8, <1>9, Settle

\* What an application finds in its inbox is due to the phase, and what it
\* does with it changes its object only.
LEMMA Taken ==
    ASSUME NEW t \in Apps, NEW f \in Apps, NEW g \in Apps, NEW o \in Openings,
           NEW c \in Closings, NEW k \in Errands, NEW n \in BOOLEAN,
           At(t, f, g, o, c, k, n),
           NEW a \in Apps, NEW m, Receives(a, m)
    PROVE  /\ object \in Objects /\ object[a].alive /\ object[a].inbox # <<>>
           /\ object[a].inbox \in Seq(AppMessages) /\ Head(object[a].inbox) = m
           /\ m \in AppMessages /\ m \in InboxDue(a, t, f, g, o, c, k)
           /\ object[a].state \in AppState
           /\ AppIs(a, object[a].state, object[a].alive, t, f, o, c)
           /\ People(object, t, f, g, o, c, k)
           /\ mailbox \in Seq(Mails)
           /\ Mail(mailbox, MailDue(o, c, k, n), t, f, IF o = "confirmed" THEN t ELSE f)
           /\ Stage(state, stack, wait, t, f, o, c) /\ Shape(t, f, o, c, n)
           /\ UNCHANGED <<state, stack, actions, pending, it, fault, requests, crossings>>
<1>1. Now \in Worlds
  BY DEF At, WorldPhase
<1>2. object \in Objects /\ mailbox \in Seq(Mails)
  BY <1>1, NowFields DEF Worlds
<1>3. object[a].alive /\ object[a].inbox # <<>> /\ Head(object[a].inbox) = m
      /\ UNCHANGED <<state, stack, actions, pending, it, fault, requests, crossings>>
  BY DEF Receives, registry
<1>4. object[a].inbox \in Seq(AppMessages) /\ object[a].state \in AppState
  BY <1>2 DEF Objects
<1>5. People(object, t, f, g, o, c, k)
  BY NowFields DEF At, WorldPhase
<1>6. /\ AppIs(a, object[a].state, object[a].alive, t, f, o, c)
      /\ Box(object[a].inbox, InboxDue(a, t, f, g, o, c, k))
  BY <1>5 DEF People
<1>7. m \in AppMessages /\ m \in InboxDue(a, t, f, g, o, c, k)
  BY <1>3, <1>4, <1>6, BoxHead
<1>8. /\ Mail(mailbox, MailDue(o, c, k, n), t, f, IF o = "confirmed" THEN t ELSE f)
      /\ Stage(state, stack, wait, t, f, o, c) /\ Shape(t, f, o, c, n)
  BY NowFields DEF At, WorldPhase
<1> QED
  BY <1>2, <1>3, <1>4, <1>5, <1>6, <1>7, <1>8

\* It loses the message and enters the state s.
LEMMA TakenAnswer ==
    ASSUME object \in Objects, NEW a \in Apps, NEW s \in AppState, NEW ms,
           object[a].alive, object[a].inbox # <<>>, Answers(a, s, ms)
    PROVE  Updated(object, object', a, s, Tail(object[a].inbox)) /\ mailbox' = mailbox \o ms
<1>1. PICK r : r = Tail(object[a].inbox)
  OBVIOUS
<1>2. r \in Seq(AppMessages)
  BY <1>1 DEF Objects
<1>3. object' = [object EXCEPT ![a].state = s, ![a].inbox = r]
  BY <1>1 DEF Answers
<1>4. object' \in Objects
  BY <1>2, <1>3 DEF Objects
<1>5. Updated(object, object', a, s, r)
  BY <1>2, <1>3, <1>4 DEF Updated, Objects
<1> QED
  BY <1>1, <1>5 DEF Answers

\* The members of the sets in a phase.
LEMMA Members ==
    /\ "Start" \in AppMessages /\ "Switch" \in AppMessages /\ "LostFocus" \in AppMessages
    /\ "Close" \in AppMessages /\ "Exit" \in AppMessages /\ "Action" \in AppMessages
    /\ \A a \in Apps : \A y \in Replies : Msg(y, a) \in Mails
    /\ Msg("ActionHandled", NoApp) \in Mails
    /\ \A y, a : Msg(y, a).type = y /\ Msg(y, a).app = a
  BY DEF AppMessages, Replies, Mails, ManagerMessages, Msg, RequestKinds

\* From the phases o, c, k, n to the next ones, of the same applications.
Goes(t, f, o, k, oo, cc, kk, nn) ==
    /\ Shape(t, f, oo, cc, nn)
    /\ o = "boot" <=> oo = "boot"
    /\ oo \in AtRest <=> o \in AtRest
    /\ kk = "none" <=> k = "none"

\* The state s suits a.
Enters(a, s, t, f, oo, cc) == AppIs(a, s, TRUE, t, f, oo, cc)

\* The inbox of a is due to hold m before, and not after.
Takes(a, m, t, f, g, o, c, k, oo, cc, kk) ==
    \A l \in AppMessages :
        l \in InboxDue(a, t, f, g, oo, cc, kk) <=> l \in InboxDue(a, t, f, g, o, c, k) /\ l # m

\* The mailbox is due to hold the reply x after, and not before.
Sends(x, t, f, o, c, k, n, oo, cc, kk, nn) ==
    /\ x.type \in Replies /\ x.type \notin MailDue(o, c, k, n)
    /\ x.type = "Initialised" => x.app = t
    /\ x.type \in {"CloseConfirmation", "FinalizingClose", "CloseRequest"} => x.app = f
    /\ x.type = "SwitchConfirmation" => x.app = IF oo = "confirmed" THEN t ELSE f
    /\ x.type = "FinalizingClose" => "CloseConfirmation" \notin MailDue(o, c, k, n)
    /\ \A y \in Replies :
           y \in MailDue(oo, cc, kk, nn) <=> y \in MailDue(o, c, k, n) \/ y = x.type
    /\ "SwitchConfirmation" \in MailDue(o, c, k, n) => (oo = "confirmed" <=> o = "confirmed")

\* An application takes m from its inbox, enters state s and sends the reply
\* x, or none: the next phases expect the one and not the other any more.
LEMMA AppReplies ==
    ASSUME NEW t \in Apps, NEW f \in Apps, NEW g \in Apps, NEW o \in Openings,
           NEW c \in Closings, NEW k \in Errands, NEW n \in BOOLEAN,
           At(t, f, g, o, c, k, n),
           NEW oo \in Openings, NEW cc \in Closings, NEW kk \in Errands, NEW nn \in BOOLEAN,
           NEW a \in Apps, NEW m, NEW s \in AppState, NEW x \in Mails, Receives(a, m),
           Answers(a, s, <<x>>), wait' \in {wait, NoApp},
           Enters(a, s, t, f, oo, cc),
           Takes(a, m, t, f, g, o, c, k, oo, cc, kk),
           Others(object, a, t, f, g, o, c, k, t, f, g, oo, cc, kk),
           Sends(x, t, f, o, c, k, n, oo, cc, kk, nn),
           Stage(state, stack, wait', t, f, oo, cc), Goes(t, f, o, k, oo, cc, kk, nn)
    PROVE  IInv'
<1>1. /\ object \in Objects /\ object[a].inbox # <<>> /\ Head(object[a].inbox) = m
      /\ mailbox \in Seq(Mails) /\ object[a].alive
      /\ UNCHANGED <<state, stack, actions, pending, it, fault, requests, crossings>>
  BY Taken
<1>2. People(object, t, f, g, o, c, k)
  BY Taken
<1>3. Mail(mailbox, MailDue(o, c, k, n), t, f, IF o = "confirmed" THEN t ELSE f)
  BY Taken
<1>4. Updated(object, object', a, s, Tail(object[a].inbox)) /\ mailbox' = mailbox \o <<x>>
  BY <1>1, TakenAnswer
<1>5. mailbox' = Append(mailbox, x)
  BY <1>1, <1>4
<1>6. People(object', t, f, g, oo, cc, kk)
  BY <1>1, <1>2, <1>4, PeopleTakes DEF Takes, Enters
<1>7. Mail(mailbox', MailDue(oo, cc, kk, nn), t, f, IF oo = "confirmed" THEN t ELSE f)
  <2>1. PICK y : y = IF oo = "confirmed" THEN t ELSE f
    OBVIOUS
  <2>2. Mail(mailbox, MailDue(o, c, k, n), t, f, y)
    BY <1>3, <2>1, MailNames DEF Sends
  <2>3. Mail(Append(mailbox, x), MailDue(oo, cc, kk, nn), t, f, y)
    BY <1>1, <2>1, <2>2, MailAppend DEF Sends
  <2> QED
    BY <1>5, <2>1, <2>3
<1>8. mailbox' \in Seq(Mails) /\ Alike(mailbox, mailbox') /\ object' \in Objects
  <2>1. Append(mailbox, x) \in Seq(Mails)
    BY <1>1
  <2>2. Alike(mailbox, Append(mailbox, x))
    BY <1>1, AppendAlike DEF Sends
  <2> QED
    BY <1>4, <1>5, <2>1, <2>2 DEF Updated
<1> QED
  BY <1>1, <1>6, <1>7, <1>8, AppMoves DEF Goes

\* The same without a reply.
LEMMA AppKeepsSilent ==
    ASSUME NEW t \in Apps, NEW f \in Apps, NEW g \in Apps, NEW o \in Openings,
           NEW c \in Closings, NEW k \in Errands, NEW n \in BOOLEAN,
           At(t, f, g, o, c, k, n), NEW oo \in Openings,
           NEW a \in Apps, NEW m, NEW s \in AppState, Receives(a, m),
           Answers(a, s, <<>>), UNCHANGED wait,
           Enters(a, s, t, f, oo, c),
           Takes(a, m, t, f, g, o, c, k, oo, c, k),
           Others(object, a, t, f, g, o, c, k, t, f, g, oo, c, k),
           MailDue(oo, c, k, n) = MailDue(o, c, k, n), oo = "confirmed" <=> o = "confirmed",
           Stage(state, stack, wait, t, f, oo, c), Goes(t, f, o, k, oo, c, k, n)
    PROVE  IInv'
<1>1. /\ object \in Objects /\ object[a].inbox # <<>> /\ Head(object[a].inbox) = m
      /\ mailbox \in Seq(Mails) /\ object[a].alive
      /\ UNCHANGED <<state, stack, actions, pending, it, fault, requests, crossings>>
  BY Taken
<1>2. People(object, t, f, g, o, c, k)
  BY Taken
<1>3. Mail(mailbox, MailDue(o, c, k, n), t, f, IF o = "confirmed" THEN t ELSE f)
  BY Taken
<1>4. Updated(object, object', a, s, Tail(object[a].inbox)) /\ mailbox' = mailbox \o <<>>
  BY <1>1, TakenAnswer
<1>5. mailbox' = mailbox
  BY <1>1, <1>4
<1>6. People(object', t, f, g, oo, c, k)
  BY <1>1, <1>2, <1>4, PeopleTakes DEF Takes, Enters
<1>7. Mail(mailbox', MailDue(oo, c, k, n), t, f, IF oo = "confirmed" THEN t ELSE f)
  BY <1>3, <1>5
<1>8. mailbox' \in Seq(Mails) /\ Alike(mailbox, mailbox') /\ object' \in Objects
  BY <1>1, <1>4, <1>5 DEF Updated, Alike
<1> QED
  BY <1>1, <1>6, <1>7, <1>8, AppMoves DEF Goes

\* A new application initialises itself (AppStart): Initialised is on its way.
LEMMA StartStep ==
    ASSUME NEW t \in Apps, NEW f \in Apps, NEW g \in Apps, NEW o \in Openings,
           NEW c \in Closings, NEW k \in Errands, NEW n \in BOOLEAN,
           At(t, f, g, o, c, k, n), NEW a \in Apps, AppStart(a)
    PROVE  IInv'
<1>1. Receives(a, "Start") /\ Answers(a, "INITIALIZING", <<Msg("Initialised", a)>>)
      /\ wait' = NoApp
  BY DEF AppStart
<1>2. /\ "Start" \in InboxDue(a, t, f, g, o, c, k)
      /\ Stage(state, stack, wait, t, f, o, c) /\ Shape(t, f, o, c, n)
  BY <1>1, Taken
<1>3. a = t /\ o = "started"
  BY <1>2 DEF InboxDue
<1>4. Enters(a, "INITIALIZING", t, f, "initialised", c)
  BY <1>3 DEF Enters, AppIs, TopIs
<1>5. Takes(a, "Start", t, f, g, o, c, k, "initialised", c, k)
  BY <1>3 DEF Takes, InboxDue
<1>6. Others(object, a, t, f, g, o, c, k, t, f, g, "initialised", c, k)
  <2>1. \A b \in Apps : b # a =>
            InboxDue(b, t, f, g, "initialised", c, k) = InboxDue(b, t, f, g, o, c, k)
    BY <1>3, SameDue
  <2> QED
    BY <1>3, <2>1 DEF Others, AppIs
<1>7. PICK x : x = Msg("Initialised", a)
  OBVIOUS
<1>8. x \in Mails /\ x.type = "Initialised" /\ x.app = t
  BY <1>3, <1>7, Members DEF Replies
<1>9. Sends(x, t, f, o, c, k, n, "initialised", c, k, n)
  BY <1>3, <1>8 DEF Sends, MailDue, Replies
<1>10. Stage(state, stack, wait', t, f, "initialised", c)
  BY <1>1, <1>2, <1>3 DEF Stage, Shape
<1>11. Goes(t, f, o, k, "initialised", c, k, n)
  BY <1>2, <1>3 DEF Goes, Shape, AtRest
<1>12. "initialised" \in Openings /\ "INITIALIZING" \in AppState
  BY DEF Openings, AppState
<1>13. Answers(a, "INITIALIZING", <<x>>)
  BY <1>1, <1>7
<1> QED
  BY <1>1, <1>4, <1>5, <1>6, <1>8, <1>9, <1>10, <1>11, <1>12, <1>13, AppReplies

\* An application that comes to the foreground confirms it
\* (handleApplicationSwitch); one that is there already does not.
LEMMA SwitchStep ==
    ASSUME NEW t \in Apps, NEW f \in Apps, NEW g \in Apps, NEW o \in Openings,
           NEW c \in Closings, NEW k \in Errands, NEW n \in BOOLEAN,
           At(t, f, g, o, c, k, n), NEW a \in Apps, AppSwitch(a)
    PROVE  IInv'
<1>1. Receives(a, "Switch") /\ UNCHANGED wait
  BY DEF AppSwitch
<1>2. /\ "Switch" \in InboxDue(a, t, f, g, o, c, k)
      /\ Stage(state, stack, wait, t, f, o, c) /\ Shape(t, f, o, c, n)
      /\ AppIs(a, object[a].state, object[a].alive, t, f, o, c)
  BY <1>1, Taken
<1>3. a = t /\ o \in {"switching", "told"}
  BY <1>2 DEF InboxDue
<1>4. CASE o = "switching"
  <2>1. Answers(a, "ACTIVE_FORGROUND", <<Msg("SwitchConfirmation", a)>>)
    BY <1>2, <1>3, <1>4 DEF AppSwitch, AppIs, TopIs
  <2>11. Enters(a, "ACTIVE_FORGROUND", t, f, "confirmed", c)
    BY <1>1, <1>2, <1>3, <1>4, <2>1 DEF Enters, AppIs, TopIs, LeaverIs, Shape
  <2>12. Takes(a, "Switch", t, f, g, o, c, k, "confirmed", c, k)
    BY <1>1, <1>2, <1>3, <1>4, <2>1 DEF Takes, InboxDue, Shape
  <2>13. Others(object, a, t, f, g, o, c, k, t, f, g, "confirmed", c, k)
    <3>1. \A b \in Apps : b # a =>
              InboxDue(b, t, f, g, "confirmed", c, k) = InboxDue(b, t, f, g, o, c, k)
      BY <1>1, <1>2, <1>3, <1>4, <2>1, SameDue
    <3> QED
      BY <1>1, <1>2, <1>3, <1>4, <2>1, <3>1 DEF Others, AppIs
  <2>14. PICK x : x = Msg("SwitchConfirmation", a)
    OBVIOUS
  <2>15. x \in Mails /\ x.type = "SwitchConfirmation" /\ x.app = a
    BY <2>14, Members DEF Replies
  <2>16. Sends(x, t, f, o, c, k, n, "confirmed", c, k, n)
    BY <1>1, <1>2, <1>3, <1>4, <2>1, <2>15 DEF Sends, MailDue, Replies, Shape
  <2>17. Stage(state, stack, wait', t, f, "confirmed", c)
    BY <1>1, <1>2, <1>3, <1>4, <2>1 DEF Stage, Shape
  <2>18. Goes(t, f, o, k, "confirmed", c, k, n)
    BY <1>1, <1>2, <1>3, <1>4, <2>1 DEF Goes, Shape, AtRest
  <2>19. "confirmed" \in Openings /\ c \in Closings /\ k \in Errands /\ n \in BOOLEAN
        /\ "ACTIVE_FORGROUND" \in AppState
    BY DEF Openings, Closings, Errands, AppState
  <2>20. Answers(a, "ACTIVE_FORGROUND", <<x>>) /\ wait' \in {wait, NoApp}
    BY <1>1, <1>2, <1>3, <1>4, <2>1, <2>14
  <2> QED
    BY <1>1, <2>11, <2>12, <2>13, <2>15, <2>16, <2>17, <2>18, <2>19, <2>20, AppReplies
<1>5. CASE o = "told"
  <2>1. Answers(a, object[a].state, <<>>) /\ object[a].state = "ACTIVE_FORGROUND"
    BY <1>2, <1>3, <1>5 DEF AppSwitch, AppIs, TopIs
  <2>2. Enters(a, "ACTIVE_FORGROUND", t, f, "quiet", c)
    BY <1>3 DEF Enters, AppIs, TopIs
  <2>3. Takes(a, "Switch", t, f, g, o, c, k, "quiet", c, k)
    BY <1>3, <1>5 DEF Takes, InboxDue
  <2>4. Others(object, a, t, f, g, o, c, k, t, f, g, "quiet", c, k)
    <3>1. \A b \in Apps : b # a =>
              InboxDue(b, t, f, g, "quiet", c, k) = InboxDue(b, t, f, g, o, c, k)
      BY <1>3, <1>5, SameDue
    <3> QED
      BY <1>3, <3>1 DEF Others, AppIs
  <2>5. MailDue("quiet", c, k, n) = MailDue(o, c, k, n)
    BY <1>5 DEF MailDue
  <2>6. Stage(state, stack, wait, t, f, "quiet", c) /\ Goes(t, f, o, k, "quiet", c, k, n)
    BY <1>2, <1>5 DEF Stage, Goes, Shape, AtRest
  <2>7. "quiet" \in Openings /\ "ACTIVE_FORGROUND" \in AppState
    BY DEF Openings, AppState
  <2>8. Answers(a, "ACTIVE_FORGROUND", <<>>)
    BY <2>1
  <2> QED
    BY <1>1, <1>5, <2>2, <2>3, <2>4, <2>5, <2>6, <2>7, <2>8, AppKeepsSilent
<1> QED
  BY <1>3, <1>4, <1>5

\* An application gives up the focus and confirms it (handleAppFocusLost).
LEMMA LostFocusStep ==
    ASSUME NEW t \in Apps, NEW f \in Apps, NEW g \in Apps, NEW o \in Openings,
           NEW c \in Closings, NEW k \in Errands, NEW n \in BOOLEAN,
           At(t, f, g, o, c, k, n), NEW a \in Apps, AppLostFocus(a)
    PROVE  IInv'
<1>1. Receives(a, "LostFocus") /\ UNCHANGED wait
  BY DEF AppLostFocus
<1>2. /\ "LostFocus" \in InboxDue(a, t, f, g, o, c, k)
      /\ Stage(state, stack, wait, t, f, o, c) /\ Shape(t, f, o, c, n)
      /\ AppIs(a, object[a].state, object[a].alive, t, f, o, c)
  BY <1>1, Taken
<1>3. a = f /\ c = "unfocusing" /\ f # t /\ o = "waiting"
  BY <1>2 DEF InboxDue, Shape
<1>4. Answers(a, "ACTIVE_BACKGROUND", <<Msg("SwitchConfirmation", a)>>)
  BY <1>2, <1>3 DEF AppLostFocus, AppIs, LeaverIs
<1>11. Enters(a, "ACTIVE_BACKGROUND", t, f, o, "left")
  BY <1>1, <1>2, <1>3, <1>4 DEF Enters, AppIs, TopIs, LeaverIs, Shape
<1>12. Takes(a, "LostFocus", t, f, g, o, c, k, o, "left", k)
  BY <1>1, <1>2, <1>3, <1>4 DEF Takes, InboxDue, Shape
<1>13. Others(object, a, t, f, g, o, c, k, t, f, g, o, "left", k)
  <2>1. \A b \in Apps : b # a =>
            InboxDue(b, t, f, g, o, "left", k) = InboxDue(b, t, f, g, o, c, k)
    BY <1>1, <1>2, <1>3, <1>4, SameDue
  <2> QED
    BY <1>1, <1>2, <1>3, <1>4, <2>1 DEF Others, AppIs
<1>14. PICK x : x = Msg("SwitchConfirmation", a)
  OBVIOUS
<1>15. x \in Mails /\ x.type = "SwitchConfirmation" /\ x.app = a
  BY <1>14, Members DEF Replies
<1>16. Sends(x, t, f, o, c, k, n, o, "left", k, n)
  BY <1>1, <1>2, <1>3, <1>4, <1>15 DEF Sends, MailDue, Replies, Shape
<1>17. Stage(state, stack, wait', t, f, o, "left")
  BY <1>1, <1>2, <1>3, <1>4 DEF Stage, Shape
<1>18. Goes(t, f, o, k, o, "left", k, n)
  BY <1>1, <1>2, <1>3, <1>4 DEF Goes, Shape, AtRest
<1>19. o \in Openings /\ "left" \in Closings /\ k \in Errands /\ n \in BOOLEAN
      /\ "ACTIVE_BACKGROUND" \in AppState
  BY DEF Openings, Closings, Errands, AppState
<1>20. Answers(a, "ACTIVE_BACKGROUND", <<x>>) /\ wait' \in {wait, NoApp}
  BY <1>1, <1>2, <1>3, <1>4, <1>14
<1> QED
  BY <1>1, <1>11, <1>12, <1>13, <1>15, <1>16, <1>17, <1>18, <1>19, <1>20, AppReplies

\* An application closes, at once or when its callbacks have been called
\* (handleAppClose).
LEMMA CloseStep ==
    ASSUME NEW t \in Apps, NEW f \in Apps, NEW g \in Apps, NEW o \in Openings,
           NEW c \in Closings, NEW k \in Errands, NEW n \in BOOLEAN,
           At(t, f, g, o, c, k, n), NEW a \in Apps, AppClose(a)
    PROVE  IInv'
<1>1. Receives(a, "Close") /\ UNCHANGED wait
  BY DEF AppClose
<1>2. /\ "Close" \in InboxDue(a, t, f, g, o, c, k)
      /\ Stage(state, stack, wait, t, f, o, c) /\ Shape(t, f, o, c, n)
      /\ AppIs(a, object[a].state, object[a].alive, t, f, o, c)
  BY <1>1, Taken
<1>3. a = f /\ c = "closing" /\ f # t /\ o = "waiting" /\ ~ n
  BY <1>2 DEF InboxDue, Shape
<1>4. CASE Answers(a, "DEACTIVATING", <<Msg("CloseConfirmation", a)>>)
  <2>11. Enters(a, "DEACTIVATING", t, f, o, "confirming")
    BY <1>1, <1>2, <1>3, <1>4 DEF Enters, AppIs, TopIs, LeaverIs, Shape
  <2>12. Takes(a, "Close", t, f, g, o, c, k, o, "confirming", k)
    BY <1>1, <1>2, <1>3, <1>4 DEF Takes, InboxDue, Shape
  <2>13. Others(object, a, t, f, g, o, c, k, t, f, g, o, "confirming", k)
    <3>1. \A b \in Apps : b # a =>
              InboxDue(b, t, f, g, o, "confirming", k) = InboxDue(b, t, f, g, o, c, k)
      BY <1>1, <1>2, <1>3, <1>4, SameDue
    <3> QED
      BY <1>1, <1>2, <1>3, <1>4, <3>1 DEF Others, AppIs
  <2>14. PICK x : x = Msg("CloseConfirmation", a)
    OBVIOUS
  <2>15. x \in Mails /\ x.type = "CloseConfirmation" /\ x.app = a
    BY <2>14, Members DEF Replies
  <2>16. Sends(x, t, f, o, c, k, n, o, "confirming", k, n)
    BY <1>1, <1>2, <1>3, <1>4, <2>15 DEF Sends, MailDue, Replies, Shape
  <2>17. Stage(state, stack, wait', t, f, o, "confirming")
    BY <1>1, <1>2, <1>3, <1>4 DEF Stage, Shape
  <2>18. Goes(t, f, o, k, o, "confirming", k, n)
    BY <1>1, <1>2, <1>3, <1>4 DEF Goes, Shape, AtRest
  <2>19. o \in Openings /\ "confirming" \in Closings /\ k \in Errands /\ n \in BOOLEAN
        /\ "DEACTIVATING" \in AppState
    BY DEF Openings, Closings, Errands, AppState
  <2>20. Answers(a, "DEACTIVATING", <<x>>) /\ wait' \in {wait, NoApp}
    BY <1>1, <1>2, <1>3, <1>4, <2>14
  <2> QED
    BY <1>1, <2>11, <2>12, <2>13, <2>15, <2>16, <2>17, <2>18, <2>19, <2>20, AppReplies
<1>5. CASE a \in Blocking /\ Answers(a, "FINALIZING_CLOSE", <<Msg("FinalizingClose", a)>>)
  <2>11. Enters(a, "FINALIZING_CLOSE", t, f, o, "finalizing")
    BY <1>1, <1>2, <1>3, <1>5 DEF Enters, AppIs, TopIs, LeaverIs, Shape
  <2>12. Takes(a, "Close", t, f, g, o, c, k, o, "finalizing", k)
    BY <1>1, <1>2, <1>3, <1>5 DEF Takes, InboxDue, Shape
  <2>13. Others(object, a, t, f, g, o, c, k, t, f, g, o, "finalizing", k)
    <3>1. \A b \in Apps : b # a =>
              InboxDue(b, t, f, g, o, "finalizing", k) = InboxDue(b, t, f, g, o, c, k)
      BY <1>1, <1>2, <1>3, <1>5, SameDue
    <3> QED
      BY <1>1, <1>2, <1>3, <1>5, <3>1 DEF Others, AppIs
  <2>14. PICK x : x = Msg("FinalizingClose", a)
    OBVIOUS
  <2>15. x \in Mails /\ x.type = "FinalizingClose" /\ x.app = a
    BY <2>14, Members DEF Replies
  <2>16. Sends(x, t, f, o, c, k, n, o, "finalizing", k, TRUE)
    BY <1>1, <1>2, <1>3, <1>5, <2>15 DEF Sends, MailDue, Replies, Shape
  <2>17. Stage(state, stack, wait', t, f, o, "finalizing")
    BY <1>1, <1>2, <1>3, <1>5 DEF Stage, Shape
  <2>18. Goes(t, f, o, k, o, "finalizing", k, TRUE)
    BY <1>1, <1>2, <1>3, <1>5 DEF Goes, Shape, AtRest
  <2>19. o \in Openings /\ "finalizing" \in Closings /\ k \in Errands /\ TRUE \in BOOLEAN
        /\ "FINALIZING_CLOSE" \in AppState
    BY DEF Openings, Closings, Errands, AppState
  <2>20. Answers(a, "FINALIZING_CLOSE", <<x>>) /\ wait' \in {wait, NoApp}
    BY <1>1, <1>2, <1>3, <1>5, <2>14
  <2> QED
    BY <1>1, <2>11, <2>12, <2>13, <2>15, <2>16, <2>17, <2>18, <2>19, <2>20, AppReplies
<1> QED
  BY <1>4, <1>5 DEF AppClose

\* An application carries out an action and answers (handleAction).
LEMMA ActionStep ==
    ASSUME NEW t \in Apps, NEW f \in Apps, NEW g \in Apps, NEW o \in Openings,
           NEW c \in Closings, NEW k \in Errands, NEW n \in BOOLEAN,
           At(t, f, g, o, c, k, n), NEW a \in Apps, AppAction(a)
    PROVE  IInv'
<1>1. Receives(a, "Action") /\ UNCHANGED wait
      /\ Answers(a, object[a].state, <<Msg("ActionHandled", NoApp)>>)
  BY DEF AppAction
<1>2. /\ "Action" \in InboxDue(a, t, f, g, o, c, k)
      /\ Stage(state, stack, wait, t, f, o, c) /\ Shape(t, f, o, c, n)
      /\ AppIs(a, object[a].state, object[a].alive, t, f, o, c)
      /\ object[a].alive /\ object[a].state \in AppState
  BY <1>1, Taken
<1>3. a = g /\ k = "sent"
  BY <1>2 DEF InboxDue
<1>11. Enters(a, object[a].state, t, f, o, c)
  BY <1>1, <1>2, <1>3 DEF Enters, AppIs, TopIs, LeaverIs, Shape
<1>12. Takes(a, "Action", t, f, g, o, c, k, o, c, "answered")
  BY <1>1, <1>2, <1>3 DEF Takes, InboxDue, Shape
<1>13. Others(object, a, t, f, g, o, c, k, t, f, g, o, c, "answered")
  <2>1. \A b \in Apps : b # a =>
            InboxDue(b, t, f, g, o, c, "answered") = InboxDue(b, t, f, g, o, c, k)
    BY <1>1, <1>2, <1>3, SameDue
  <2> QED
    BY <1>1, <1>2, <1>3, <2>1 DEF Others, AppIs
<1>14. PICK x : x = Msg("ActionHandled", NoApp)
  OBVIOUS
<1>15. x \in Mails /\ x.type = "ActionHandled" /\ x.app = NoApp
  BY <1>14, Members DEF Replies
<1>16. Sends(x, t, f, o, c, k, n, o, c, "answered", n)
  BY <1>1, <1>2, <1>3, <1>15 DEF Sends, MailDue, Replies, Shape
<1>17. Stage(state, stack, wait', t, f, o, c)
  BY <1>1, <1>2, <1>3 DEF Stage, Shape
<1>18. Goes(t, f, o, k, o, c, "answered", n)
  BY <1>1, <1>2, <1>3 DEF Goes, Shape, AtRest
<1>19. o \in Openings /\ c \in Closings /\ "answered" \in Errands /\ n \in BOOLEAN
      /\ object[a].state \in AppState
  BY <1>2 DEF Openings, Closings, Errands, AppState
<1>20. Answers(a, object[a].state, <<x>>) /\ wait' \in {wait, NoApp}
  BY <1>1, <1>2, <1>3, <1>14
<1> QED
  BY <1>1, <1>11, <1>12, <1>13, <1>15, <1>16, <1>17, <1>18, <1>19, <1>20, AppReplies

\* What the invariant says of one application, and of what the manager keeps.
LEMMA Known ==
    ASSUME NEW t \in Apps, NEW f \in Apps, NEW g \in Apps, NEW o \in Openings,
           NEW c \in Closings, NEW k \in Errands, NEW n \in BOOLEAN,
           At(t, f, g, o, c, k, n), NEW a \in Apps
    PROVE  /\ object \in Objects /\ object[a].inbox \in Seq(AppMessages)
           /\ object[a].state \in AppState /\ object[a].alive \in BOOLEAN
           /\ AppIs(a, object[a].state, object[a].alive, t, f, o, c)
           /\ Box(object[a].inbox, InboxDue(a, t, f, g, o, c, k))
           /\ People(object, t, f, g, o, c, k)
           /\ mailbox \in Seq(Mails) /\ stack \in Stacks /\ state \in ManagerState
           /\ Mail(mailbox, MailDue(o, c, k, n), t, f, IF o = "confirmed" THEN t ELSE f)
           /\ Stage(state, stack, wait, t, f, o, c) /\ Shape(t, f, o, c, n)
           /\ RegistryTypes(actions, pending, it)
           /\ Registry(actions, pending, it, mailbox, t, o, k)
           /\ fault = {} /\ wait \in Apps \cup {NoApp}
           /\ requests \in 0 .. MaxRequests /\ crossings \in 0 .. MaxCrossings
<1>1. Now \in Worlds
  BY DEF At, WorldPhase
<1>2. object \in Objects /\ mailbox \in Seq(Mails) /\ stack \in Stacks /\ state \in ManagerState
      /\ wait \in Apps \cup {NoApp}
  BY <1>1, NowFields DEF Worlds
<1>3. object[a].inbox \in Seq(AppMessages) /\ object[a].state \in AppState
      /\ object[a].alive \in BOOLEAN
  BY <1>2 DEF Objects
<1>4. People(object, t, f, g, o, c, k) /\ fault = {}
      /\ Mail(mailbox, MailDue(o, c, k, n), t, f, IF o = "confirmed" THEN t ELSE f)
      /\ Stage(state, stack, wait, t, f, o, c) /\ Shape(t, f, o, c, n)
  BY NowFields DEF At, WorldPhase
<1>5. /\ AppIs(a, object[a].state, object[a].alive, t, f, o, c)
      /\ Box(object[a].inbox, InboxDue(a, t, f, g, o, c, k))
  BY <1>4 DEF People
<1> QED
  BY <1>2, <1>3, <1>4, <1>5 DEF At

\* The last callback of an application that closes has been called
\* (checkBlockingRequests): it confirms.
LEMMA BlockingStep ==
    ASSUME NEW t \in Apps, NEW f \in Apps, NEW g \in Apps, NEW o \in Openings,
           NEW c \in Closings, NEW k \in Errands, NEW n \in BOOLEAN,
           At(t, f, g, o, c, k, n), NEW a \in Apps, CheckBlockingRequests(a)
    PROVE  IInv'
<1>1. /\ object \in Objects /\ object[a].inbox \in Seq(AppMessages)
      /\ AppIs(a, object[a].state, object[a].alive, t, f, o, c)
      /\ mailbox \in Seq(Mails)
      /\ Stage(state, stack, wait, t, f, o, c) /\ Shape(t, f, o, c, n)
  BY Known
<1>2. /\ Box(object[a].inbox, InboxDue(a, t, f, g, o, c, k))
      /\ People(object, t, f, g, o, c, k)
      /\ Mail(mailbox, MailDue(o, c, k, n), t, f, IF o = "confirmed" THEN t ELSE f)
  BY Known
<1>3. /\ object[a].alive /\ object[a].state = "FINALIZING_CLOSE"
      /\ object' = [object EXCEPT ![a].state = "DEACTIVATING"]
      /\ mailbox' = Append(mailbox, Msg("CloseConfirmation", a))
      /\ UNCHANGED <<state, stack, wait, actions, pending, it, fault, requests, crossings>>
  BY DEF CheckBlockingRequests, registry
<1>4. a = f /\ c = "finalizing" /\ f # t /\ f \in Blocking
  <2>1. a # t
    BY <1>1, <1>3 DEF AppIs, TopIs, Openings
  <2> QED
    BY <1>1, <1>3, <2>1 DEF AppIs, LeaverIs, Closings, Shape
<1>5. Updated(object, object', a, "DEACTIVATING", object[a].inbox)
  <2>1. object' \in Objects
    BY <1>1, <1>3 DEF Objects, AppState
  <2> QED
    BY <1>1, <1>3, <2>1 DEF Updated, Objects
<1>6. InboxDue(a, t, f, g, o, "confirming", k) = InboxDue(a, t, f, g, o, c, k)
  BY <1>4, SameDue
<1>7. Fits(a, "DEACTIVATING", object[a].inbox, t, f, g, o, "confirming", k)
  BY <1>2, <1>4, <1>6 DEF Fits, AppIs, LeaverIs
<1>8. Others(object, a, t, f, g, o, c, k, t, f, g, o, "confirming", k)
  <2>1. \A b \in Apps : b # a =>
            InboxDue(b, t, f, g, o, "confirming", k) = InboxDue(b, t, f, g, o, c, k)
    BY <1>4, SameDue
  <2> QED
    BY <1>4, <2>1 DEF Others, AppIs
<1>9. People(object', t, f, g, o, "confirming", k)
  BY <1>2, <1>5, <1>7, <1>8, PeopleMove
<1>10. PICK x : x = Msg("CloseConfirmation", a)
  OBVIOUS
<1>11. x \in Mails /\ x.type = "CloseConfirmation" /\ x.app = a /\ x.type \in Replies
  BY <1>10, Members DEF Replies
<1>12. Sends(x, t, f, o, c, k, n, o, "confirming", k, n)
  BY <1>4, <1>11 DEF Sends, MailDue, Replies
<1>13. PICK y : y = IF o = "confirmed" THEN t ELSE f
  OBVIOUS
<1>14. Mail(Append(mailbox, x), MailDue(o, "confirming", k, n), t, f, y)
  BY <1>1, <1>2, <1>11, <1>12, <1>13, MailAppend DEF Sends
<1>15. Mail(mailbox', MailDue(o, "confirming", k, n), t, f, IF o = "confirmed" THEN t ELSE f)
  BY <1>3, <1>10, <1>13, <1>14
<1>16. mailbox' \in Seq(Mails) /\ Alike(mailbox, mailbox') /\ object' \in Objects
  <2>1. Append(mailbox, x) \in Seq(Mails)
    BY <1>1, <1>11
  <2>2. Alike(mailbox, Append(mailbox, x))
    BY <1>1, <1>11, AppendAlike
  <2> QED
    BY <1>3, <1>5, <1>10, <2>1, <2>2 DEF Updated
<1>17. Goes(t, f, o, k, o, "confirming", k, n)
  BY <1>1, <1>4 DEF Goes, Shape
<1>18. Stage(state, stack, wait', t, f, o, "confirming")
  BY <1>1, <1>3, <1>4 DEF Stage
<1>19. "confirming" \in Closings /\ wait' \in {wait, NoApp}
  BY <1>3 DEF Closings
<1>20. UNCHANGED <<state, stack, actions, pending, it, fault, requests, crossings>>
  BY <1>3
<1> QED
  BY <1>9, <1>15, <1>16, <1>17, <1>18, <1>19, <1>20, AppMoves DEF Goes

\* An application answers Exit and leaves; nothing else was left for it to do.
LEMMA ExitStep ==
    ASSUME NEW t \in Apps, NEW f \in Apps, NEW g \in Apps, NEW o \in Openings,
           NEW c \in Closings, NEW k \in Errands, NEW n \in BOOLEAN,
           At(t, f, g, o, c, k, n), NEW a \in Apps, AppExit(a)
    PROVE  IInv'
<1>1. Receives(a, "Exit") /\ object' = [object EXCEPT ![a] = NoObject] /\ wait' = NoApp
      /\ mailbox' = mailbox
  BY DEF AppExit
<1>2. /\ "Exit" \in InboxDue(a, t, f, g, o, c, k)
      /\ Stage(state, stack, wait, t, f, o, c) /\ Shape(t, f, o, c, n)
      /\ object[a].alive /\ object[a].inbox # <<>> /\ Head(object[a].inbox) = "Exit"
      /\ UNCHANGED <<state, stack, actions, pending, it, fault, requests, crossings>>
  BY <1>1, Taken
<1>3. a = f /\ c = "exiting" /\ f # t /\ ~ n /\ o # "started"
  BY <1>2 DEF InboxDue, Shape
<1>4. /\ object \in Objects /\ object[a].inbox \in Seq(AppMessages) /\ mailbox \in Seq(Mails)
      /\ Box(object[a].inbox, InboxDue(a, t, f, g, o, c, k))
      /\ People(object, t, f, g, o, c, k)
      /\ Mail(mailbox, MailDue(o, c, k, n), t, f, IF o = "confirmed" THEN t ELSE f)
  BY Known
<1>5. ~ (g = a /\ k = "sent")
  <2>1. \A m \in AppMessages : m \in InboxDue(a, t, f, g, o, c, k) => m = "Exit"
    BY <1>2, <1>4, BoxHead
  <2>2. "Action" \notin InboxDue(a, t, f, g, o, c, k)
    BY <2>1 DEF AppMessages
  <2> QED
    BY <2>2 DEF InboxDue, AppMessages
<1>6. NoObject \in [state : AppState, inbox : Seq(AppMessages), alive : BOOLEAN]
      /\ NoObject.inbox = <<>> /\ NoObject.alive = FALSE
  BY BoxStart DEF AppState, NoObject
<1>7. object' \in Objects /\ object'[a] = NoObject /\ \A b \in Apps : b # a => object'[b] = object[b]
  BY <1>1, <1>4, <1>6 DEF Objects
<1>8. ASSUME NEW b \in Apps
      PROVE  /\ AppIs(b, object'[b].state, object'[b].alive, t, f, o, "none")
             /\ Box(object'[b].inbox, InboxDue(b, t, f, g, o, "none", k))
  <2>1. CASE b = a
    <3>1. \A m \in AppMessages : m \notin InboxDue(a, t, f, g, o, "none", k)
      BY <1>3, <1>5 DEF InboxDue
    <3>2. Box(<<>>, InboxDue(a, t, f, g, o, "none", k))
      BY <3>1, BoxStart
    <3> QED
      BY <1>3, <1>6, <1>7, <2>1, <3>2 DEF AppIs
  <2>2. CASE b # a
    <3>1. InboxDue(b, t, f, g, o, "none", k) = InboxDue(b, t, f, g, o, c, k)
      BY <1>3, <2>2, SameDue
    <3>2. AppIs(b, object[b].state, object[b].alive, t, f, o, c)
          /\ Box(object[b].inbox, InboxDue(b, t, f, g, o, c, k))
      BY <1>4 DEF People
    <3>3. AppIs(b, object[b].state, object[b].alive, t, f, o, "none")
      BY <1>3, <2>2, <3>2 DEF AppIs
    <3> QED
      BY <1>7, <2>2, <3>1, <3>2, <3>3
  <2> QED
    BY <2>1, <2>2
<1>9. k = "sent" => object'[g].alive
  BY <1>4, <1>5, <1>7 DEF People
<1>10. People(object', t, f, g, o, "none", k)
  BY <1>8, <1>9 DEF People
<1>11. MailDue(o, "none", k, n) = MailDue(o, c, k, n)
  BY <1>3 DEF MailDue
<1>12. Mail(mailbox', MailDue(o, "none", k, n), t, f, IF o = "confirmed" THEN t ELSE f)
  BY <1>1, <1>4, <1>11
<1>13. mailbox' \in Seq(Mails) /\ Alike(mailbox, mailbox')
  BY <1>1, <1>4 DEF Alike
<1>14. Goes(t, f, o, k, o, "none", k, n)
  BY <1>2, <1>3 DEF Goes, Shape
<1>15. Stage(state, stack, wait', t, f, o, "none")
  BY <1>1, <1>2, <1>3 DEF Stage
<1>16. "none" \in Closings
  BY DEF Closings
<1>17. wait' \in {wait, NoApp}
  BY <1>1
<1> QED
  BY <1>2, <1>7, <1>10, <1>12, <1>13, <1>14, <1>15, <1>16, <1>17, AppMoves DEF Goes

\* Every step of an application keeps the invariant.
LEMMA AppStep ==
    ASSUME IInv, NEW a \in Apps, App(a)
    PROVE  IInv'
<1>1. PICK t \in Apps, f \in Apps, g \in Apps, o \in Openings, c \in Closings, k \in Errands,
           n \in BOOLEAN : At(t, f, g, o, c, k, n)
  BY Unpack
<1>2. CASE AppStart(a)
  BY <1>1, <1>2, StartStep
<1>3. CASE AppSwitch(a)
  BY <1>1, <1>3, SwitchStep
<1>4. CASE AppLostFocus(a)
  BY <1>1, <1>4, LostFocusStep
<1>5. CASE AppClose(a)
  BY <1>1, <1>5, CloseStep
<1>6. CASE CheckBlockingRequests(a)
  BY <1>1, <1>6, BlockingStep
<1>7. CASE AppAction(a)
  BY <1>1, <1>7, ActionStep
<1>8. CASE AppExit(a)
  BY <1>1, <1>8, ExitStep
<1> QED
  BY <1>2, <1>3, <1>4, <1>5, <1>6, <1>7, <1>8 DEF App

-----------------------------------------------------------------------------
(***************************************************************************)
(* The steps of the manager.                                               *)
(***************************************************************************)

\* The manager takes its first message; what it finds there.
LEMMA Receipt ==
    ASSUME NEW t \in Apps, NEW f \in Apps, NEW g \in Apps, NEW o \in Openings,
           NEW c \in Closings, NEW k \in Errands, NEW n \in BOOLEAN,
           At(t, f, g, o, c, k, n), NEW y, Handles(y)
    PROVE  /\ mailbox \in Seq(Mails) /\ mailbox # <<>> /\ Head(mailbox).type = y
           /\ it = 0 /\ wait = NoApp /\ requests' = requests
           /\ Received \in Worlds /\ Received.state = state /\ Received.stack = stack
           /\ Received.object = object /\ Received.wait = NoApp
           /\ Received.mailbox = Tail(mailbox) /\ Received.fault = {}
           /\ y \in Replies => y \in MailDue(o, c, k, n) /\ Alike(mailbox, Tail(mailbox))
           /\ y \in Replies => o # "boot"
           /\ y = "Initialised" => Head(mailbox).app = t
           /\ y \in {"CloseConfirmation", "FinalizingClose", "CloseRequest"} =>
                  Head(mailbox).app = f
           /\ y = "SwitchConfirmation" => Head(mailbox).app = IF o = "confirmed" THEN t ELSE f
           /\ y = "CloseConfirmation" => ~ n
           /\ y \in RequestKinds => Head(mailbox).app \in Apps
           /\ y \notin {"Switch", "SwitchBack"} => crossings' = crossings
           /\ Tail(mailbox) \in Seq(Mails) /\ Head(mailbox) = mailbox[1]
<1>1. /\ it = 0 /\ wait = NoApp /\ mailbox # <<>> /\ Head(mailbox).type = y
      /\ requests' = requests
      /\ y \notin {"Switch", "SwitchBack"} => crossings' = crossings
  BY DEF Handles
<1>2. /\ mailbox \in Seq(Mails) /\ fault = {}
      /\ Mail(mailbox, MailDue(o, c, k, n), t, f, IF o = "confirmed" THEN t ELSE f)
      /\ Registry(actions, pending, it, mailbox, t, o, k)
  BY Known
<1>3. Tail(mailbox) \in Seq(Mails) /\ Head(mailbox) = mailbox[1]
  BY <1>1, <1>2, TailPositions
<1>4. /\ Received \in Worlds /\ Received.state = state /\ Received.stack = stack
      /\ Received.object = object /\ Received.wait = wait
      /\ Received.mailbox = Tail(mailbox) /\ Received.fault = fault
  <2>1. Now \in Worlds
    BY DEF At, WorldPhase
  <2>2. Received = [Now EXCEPT !.mailbox = Tail(mailbox)]
    BY NowFields DEF Received
  <2> QED
    BY <1>3, <2>1, <2>2, NowFields DEF Worlds
<1>5. PICK s : s = IF o = "confirmed" THEN t ELSE f
  OBVIOUS
<1>6. Mail(mailbox, MailDue(o, c, k, n), t, f, s)
  BY <1>2, <1>5
<1>7. /\ y \in Replies => y \in MailDue(o, c, k, n)
      /\ y = "Initialised" => Head(mailbox).app = t
      /\ y \in {"CloseConfirmation", "FinalizingClose", "CloseRequest"} =>
             Head(mailbox).app = f
      /\ y = "SwitchConfirmation" => Head(mailbox).app = s
      /\ y = "CloseConfirmation" => "FinalizingClose" \notin MailDue(o, c, k, n)
      /\ y \in RequestKinds => Head(mailbox).app \in Apps
  BY <1>1, <1>2, <1>6, MailHead
<1>8. y = "CloseConfirmation" => ~ n
  BY <1>7 DEF MailDue, Replies
<1>9. y \in Replies => Alike(mailbox, Tail(mailbox))
  BY <1>1, <1>2, TailAlike
<1>10. y \in Replies => o # "boot"
  BY <1>1, <1>2, <1>3 DEF Registry, Msg, Replies
<1> QED
  BY <1>1, <1>2, <1>3, <1>4, <1>5, <1>7, <1>8, <1>9, <1>10

\* The mailbox without a reply that has been taken.
LEMMA ReplyTaken ==
    ASSUME NEW t \in Apps, NEW f \in Apps, NEW g \in Apps, NEW o \in Openings,
           NEW c \in Closings, NEW k \in Errands, NEW n \in BOOLEAN,
           At(t, f, g, o, c, k, n), NEW y \in Replies, Handles(y),
           NEW oo, NEW cc, NEW kk, NEW nn,
           \A x \in Replies : x \in MailDue(oo, cc, kk, nn) <=> x \in MailDue(o, c, k, n) /\ x # y,
           "SwitchConfirmation" \in MailDue(oo, cc, kk, nn) => (oo = "confirmed" <=> o = "confirmed")
    PROVE  Mail(Tail(mailbox), MailDue(oo, cc, kk, nn), t, f, IF oo = "confirmed" THEN t ELSE f)
<1>1. /\ mailbox \in Seq(Mails) /\ mailbox # <<>> /\ Head(mailbox).type = y
  BY Receipt
<1>2. Mail(mailbox, MailDue(o, c, k, n), t, f, IF o = "confirmed" THEN t ELSE f)
  BY Known
<1>3. PICK s : s = IF o = "confirmed" THEN t ELSE f
  OBVIOUS
<1>4. PICK ss : ss = IF oo = "confirmed" THEN t ELSE f
  OBVIOUS
<1>5. Mail(mailbox, MailDue(o, c, k, n), t, f, s)
  BY <1>2, <1>3
<1>6. Mail(Tail(mailbox), MailDue(oo, cc, kk, nn), t, f, s)
  BY <1>1, <1>5, MailTail
<1>7. Mail(Tail(mailbox), MailDue(oo, cc, kk, nn), t, f, ss)
  BY <1>3, <1>4, <1>6, MailNames
<1> QED
  BY <1>4, <1>7

\* The manager handles a reply and goes from one phase to another, with v as
\* its new state.
Moves(t, f, g, o, c, k, n, oo, cc, nn, v) ==
    /\ t \in Apps /\ f \in Apps /\ g \in Apps /\ o \in Openings /\ c \in Closings
    /\ k \in Errands /\ n \in BOOLEAN /\ At(t, f, g, o, c, k, n)
    /\ (\E y \in Replies : Handles(y)) /\ UNCHANGED registry
    /\ oo \in Openings /\ cc \in Closings /\ nn \in BOOLEAN
    /\ Become(v) /\ WorldPhase(v, t, f, g, oo, cc, k, nn)
    /\ Alike(mailbox, v.mailbox) /\ Goes(t, f, o, k, oo, cc, k, nn)

\* A reply leads from one phase to another and leaves the registry alone.
LEMMA ReplyMoves ==
    ASSUME NEW t, NEW f, NEW g, NEW o, NEW c, NEW k, NEW n, NEW oo, NEW cc, NEW nn,
           NEW v, Moves(t, f, g, o, c, k, n, oo, cc, nn, v)
    PROVE  IInv'
<1> /\ t \in Apps /\ f \in Apps /\ g \in Apps /\ o \in Openings /\ c \in Closings
    /\ k \in Errands /\ n \in BOOLEAN /\ At(t, f, g, o, c, k, n)
    /\ UNCHANGED registry /\ oo \in Openings /\ cc \in Closings /\ nn \in BOOLEAN
    /\ Become(v) /\ WorldPhase(v, t, f, g, oo, cc, k, nn)
    /\ Alike(mailbox, v.mailbox) /\ Goes(t, f, o, k, oo, cc, k, nn)
  BY DEF Moves
<1> PICK y \in Replies : Handles(y)
  BY DEF Moves
<1>1. it = 0 /\ requests' = requests /\ crossings' = crossings
  BY Receipt DEF Replies
<1>2. UNCHANGED <<actions, pending, it>>
  BY DEF registry
<1>3. /\ RegistryTypes(actions, pending, it)
      /\ requests \in 0 .. MaxRequests /\ crossings \in 0 .. MaxCrossings
      /\ Registry(actions, pending, it, mailbox, t, o, k)
  BY Known
<1>4. PICK q : q = v.mailbox
  OBVIOUS
<1>5. Registry(actions, pending, it, q, t, oo, k)
  BY <1>3, <1>4, RegistryKeeps DEF Goes
<1>6. /\ RegistryTypes(actions', pending', it')
      /\ requests' \in 0 .. MaxRequests /\ crossings' \in 0 .. MaxCrossings
      /\ Registry(actions', pending', it', v.mailbox, t, oo, k)
      /\ it' # 0 => v.wait = NoApp
  BY <1>1, <1>2, <1>3, <1>4, <1>5
<1> QED
  BY <1>6, Settle

\* The manager's own fields.
LEMMA FieldsDo ==
    ASSUME NEW w \in Worlds
    PROVE  /\ \A s \in ManagerState :
                  /\ [w EXCEPT !.state = s] \in Worlds /\ [w EXCEPT !.state = s].state = s
                  /\ [w EXCEPT !.state = s].stack = w.stack
                  /\ [w EXCEPT !.state = s].object = w.object
                  /\ [w EXCEPT !.state = s].wait = w.wait
                  /\ [w EXCEPT !.state = s].mailbox = w.mailbox
                  /\ [w EXCEPT !.state = s].fault = w.fault
           /\ \A a \in Apps :
                  /\ [w EXCEPT !.wait = a] \in Worlds /\ [w EXCEPT !.wait = a].wait = a
                  /\ [w EXCEPT !.wait = a].stack = w.stack
                  /\ [w EXCEPT !.wait = a].object = w.object
                  /\ [w EXCEPT !.wait = a].state = w.state
                  /\ [w EXCEPT !.wait = a].mailbox = w.mailbox
                  /\ [w EXCEPT !.wait = a].fault = w.fault
           /\ \A q \in Stacks :
                  /\ [w EXCEPT !.stack = q] \in Worlds /\ [w EXCEPT !.stack = q].stack = q
                  /\ [w EXCEPT !.stack = q].wait = w.wait
                  /\ [w EXCEPT !.stack = q].object = w.object
                  /\ [w EXCEPT !.stack = q].state = w.state
                  /\ [w EXCEPT !.stack = q].mailbox = w.mailbox
                  /\ [w EXCEPT !.stack = q].fault = w.fault
           /\ \A q \in Seq(Mails) :
                  /\ [w EXCEPT !.mailbox = q] \in Worlds /\ [w EXCEPT !.mailbox = q].mailbox = q
                  /\ [w EXCEPT !.mailbox = q].wait = w.wait
                  /\ [w EXCEPT !.mailbox = q].object = w.object
                  /\ [w EXCEPT !.mailbox = q].state = w.state
                  /\ [w EXCEPT !.mailbox = q].stack = w.stack
                  /\ [w EXCEPT !.mailbox = q].fault = w.fault
<1>1. ASSUME NEW s \in ManagerState, NEW v, v = [w EXCEPT !.state = s]
      PROVE  /\ v \in Worlds /\ v.state = s /\ v.stack = w.stack /\ v.object = w.object
             /\ v.wait = w.wait /\ v.mailbox = w.mailbox /\ v.fault = w.fault
  BY <1>1 DEF Worlds
<1>2. ASSUME NEW s \in Apps, NEW v, v = [w EXCEPT !.wait = s]
      PROVE  /\ v \in Worlds /\ v.state = w.state /\ v.stack = w.stack /\ v.object = w.object
             /\ v.wait = s /\ v.mailbox = w.mailbox /\ v.fault = w.fault
  BY <1>2 DEF Worlds
<1>3. ASSUME NEW s \in Stacks, NEW v, v = [w EXCEPT !.stack = s]
      PROVE  /\ v \in Worlds /\ v.state = w.state /\ v.stack = s /\ v.object = w.object
             /\ v.wait = w.wait /\ v.mailbox = w.mailbox /\ v.fault = w.fault
  BY <1>3 DEF Worlds
<1>4. ASSUME NEW s \in Seq(Mails), NEW v, v = [w EXCEPT !.mailbox = s]
      PROVE  /\ v \in Worlds /\ v.state = w.state /\ v.stack = w.stack /\ v.object = w.object
             /\ v.wait = w.wait /\ v.mailbox = s /\ v.fault = w.fault
  BY <1>4 DEF Worlds
<1> QED
  BY <1>1, <1>2, <1>3, <1>4

\* Two changes of the same object one after the other.
LEMMA UpdatedTwice ==
    ASSUME NEW ob, NEW ob2, NEW ob3, NEW a \in Apps, NEW s, NEW q, NEW ss, NEW qq,
           Updated(ob, ob2, a, s, q), Updated(ob2, ob3, a, ss, qq)
    PROVE  Updated(ob, ob3, a, ss, qq)
  BY DEF Updated

\* The new application has initialised itself (handleInitApplication): it is
\* the one that is being launched, and is sent to the foreground.
LEMMA InitStep ==
    ASSUME NEW t \in Apps, NEW f \in Apps, NEW g \in Apps, NEW o \in Openings,
           NEW c \in Closings, NEW k \in Errands, NEW n \in BOOLEAN,
           At(t, f, g, o, c, k, n), HandleInitApplication
    PROVE  IInv'
<1>1. Handles("Initialised") /\ UNCHANGED registry
  BY DEF HandleInitApplication
<1>2. "Initialised" \in Replies
  BY DEF Replies
<1>3. /\ "Initialised" \in MailDue(o, c, k, n) /\ Alike(mailbox, Tail(mailbox))
      /\ Head(mailbox).app = t /\ wait = NoApp
  BY <1>1, <1>2, Receipt
<1>4. /\ Received \in Worlds /\ Received.state = state /\ Received.stack = stack
      /\ Received.object = object /\ Received.wait = NoApp
      /\ Received.mailbox = Tail(mailbox) /\ Received.fault = {}
  BY <1>1, Receipt
<1>5. o = "initialised"
  BY <1>3 DEF MailDue
<1>6. /\ object \in Objects /\ object[t].inbox \in Seq(AppMessages)
      /\ AppIs(t, object[t].state, object[t].alive, t, f, o, c)
      /\ Stage(state, stack, wait, t, f, o, c) /\ Shape(t, f, o, c, n)
  BY Known
<1>7. /\ Box(object[t].inbox, InboxDue(t, t, f, g, o, c, k))
      /\ People(object, t, f, g, o, c, k)
  BY Known
<1>8. object[t].alive /\ object[t].state = "INITIALIZING" /\ stack # <<>> /\ stack[1].app = t
  BY <1>5, <1>6 DEF AppIs, TopIs, Stage
<1>9. GetLaunchingApplication(Now) = t
  <2>1. Now \in Worlds
    BY DEF At, WorldPhase
  <2>2. StateOf(Now, t) # "ACTIVE_FORGROUND"
    BY <1>8, NowFields DEF StateOf
  <2> QED
    BY <1>8, <2>1, <2>2, NowFields, LaunchesTop
<1>10. PICK u : u = SetState(Received, t, "ACTIVATING")
  OBVIOUS
<1>11. /\ OnlyObjects(u, Received)
       /\ Updated(object, u.object, t, "ACTIVATING", object[t].inbox)
  BY <1>4, <1>8, <1>10, SetStateDoes DEF AppState
<1>12. u \in Worlds /\ u.object[t].alive /\ u.object[t].state = "ACTIVATING"
       /\ u.object[t].inbox = object[t].inbox
  BY <1>11 DEF OnlyObjects, Updated
<1>13. PICK x : x = SendTo(u, t, "Switch")
  OBVIOUS
<1>14. /\ OnlyObjects(x, u)
       /\ Updated(u.object, x.object, t, "ACTIVATING", Append(object[t].inbox, "Switch"))
  BY <1>12, <1>13, Members, SendToDoes
<1>15. Updated(object, x.object, t, "ACTIVATING", Append(object[t].inbox, "Switch"))
  BY <1>11, <1>14, UpdatedTwice
<1>16. PICK v : v = [x EXCEPT !.state = "AwaitingFocusConfirmation"]
  OBVIOUS
<1>17. /\ v \in Worlds /\ v.state = "AwaitingFocusConfirmation" /\ v.stack = stack
       /\ v.object = x.object /\ v.wait = NoApp /\ v.mailbox = Tail(mailbox) /\ v.fault = {}
  <2>1. x \in Worlds /\ "AwaitingFocusConfirmation" \in ManagerState
    BY <1>14 DEF OnlyObjects, ManagerState
  <2>2. /\ v \in Worlds /\ v.state = "AwaitingFocusConfirmation" /\ v.stack = x.stack
        /\ v.object = x.object /\ v.wait = x.wait /\ v.mailbox = x.mailbox /\ v.fault = x.fault
    BY <1>16, <2>1, FieldsDo
  <2> QED
    BY <1>4, <1>11, <1>14, <2>2 DEF OnlyObjects
<1>18. Become(v)
  BY <1>3, <1>9, <1>10, <1>13, <1>16 DEF HandleInitApplication
<1>19. People(x.object, t, f, g, "switching", c, k)
  <2>1. Box(Append(object[t].inbox, "Switch"), InboxDue(t, t, f, g, "switching", c, k))
    <3>1. \A m \in AppMessages : m \in InboxDue(t, t, f, g, "switching", c, k) <=>
              m \in InboxDue(t, t, f, g, o, c, k) \/ m = "Switch"
      BY <1>5 DEF InboxDue, AppMessages
    <3>2. /\ "Switch" \notin InboxDue(t, t, f, g, o, c, k)
          /\ "Exit" \notin InboxDue(t, t, f, g, o, c, k)
      BY <1>5, <1>6 DEF InboxDue, Shape
    <3> QED
      BY <1>6, <1>7, <3>1, <3>2, Members, BoxAppend
  <2>2. Fits(t, "ACTIVATING", Append(object[t].inbox, "Switch"), t, f, g, "switching", c, k)
    BY <2>1 DEF Fits, AppIs, TopIs
  <2>3. Others(object, t, t, f, g, o, c, k, t, f, g, "switching", c, k)
    <3>1. \A b \in Apps : b # t =>
              InboxDue(b, t, f, g, "switching", c, k) = InboxDue(b, t, f, g, o, c, k)
      BY SameDue
    <3> QED
      BY <3>1 DEF Others, AppIs
  <2> QED
    BY <1>7, <1>15, <2>2, <2>3, PeopleMove
<1>20. Mail(Tail(mailbox), MailDue("switching", c, k, n), t, f,
            IF "switching" = "confirmed" THEN t ELSE f)
  <2>1. \A y \in Replies : y \in MailDue("switching", c, k, n) <=>
            y \in MailDue(o, c, k, n) /\ y # "Initialised"
    BY <1>5 DEF MailDue, Replies
  <2> QED
    BY <1>1, <1>2, <1>5, <2>1, ReplyTaken
<1>21. Stage(v.state, v.stack, v.wait, t, f, "switching", c) /\ Shape(t, f, "switching", c, n)
  BY <1>3, <1>5, <1>6, <1>17 DEF Stage, Shape
<1>22. WorldPhase(v, t, f, g, "switching", c, k, n)
  BY <1>17, <1>19, <1>20, <1>21 DEF WorldPhase
<1>23. Goes(t, f, o, k, "switching", c, k, n) /\ Alike(mailbox, v.mailbox)
  BY <1>3, <1>5, <1>17, <1>21 DEF Goes, AtRest
<1>24. "switching" \in Openings
  BY DEF Openings
<1>25. Moves(t, f, g, o, c, k, n, "switching", c, n, v)
  BY <1>1, <1>2, <1>18, <1>22, <1>23, <1>24 DEF Moves
<1> QED
  BY <1>25, ReplyMoves

\* What was waiting for the other application to make room opens now.
LEMMA Opened ==
    ASSUME NEW w \in Worlds, w.fault = {}, w.wait = NoApp, w.stack # <<>>,
           NEW t \in Apps, NEW f \in Apps, NEW g \in Apps, NEW c \in Closings,
           NEW k \in Errands, NEW n \in BOOLEAN, w.stack[1].app = t,
           People(w.object, t, f, g, "waiting", c, k),
           Mail(w.mailbox, MailDue("waiting", c, k, n), t, f, f), ~ n,
           c \in {"none", "finalizing", "confirming", "leaving"}, c # "none" => f # t,
           c \in {"finalizing", "confirming"} => f \in Blocking /\ f \in Closeable
               /\ \A i \in DOMAIN w.stack : w.stack[i].app = f => w.stack[i].closeable,
           NEW v, v = StartApplication(w, t)
    PROVE  \E oo \in {"started", "switching"} :
               WorldPhase(v, t, f, g, oo, c, k, n) /\ v.mailbox = w.mailbox
<1>1. PICK oo \in {"started", "switching"} :
          /\ v \in Worlds /\ v.stack = w.stack /\ v.mailbox = w.mailbox /\ v.fault = w.fault
          /\ oo = "switching" => v.state = "AwaitingFocusConfirmation" /\ v.wait = w.wait
          /\ oo = "started" => v.state = w.state /\ v.wait = t
          /\ People(v.object, t, f, g, oo, c, k)
  BY StartOpens
<1>2. MailDue(oo, c, k, n) = MailDue("waiting", c, k, n)
  BY DEF MailDue
<1>3. Mail(v.mailbox, MailDue(oo, c, k, n), t, f, IF oo = "confirmed" THEN t ELSE f)
  BY <1>1, <1>2
<1>4. Shape(t, f, oo, c, n)
  BY DEF Shape
<1>5. Stage(v.state, v.stack, v.wait, t, f, oo, c)
  BY <1>1 DEF Stage
<1>6. WorldPhase(v, t, f, g, oo, c, k, n)
  BY <1>1, <1>3, <1>4, <1>5 DEF WorldPhase
<1> QED
  BY <1>1, <1>6

\* The application that closes makes room: the closing c goes on as cc.
MakesRoom(c, cc, n) ==
    /\ cc \in {"none", "finalizing", "confirming", "leaving"} /\ c # "none"
    /\ cc \in {"finalizing", "confirming"} => cc = c /\ n

\* The manager handles a reply in w by starting the application on top, which
\* was waiting for it.
Opens(t, f, g, o, c, k, n, cc, nn, w) ==
    /\ t \in Apps /\ f \in Apps /\ g \in Apps /\ o \in Openings /\ c \in Closings
    /\ k \in Errands /\ n \in BOOLEAN /\ At(t, f, g, o, c, k, n)
    /\ (\E y \in Replies : Handles(y)) /\ UNCHANGED registry
    /\ o = "waiting" /\ nn \in BOOLEAN /\ ~ nn /\ cc \in Closings /\ MakesRoom(c, cc, n)
    /\ w \in Worlds /\ w.fault = {} /\ w.wait = NoApp /\ w.stack = stack
    /\ People(w.object, t, f, g, "waiting", cc, k)
    /\ Mail(w.mailbox, MailDue("waiting", cc, k, nn), t, f, f)
    /\ Alike(mailbox, w.mailbox) /\ Become(StartApplication(w, t))

\* A start of the application on top leads to the phase in which it opens.
LEMMA OpenStep ==
    ASSUME NEW t, NEW f, NEW g, NEW o, NEW c, NEW k, NEW n, NEW cc, NEW nn, NEW w,
           Opens(t, f, g, o, c, k, n, cc, nn, w)
    PROVE  IInv'
<1> /\ t \in Apps /\ f \in Apps /\ g \in Apps /\ o \in Openings /\ c \in Closings
    /\ k \in Errands /\ n \in BOOLEAN /\ At(t, f, g, o, c, k, n)
    /\ (\E y \in Replies : Handles(y)) /\ UNCHANGED registry
    /\ o = "waiting" /\ nn \in BOOLEAN /\ ~ nn /\ cc \in Closings /\ MakesRoom(c, cc, n)
    /\ w \in Worlds /\ w.fault = {} /\ w.wait = NoApp /\ w.stack = stack
    /\ People(w.object, t, f, g, "waiting", cc, k)
    /\ Mail(w.mailbox, MailDue("waiting", cc, k, nn), t, f, f)
    /\ Alike(mailbox, w.mailbox) /\ Become(StartApplication(w, t))
  BY DEF Opens
<1>1. Stage(state, stack, wait, t, f, o, c) /\ Shape(t, f, o, c, n)
  BY Known
<1>2. stack # <<>> /\ stack[1].app = t /\ f # t
  BY <1>1 DEF Stage, Shape, MakesRoom
<1>3. cc \in {"finalizing", "confirming"} => f \in Blocking /\ f \in Closeable
          /\ \A i \in DOMAIN stack : stack[i].app = f => stack[i].closeable
  BY <1>1 DEF Stage, Shape, MakesRoom
<1>4. PICK v : v = StartApplication(w, t)
  OBVIOUS
<1>5. cc \in {"none", "finalizing", "confirming", "leaving"} /\ c # "none"
  BY DEF MakesRoom
<1>6. \E oo \in {"started", "switching"} :
          WorldPhase(v, t, f, g, oo, cc, k, nn) /\ v.mailbox = w.mailbox
  BY <1>2, <1>3, <1>4, <1>5, Opened
<1>7. PICK oo \in {"started", "switching"} :
          WorldPhase(v, t, f, g, oo, cc, k, nn) /\ v.mailbox = w.mailbox
  BY <1>6
<1>8. oo \in Openings
  BY DEF Openings
<1>9. Goes(t, f, o, k, oo, cc, k, nn)
  BY <1>5, <1>7 DEF Goes, WorldPhase, AtRest
<1>10. Become(v) /\ Alike(mailbox, v.mailbox)
  BY <1>4, <1>7
<1>11. Moves(t, f, g, o, c, k, n, oo, cc, nn, v)
  BY <1>5, <1>7, <1>8, <1>9, <1>10 DEF Moves
<1> QED
  BY <1>11, ReplyMoves

\* In a phase that waits, the application on top has not got the focus.
LEMMA Launching ==
    ASSUME NEW t \in Apps, NEW f \in Apps, NEW g \in Apps, NEW c \in Closings,
           NEW k \in Errands, NEW w \in Worlds, w.stack # <<>>, w.stack[1].app = t,
           People(w.object, t, f, g, "waiting", c, k)
    PROVE  GetLaunchingApplication(w) = t /\ StartLaunching(w) = StartApplication(w, t)
<1>1. AppIs(t, w.object[t].state, w.object[t].alive, t, f, "waiting", c)
  BY DEF People
<1>2. StateOf(w, t) # "ACTIVE_FORGROUND"
  BY <1>1 DEF AppIs, TopIs, StateOf
<1> QED
  BY <1>2, LaunchesTop

\* An application that closes later has announced it (handleFinalizingClose):
\* the next one need not wait any longer.
LEMMA FinalizingStep ==
    ASSUME NEW t \in Apps, NEW f \in Apps, NEW g \in Apps, NEW o \in Openings,
           NEW c \in Closings, NEW k \in Errands, NEW n \in BOOLEAN,
           At(t, f, g, o, c, k, n), HandleFinalizingClose
    PROVE  IInv'
<1>1. Handles("FinalizingClose") /\ UNCHANGED registry
      /\ Become(StartPendingApplicationOnCurrentClose(Received))
  BY DEF HandleFinalizingClose
<1>2. "FinalizingClose" \in Replies
  BY DEF Replies
<1>3. "FinalizingClose" \in MailDue(o, c, k, n) /\ Alike(mailbox, Tail(mailbox)) /\ wait = NoApp
  BY <1>1, <1>2, Receipt
<1>4. /\ Received \in Worlds /\ Received.state = state /\ Received.stack = stack
      /\ Received.object = object /\ Received.wait = NoApp
      /\ Received.mailbox = Tail(mailbox) /\ Received.fault = {}
  BY <1>1, Receipt
<1>5. Stage(state, stack, wait, t, f, o, c) /\ Shape(t, f, o, c, n)
      /\ People(object, t, f, g, o, c, k)
  BY Known
<1>6. n /\ o = "waiting" /\ c \in {"finalizing", "confirming"}
  BY <1>3, <1>5 DEF MailDue, Shape
<1> PICK nn \in BOOLEAN : ~ nn
  OBVIOUS
<1>7. state = "AwaitingCloseConfirmation" /\ stack # <<>> /\ stack[1].app = t
  BY <1>5, <1>6 DEF Stage
<1>8. StartPendingApplicationOnCurrentClose(Received) = StartApplication(Received, t)
  BY <1>4, <1>5, <1>6, <1>7, Launching DEF StartPendingApplicationOnCurrentClose
<1>9. Mail(Tail(mailbox), MailDue(o, c, k, nn), t, f, IF o = "confirmed" THEN t ELSE f)
  <2>1. \A y \in Replies : y \in MailDue(o, c, k, nn) <=>
            y \in MailDue(o, c, k, n) /\ y # "FinalizingClose"
    BY <1>6 DEF MailDue
  <2> QED
    BY <1>1, <1>2, <2>1, ReplyTaken
<1>10. Mail(Received.mailbox, MailDue("waiting", c, k, nn), t, f, f)
  BY <1>4, <1>6, <1>9
<1>11. /\ People(Received.object, t, f, g, "waiting", c, k)
       /\ Become(StartApplication(Received, t)) /\ Alike(mailbox, Received.mailbox)
  BY <1>1, <1>3, <1>4, <1>5, <1>6, <1>8
<1>12. PICK w : w = Received
  OBVIOUS
<1>13. /\ w \in Worlds /\ w.fault = {} /\ w.wait = NoApp /\ w.stack = stack
       /\ Mail(w.mailbox, MailDue("waiting", c, k, nn), t, f, f)
       /\ People(w.object, t, f, g, "waiting", c, k)
       /\ Become(StartApplication(w, t)) /\ Alike(mailbox, w.mailbox)
  BY <1>4, <1>10, <1>11, <1>12
<1>14. PICK y \in Replies : y = "FinalizingClose"
  BY <1>2
<1>15. Handles(y) /\ UNCHANGED registry
  BY <1>1, <1>14
<1>16. MakesRoom(c, c, n)
  BY <1>6 DEF MakesRoom
<1>17. Opens(t, f, g, o, c, k, n, c, nn, w)
  BY <1>6, <1>13, <1>15, <1>16 DEF Opens
<1> QED
  BY <1>17, OpenStep

\* closeApplication: an application that has confirmed is told to exit, and
\* the manager waits for its answer.
LEMMA CloseRequestStep ==
    ASSUME NEW t \in Apps, NEW f \in Apps, NEW g \in Apps, NEW o \in Openings,
           NEW c \in Closings, NEW k \in Errands, NEW n \in BOOLEAN,
           At(t, f, g, o, c, k, n), HandleCloseRequest
    PROVE  IInv'
<1>1. Handles("CloseRequest") /\ UNCHANGED registry
  BY DEF HandleCloseRequest
<1>2. "CloseRequest" \in Replies
  BY DEF Replies
<1>3. /\ "CloseRequest" \in MailDue(o, c, k, n) /\ Alike(mailbox, Tail(mailbox))
      /\ Head(mailbox).app = f /\ wait = NoApp
  BY <1>1, <1>2, Receipt
<1>4. /\ Received \in Worlds /\ Received.state = state /\ Received.stack = stack
      /\ Received.object = object /\ Received.wait = NoApp
      /\ Received.mailbox = Tail(mailbox) /\ Received.fault = {}
  BY <1>1, Receipt
<1>5. /\ object \in Objects /\ object[f].inbox \in Seq(AppMessages)
      /\ AppIs(f, object[f].state, object[f].alive, t, f, o, c)
      /\ Stage(state, stack, wait, t, f, o, c) /\ Shape(t, f, o, c, n)
  BY Known
<1>6. /\ Box(object[f].inbox, InboxDue(f, t, f, g, o, c, k))
      /\ People(object, t, f, g, o, c, k)
  BY Known
<1>7. c = "leaving" /\ f # t /\ ~ n
  BY <1>3, <1>5 DEF MailDue, Shape
<1>8. object[f].alive /\ object[f].state = "DEACTIVATED"
  BY <1>5, <1>7 DEF AppIs, LeaverIs
<1>9. o # "started" /\ o # "waiting" /\ o # "boot"
  <2>1. f # NoApp /\ t # NoApp
    BY AppManagerAssumption
  <2> QED
    BY <1>3, <1>5, <1>7, <2>1 DEF Stage, Shape
<1>10. PICK x : x = SendTo(Received, f, "Exit")
  OBVIOUS
<1>11. /\ OnlyObjects(x, Received)
       /\ Updated(object, x.object, f, "DEACTIVATED", Append(object[f].inbox, "Exit"))
  BY <1>4, <1>8, <1>10, Members, SendToDoes
<1>12. PICK v : v = [x EXCEPT !.wait = f]
  OBVIOUS
<1>13. /\ v \in Worlds /\ v.state = state /\ v.stack = stack
       /\ v.object = x.object /\ v.wait = f /\ v.mailbox = Tail(mailbox) /\ v.fault = {}
  <2>1. x \in Worlds
    BY <1>11 DEF OnlyObjects
  <2>2. /\ v \in Worlds /\ v.state = x.state /\ v.stack = x.stack
        /\ v.object = x.object /\ v.wait = f /\ v.mailbox = x.mailbox /\ v.fault = x.fault
    BY <1>12, <2>1, FieldsDo
  <2> QED
    BY <1>4, <1>11, <2>2 DEF OnlyObjects
<1>14. Become(v)
  BY <1>3, <1>8, <1>10, <1>12 DEF HandleCloseRequest
<1>15. People(x.object, t, f, g, o, "exiting", k)
  <2>1. Box(Append(object[f].inbox, "Exit"), InboxDue(f, t, f, g, o, "exiting", k))
    <3>1. \A m \in AppMessages : m \in InboxDue(f, t, f, g, o, "exiting", k) <=>
              m \in InboxDue(f, t, f, g, o, c, k) \/ m = "Exit"
      BY <1>7 DEF InboxDue, AppMessages
    <3>2. "Exit" \notin InboxDue(f, t, f, g, o, c, k)
      BY <1>7 DEF InboxDue
    <3> QED
      BY <1>5, <1>6, <3>1, <3>2, Members, BoxAppend
  <2>2. Fits(f, "DEACTIVATED", Append(object[f].inbox, "Exit"), t, f, g, o, "exiting", k)
    BY <1>7, <2>1 DEF Fits, AppIs, LeaverIs
  <2>3. Others(object, f, t, f, g, o, c, k, t, f, g, o, "exiting", k)
    <3>1. \A b \in Apps : b # f =>
              InboxDue(b, t, f, g, o, "exiting", k) = InboxDue(b, t, f, g, o, c, k)
      BY SameDue
    <3> QED
      BY <1>7, <3>1 DEF Others, AppIs
  <2> QED
    BY <1>6, <1>11, <2>2, <2>3, PeopleMove
<1>16. Mail(Tail(mailbox), MailDue(o, "exiting", k, n), t, f, IF o = "confirmed" THEN t ELSE f)
  <2>1. \A y \in Replies : y \in MailDue(o, "exiting", k, n) <=>
            y \in MailDue(o, c, k, n) /\ y # "CloseRequest"
    BY <1>7 DEF MailDue
  <2> QED
    BY <1>1, <1>2, <2>1, ReplyTaken
<1>17. Stage(v.state, v.stack, v.wait, t, f, o, "exiting") /\ Shape(t, f, o, "exiting", n)
  BY <1>3, <1>5, <1>7, <1>9, <1>13 DEF Stage, Shape
<1>18. WorldPhase(v, t, f, g, o, "exiting", k, n)
  BY <1>13, <1>15, <1>16, <1>17 DEF WorldPhase
<1>19. Goes(t, f, o, k, o, "exiting", k, n) /\ Alike(mailbox, v.mailbox)
  BY <1>3, <1>7, <1>13, <1>17 DEF Goes
<1>20. "exiting" \in Closings
  BY DEF Closings
<1>21. Moves(t, f, g, o, c, k, n, o, "exiting", n, v)
  BY <1>1, <1>2, <1>14, <1>18, <1>19, <1>20 DEF Moves
<1> QED
  BY <1>21, ReplyMoves

\* An application confirms that it closes (handleCloseConfirmation): the
\* manager finds its object, marks it and sends itself the request to close
\* it; the next one opens if it still waits.
LEMMA CloseConfirmationStep ==
    ASSUME StartsOnce,
           NEW t \in Apps, NEW f \in Apps, NEW g \in Apps, NEW o \in Openings,
           NEW c \in Closings, NEW k \in Errands, NEW n \in BOOLEAN,
           At(t, f, g, o, c, k, n), HandleCloseConfirmation
    PROVE  IInv'
<1>1. Handles("CloseConfirmation") /\ UNCHANGED registry
  BY DEF HandleCloseConfirmation
<1>2. "CloseConfirmation" \in Replies
  BY DEF Replies
<1>3. /\ "CloseConfirmation" \in MailDue(o, c, k, n) /\ Alike(mailbox, Tail(mailbox))
      /\ Head(mailbox).app = f /\ wait = NoApp /\ ~ n /\ Tail(mailbox) \in Seq(Mails)
  BY <1>1, <1>2, Receipt
<1>4. /\ Received \in Worlds /\ Received.state = state /\ Received.stack = stack
      /\ Received.object = object /\ Received.wait = NoApp
      /\ Received.mailbox = Tail(mailbox) /\ Received.fault = {}
  BY <1>1, Receipt
<1>5. /\ object \in Objects /\ object[f].inbox \in Seq(AppMessages)
      /\ AppIs(f, object[f].state, object[f].alive, t, f, o, c)
      /\ Stage(state, stack, wait, t, f, o, c) /\ Shape(t, f, o, c, n)
      /\ Box(object[f].inbox, InboxDue(f, t, f, g, o, c, k))
  BY Known
<1>6. /\ AppIs(t, object[t].state, object[t].alive, t, f, o, c)
      /\ People(object, t, f, g, o, c, k)
  BY Known
<1>7. c = "confirming" /\ f # t /\ f \in Closeable
      /\ \A i \in DOMAIN stack : stack[i].app = f => stack[i].closeable
  BY <1>3, <1>5 DEF MailDue, Shape, Stage
<1>8. object[f].alive /\ object[f].state = "DEACTIVATING"
  BY <1>5, <1>7 DEF AppIs, LeaverIs
<1>9. o # "started"
  <2>1. t # NoApp
    BY AppManagerAssumption
  <2> QED
    BY <1>3, <1>5, <2>1 DEF Stage
<1>10. IsApplicationCloseable(Now, f) = {TRUE}
  <2>1. HandleCloseable(Now, f) = {TRUE}
    BY <1>7, <1>8, NowFields DEF HandleCloseable, StateOf
  <2> QED
    BY <1>7, <2>1, NowFields DEF IsApplicationCloseable
<1>11. PICK w : w = [Received EXCEPT !.fault =
                         IF f \in Closeable /\ ~ object[f].alive THEN @ \cup {"handle"} ELSE @]
  OBVIOUS
<1>12. w = Received
  BY <1>4, <1>8, <1>11 DEF Worlds
<1>13. PICK u : u = SetState(w, f, "DEACTIVATED")
  OBVIOUS
<1>14. /\ OnlyObjects(u, Received)
       /\ Updated(object, u.object, f, "DEACTIVATED", object[f].inbox)
  BY <1>4, <1>8, <1>12, <1>13, SetStateDoes DEF AppState
<1>15. PICK x : x = Msg("CloseRequest", f)
  OBVIOUS
<1>16. x \in Mails /\ x.type = "CloseRequest" /\ x.app = f /\ x.type \in Replies
  BY <1>15, Members DEF Replies
<1>17. PICK v : v = [u EXCEPT !.mailbox = Append(@, x)]
  OBVIOUS
<1>18. /\ v \in Worlds /\ v.state = state /\ v.stack = stack /\ v.object = u.object
       /\ v.wait = NoApp /\ v.mailbox = Append(Tail(mailbox), x) /\ v.fault = {}
  <2>1. u \in Worlds /\ u.mailbox = Tail(mailbox)
    BY <1>4, <1>14 DEF OnlyObjects
  <2>2. v = [u EXCEPT !.mailbox = Append(Tail(mailbox), x)]
    BY <1>17, <2>1
  <2>3. Append(Tail(mailbox), x) \in Seq(Mails)
    BY <1>3, <1>16, AppendPositions
  <2>4. /\ v \in Worlds /\ v.state = u.state /\ v.stack = u.stack /\ v.object = u.object
        /\ v.wait = u.wait /\ v.mailbox = Append(Tail(mailbox), x) /\ v.fault = u.fault
    BY <2>1, <2>2, <2>3, FieldsDo
  <2> QED
    BY <1>4, <1>14, <2>4 DEF OnlyObjects
<1>19. Become(StartPendingApplicationOnCurrentClose(v))
  <2>1. \E b \in IsApplicationCloseable(Now, f) :
            Become(StartPendingApplicationOnCurrentClose(
                IF b THEN [u EXCEPT !.mailbox = Append(@, x)]
                ELSE SetState(w, f, "ACTIVE_BACKGROUND")))
    BY <1>3, <1>11, <1>13, <1>15 DEF HandleCloseConfirmation
  <2>2. Become(StartPendingApplicationOnCurrentClose(
            IF TRUE THEN [u EXCEPT !.mailbox = Append(@, x)]
            ELSE SetState(w, f, "ACTIVE_BACKGROUND")))
    BY <1>10, <2>1
  <2> QED
    BY <1>17, <2>2
<1>20. People(v.object, t, f, g, o, "leaving", k)
  <2>1. InboxDue(f, t, f, g, o, "leaving", k) = InboxDue(f, t, f, g, o, c, k)
    BY <1>7, SameDue
  <2>2. Fits(f, "DEACTIVATED", object[f].inbox, t, f, g, o, "leaving", k)
    BY <1>5, <1>7, <2>1 DEF Fits, AppIs, LeaverIs
  <2>3. Others(object, f, t, f, g, o, c, k, t, f, g, o, "leaving", k)
    <3>1. \A b \in Apps : b # f =>
              InboxDue(b, t, f, g, o, "leaving", k) = InboxDue(b, t, f, g, o, c, k)
      BY SameDue
    <3> QED
      BY <1>7, <3>1 DEF Others, AppIs
  <2> QED
    BY <1>6, <1>14, <1>18, <2>2, <2>3, PeopleMove
<1>21. Mail(v.mailbox, MailDue(o, "leaving", k, n), t, f, IF o = "confirmed" THEN t ELSE f)
  <2>1. \A y \in Replies : y \in MailDue(o, "none", k, n) <=>
            y \in MailDue(o, c, k, n) /\ y # "CloseConfirmation"
    BY <1>7 DEF MailDue
  <2>2. Mail(Tail(mailbox), MailDue(o, "none", k, n), t, f, IF o = "confirmed" THEN t ELSE f)
    BY <1>1, <1>2, <2>1, ReplyTaken
  <2>3. PICK s : s = IF o = "confirmed" THEN t ELSE f
    OBVIOUS
  <2>4. Mail(Tail(mailbox), MailDue(o, "none", k, n), t, f, s)
    BY <2>2, <2>3
  <2>5. /\ "CloseRequest" \notin MailDue(o, "none", k, n)
        /\ \A y \in Replies : y \in MailDue(o, "leaving", k, n) <=>
               y \in MailDue(o, "none", k, n) \/ y = "CloseRequest"
    BY DEF MailDue, Replies
  <2>6. Mail(Append(Tail(mailbox), x), MailDue(o, "leaving", k, n), t, f, s)
    BY <1>3, <1>16, <2>4, <2>5, MailAppend
  <2> QED
    BY <1>18, <2>3, <2>6
<1>22. Alike(mailbox, v.mailbox)
  <2>1. Alike(Tail(mailbox), Append(Tail(mailbox), x))
    BY <1>3, <1>16, AppendAlike
  <2> QED
    BY <1>3, <1>18, <2>1 DEF Alike
<1>23. CASE o = "waiting"
  <2>1. state = "AwaitingCloseConfirmation" /\ stack # <<>> /\ stack[1].app = t
    BY <1>5, <1>7, <1>23 DEF Stage
  <2>2. People(v.object, t, f, g, "waiting", "leaving", k)
    BY <1>20, <1>23
  <2>3. "leaving" \in Closings
    BY DEF Closings
  <2>4. StartLaunching(v) = StartApplication(v, t)
    BY <1>18, <2>1, <2>2, <2>3, Launching
  <2>5. Become(StartApplication(v, t))
    BY <1>18, <1>19, <2>1, <2>4 DEF StartPendingApplicationOnCurrentClose
  <2>6. Mail(v.mailbox, MailDue("waiting", "leaving", k, n), t, f, f)
    BY <1>21, <1>23
  <2>7. MakesRoom(c, "leaving", n)
    BY <1>7 DEF MakesRoom
  <2>8. Opens(t, f, g, o, c, k, n, "leaving", n, v)
    BY <1>1, <1>2, <1>3, <1>18, <1>22, <1>23, <2>2, <2>3, <2>5, <2>6, <2>7 DEF Opens
  <2> QED
    BY <2>8, OpenStep
<1>24. CASE o # "waiting"
  <2>1. StartPendingApplicationOnCurrentClose(v) = v
    <3>1. CASE state = "AwaitingCloseConfirmation"
      <4>1. o = "initialised" /\ stack # <<>> /\ stack[1].app = t
        BY <1>5, <1>9, <1>24, <3>1 DEF Stage, Openings
      <4>2. object[t].alive /\ object[t].state = "INITIALIZING"
        BY <1>6, <4>1 DEF AppIs, TopIs
      <4>3. v.object[t] = object[t]
        BY <1>7, <1>14, <1>18 DEF Updated
      <4>4. StateOf(v, t) = "INITIALIZING"
        BY <4>2, <4>3 DEF StateOf
      <4>5. StartLaunching(v) = StartApplication(v, t)
        BY <1>18, <4>1, <4>4, LaunchesTop
      <4>6. Product = "PurePhone"
        BY <1>5, <1>7, <4>1 DEF Shape, StartsOnce
      <4>7. StartApplication(v, t) = v
        BY <4>4, <4>6 DEF StartApplication, IsApplicationStarting
      <4> QED
        BY <4>5, <4>7 DEF StartPendingApplicationOnCurrentClose
    <3>2. CASE state # "AwaitingCloseConfirmation"
      BY <1>18, <3>2 DEF StartPendingApplicationOnCurrentClose
    <3> QED
      BY <3>1, <3>2
  <2>2. Become(v)
    BY <1>19, <2>1
  <2>3. Stage(v.state, v.stack, v.wait, t, f, o, "leaving") /\ Shape(t, f, o, "leaving", n)
    BY <1>3, <1>5, <1>7, <1>18, <1>24 DEF Stage, Shape
  <2>4. WorldPhase(v, t, f, g, o, "leaving", k, n)
    BY <1>18, <1>20, <1>21, <2>3 DEF WorldPhase
  <2>5. Goes(t, f, o, k, o, "leaving", k, n)
    BY <1>7, <2>3 DEF Goes
  <2>6. "leaving" \in Closings
    BY DEF Closings
  <2>7. Moves(t, f, g, o, c, k, n, o, "leaving", n, v)
    BY <1>1, <1>2, <1>22, <2>2, <2>4, <2>5, <2>6 DEF Moves
  <2> QED
    BY <2>7, ReplyMoves
<1> QED
  BY <1>23, <1>24

\* The action in progress.
LEMMA InProgress ==
    ASSUME NEW ac, NEW p, NEW i, NEW q, NEW t, NEW o, NEW k,
           Registry(ac, p, i, q, t, o, k), RegistryTypes(ac, p, i), p # 0
    PROVE  /\ ac \in Seq([kind : RequestKinds, app : Apps]) /\ p \in DOMAIN ac /\ i = 0
           /\ ac[p] \in [kind : RequestKinds, app : Apps] /\ Acts(ac)
           /\ ac[p].kind = "Launch" => ac[p].app = t /\ o \notin AtRest
           /\ ac[p].kind # "Launch" <=> k # "none"
<1>1. ac \in Seq([kind : RequestKinds, app : Apps]) /\ p \in DOMAIN ac /\ i = 0
  BY DEF RegistryTypes, Registry
<1>2. ac[p].kind \in Customs \cup {"Launch", "Popup"}
  BY <1>1 DEF Registry, Acts
<1>3. ac[p].kind # "Launch" <=> k # "none"
  BY <1>2 DEF Registry, Customs
<1>4. ac[p] \in [kind : RequestKinds, app : Apps]
  BY <1>1, ElementType
<1> QED
  BY <1>1, <1>3, <1>4 DEF Registry

\* A part of a queue.
LEMMA PartOf ==
    ASSUME NEW S, NEW s \in Seq(S), NEW i \in Nat, NEW l \in Nat, l = Len(s), i <= l,
           NEW r, r = SubSeq(s, i + 1, l)
    PROVE  r \in Seq(S) /\ Len(r) = l - i /\ \A j \in 1 .. l - i : r[j] = s[i + j]
<1>1. \A j \in i + 1 .. l : s[j] \in S
  OBVIOUS
<1>2. i + 1 \in Int /\ l \in Int
  OBVIOUS
<1>3. /\ r \in Seq(S) /\ Len(r) = IF i + 1 <= l THEN l - (i + 1) + 1 ELSE 0
      /\ \A j \in 1 .. l - (i + 1) + 1 : r[j] = s[(i + 1) + j - 1]
  BY <1>1, <1>2, SubSeqProperties
<1>4. Len(r) = l - i
  BY <1>3
<1>5. ASSUME NEW j \in 1 .. l - i PROVE r[j] = s[i + j]
  <2>1. j \in 1 .. l - (i + 1) + 1 /\ (i + 1) + j - 1 = i + j
    OBVIOUS
  <2> QED
    BY <1>3, <2>1
<1> QED
  BY <1>3, <1>4, <1>5

\* The queue r is s without the element at position p; l is the length of s.
Lacks(r, s, p, l) ==
    /\ Len(r) = l - 1
    /\ \A j \in 1 .. l - 1 : r[j] = IF j < p THEN s[j] ELSE s[j + 1]

\* What is left of a queue without the element at position p.
LEMMA WithoutOne ==
    ASSUME NEW S, NEW s \in Seq(S), NEW l \in Nat, l = Len(s), NEW p \in Nat,
           1 <= p, p <= l
    PROVE  RemoveAt(s, p) \in Seq(S) /\ Lacks(RemoveAt(s, p), s, p, l)
<1> PICK r : r = RemoveAt(s, p)
  OBVIOUS
<1>1. PICK a : a = SubSeq(s, 1, p - 1)
  OBVIOUS
<1>2. PICK b : b = SubSeq(s, p + 1, l)
  OBVIOUS
<1>3. a \in Seq(S) /\ Len(a) = p - 1 /\ \A j \in 1 .. p - 1 : a[j] = s[j]
  <2>1. \A j \in 1 .. p - 1 : s[j] \in S
    OBVIOUS
  <2>2. p - 1 \in Int
    OBVIOUS
  <2>3. /\ a \in Seq(S) /\ Len(a) = IF 1 <= p - 1 THEN p - 1 - 1 + 1 ELSE 0
        /\ \A j \in 1 .. p - 1 - 1 + 1 : a[j] = s[1 + j - 1]
    BY <1>1, <2>1, <2>2, SubSeqProperties
  <2>4. ASSUME NEW j \in 1 .. p - 1 PROVE a[j] = s[j]
    <3>1. j \in 1 .. p - 1 - 1 + 1 /\ 1 + j - 1 = j
      OBVIOUS
    <3> QED
      BY <2>3, <3>1
  <2> QED
    BY <2>3, <2>4
<1>4. b \in Seq(S) /\ Len(b) = l - p /\ \A j \in 1 .. l - p : b[j] = s[p + j]
  BY <1>2, PartOf
<1>5. r = a \o b
  BY <1>1, <1>2 DEF RemoveAt
<1>6. /\ r \in Seq(S) /\ Len(r) = Len(a) + Len(b)
      /\ \A j \in 1 .. Len(a) + Len(b) : r[j] = IF j <= Len(a) THEN a[j] ELSE b[j - Len(a)]
  <2>1. /\ a \o b \in Seq(S) /\ Len(a \o b) = Len(a) + Len(b)
        /\ \A j \in 1 .. Len(a) + Len(b) :
               (a \o b)[j] = IF j <= Len(a) THEN a[j] ELSE b[j - Len(a)]
    BY <1>3, <1>4, ConcatProperties
  <2> QED
    BY <1>5, <2>1
<1>7. Len(a) + Len(b) = l - 1
  BY <1>3, <1>4
<1>8. ASSUME NEW j \in 1 .. l - 1 PROVE r[j] = IF j < p THEN s[j] ELSE s[j + 1]
  <2>1. r[j] = IF j <= p - 1 THEN a[j] ELSE b[j - (p - 1)]
    BY <1>3, <1>6, <1>7
  <2>2. CASE j < p
    <3>1. j \in 1 .. p - 1 /\ j <= p - 1
      BY <2>2
    <3> QED
      BY <1>3, <2>1, <2>2, <3>1
  <2>3. CASE ~ (j < p)
    <3>1. ~ (j <= p - 1) /\ j - (p - 1) \in 1 .. l - p /\ p + (j - (p - 1)) = j + 1
      BY <2>3
    <3>2. b[j - (p - 1)] = s[p + (j - (p - 1))]
      BY <1>4, <3>1
    <3> QED
      BY <2>1, <2>3, <3>1, <3>2
  <2> QED
    BY <2>2, <2>3
<1> QED
  BY <1>6, <1>7, <1>8 DEF Lacks

\* What is left of the registry without the action at position p.
LEMMA ActsWithout ==
    ASSUME NEW ac \in Seq([kind : RequestKinds, app : Apps]), Acts(ac), NEW p \in DOMAIN ac,
           NEW rest, rest = RemoveAt(ac, p)
    PROVE  /\ rest \in Seq([kind : RequestKinds, app : Apps]) /\ Len(rest) = Len(ac) - 1
           /\ Acts(rest)
<1>1. PICK T : T = [kind : RequestKinds, app : Apps]
  OBVIOUS
<1>2. PICK l \in Nat : l = Len(ac)
  OBVIOUS
<1>3. p \in 1 .. l /\ DOMAIN ac = 1 .. l /\ ac \in Seq(T)
  BY <1>1, <1>2
<1>4. /\ rest \in Seq(T) /\ Len(rest) = l - 1
      /\ \A j \in 1 .. l - 1 : rest[j] = IF j < p THEN ac[j] ELSE ac[j + 1]
  <2>1. p \in Nat /\ 1 <= p /\ p <= l
    BY <1>3
  <2>2. RemoveAt(ac, p) \in Seq(T)
    BY <1>2, <1>3, <2>1, WithoutOne
  <2>3. Lacks(RemoveAt(ac, p), ac, p, l)
    BY <1>2, <1>3, <2>1, WithoutOne
  <2> QED
    BY <2>2, <2>3 DEF Lacks
<1>5. ASSUME NEW j \in 1 .. l - 1 PROVE rest[j].kind \in Customs \cup {"Launch", "Popup"}
  <2>1. CASE j < p
    <3>1. j \in DOMAIN ac
      BY <1>3, <2>1
    <3> QED
      BY <1>4, <2>1, <3>1 DEF Acts
  <2>2. CASE ~ (j < p)
    <3>1. j + 1 \in DOMAIN ac
      BY <1>3, <2>2
    <3> QED
      BY <1>4, <2>2, <3>1 DEF Acts
  <2> QED
    BY <2>1, <2>2
<1> QED
  BY <1>1, <1>2, <1>4, <1>5 DEF Acts

\* The action in progress leaves the registry (finished), and others stay.
LEMMA FinishedLeaves ==
    ASSUME actions \in Seq([kind : RequestKinds, app : Apps]), pending \in DOMAIN actions,
           Acts(actions), Finished
    PROVE  /\ RegistryTypes(actions', pending', it')
           /\ pending' = 0 /\ it' = Position(1, actions') /\ Acts(actions')
<1>1. PICK T : T = [kind : RequestKinds, app : Apps]
  OBVIOUS
<1>2. PICK l \in Nat : l = Len(actions)
  OBVIOUS
<1>3. pending \in 1 .. l /\ DOMAIN actions = 1 .. l /\ actions \in Seq(T)
  BY <1>1, <1>2
<1>4. PICK rest : rest = RemoveAt(actions, pending)
  OBVIOUS
<1>5. rest \in Seq(T) /\ Len(rest) = l - 1 /\ Acts(rest)
  BY <1>1, <1>2, <1>4, ActsWithout
<1>6. \A j \in 1 .. l - 1 : rest[j].kind \in Customs \cup {"Launch", "Popup"}
  BY <1>2, <1>5 DEF Acts
<1>7. PICK m \in 0 .. Len(rest) : actions' = SubSeq(rest, m + 1, Len(rest))
  BY <1>4 DEF Finished
<1>8. PICK e \in Nat : e = Len(rest) /\ e = l - 1
  BY <1>3, <1>5
<1>9. m \in Nat /\ m <= e /\ actions' = SubSeq(rest, m + 1, e)
  BY <1>7, <1>8
<1>10. /\ actions' \in Seq(T) /\ Len(actions') = e - m
       /\ \A j \in 1 .. e - m : actions'[j] = rest[m + j]
  BY <1>5, <1>8, <1>9, PartOf
<1>11. ASSUME NEW j \in DOMAIN actions' PROVE actions'[j].kind \in Customs \cup {"Launch", "Popup"}
  <2>1. j \in 1 .. e - m
    BY <1>10
  <2>2. m + j \in 1 .. l - 1
    BY <1>8, <1>9, <2>1
  <2> QED
    BY <1>6, <1>10, <2>1, <2>2
<1>12. pending' = 0 /\ it' = Position(1, actions')
  BY DEF Finished
<1>13. RegistryTypes(actions', pending', it')
  BY <1>1, <1>10, <1>12 DEF RegistryTypes, Position
<1> QED
  BY <1>11, <1>12, <1>13 DEF Acts

\* Whatever waits in the registry is looked at from the first on.
LEMMA LooksAgain ==
    ASSUME NEW ac \in Seq([kind : RequestKinds, app : Apps]), Acts(ac),
           NEW q, NEW t, NEW o, o # "boot"
    PROVE  Registry(ac, 0, Position(1, ac), q, t, o, "none")
<1>1. Position(1, ac) = IF ac = <<>> THEN 0 ELSE 1
  BY DEF Position
<1> QED
  BY <1>1 DEF Registry

\* An application confirms a switch (handleSwitchConfirmation).  If it is the
\* one on top, the opening has come to its end and the registry is told; if it
\* is the other one, it has made room.
LEMMA SwitchConfirmationStep ==
    ASSUME NEW t \in Apps, NEW f \in Apps, NEW g \in Apps, NEW o \in Openings,
           NEW c \in Closings, NEW k \in Errands, NEW n \in BOOLEAN,
           At(t, f, g, o, c, k, n), HandleSwitchConfirmation
    PROVE  IInv'
<1>1. Handles("SwitchConfirmation")
  BY DEF HandleSwitchConfirmation
<1>2. "SwitchConfirmation" \in Replies
  BY DEF Replies
<1>3. /\ "SwitchConfirmation" \in MailDue(o, c, k, n) /\ Alike(mailbox, Tail(mailbox))
      /\ Head(mailbox).app = IF o = "confirmed" THEN t ELSE f
      /\ wait = NoApp /\ it = 0 /\ o # "boot" /\ requests' = requests /\ crossings' = crossings
  BY <1>1, <1>2, Receipt
<1>4. /\ Received \in Worlds /\ Received.state = state /\ Received.stack = stack
      /\ Received.object = object /\ Received.wait = NoApp
      /\ Received.mailbox = Tail(mailbox) /\ Received.fault = {}
  BY <1>1, Receipt
<1>5. /\ object \in Objects /\ Stage(state, stack, wait, t, f, o, c) /\ Shape(t, f, o, c, n)
      /\ AppIs(f, object[f].state, object[f].alive, t, f, o, c)
      /\ Box(object[f].inbox, InboxDue(f, t, f, g, o, c, k))
      /\ People(object, t, f, g, o, c, k)
  BY Known
<1>6. /\ AppIs(t, object[t].state, object[t].alive, t, f, o, c)
      /\ Box(object[t].inbox, InboxDue(t, t, f, g, o, c, k))
      /\ RegistryTypes(actions, pending, it)
      /\ requests \in 0 .. MaxRequests /\ crossings \in 0 .. MaxCrossings
      /\ Registry(actions, pending, it, mailbox, t, o, k)
  BY Known
<1>7. CASE o = "confirmed"
  <2>1. Head(mailbox).app = t /\ state = "AwaitingFocusConfirmation" /\ c # "left"
    BY <1>3, <1>5, <1>7 DEF Stage, Shape
  <2>2. object[t].alive /\ object[t].state = "ACTIVE_FORGROUND"
    BY <1>6, <1>7 DEF AppIs, TopIs
  <2>3. PICK u : u = SetState(Received, t, "ACTIVE_FORGROUND")
    OBVIOUS
  <2>4. /\ OnlyObjects(u, Received)
        /\ Updated(object, u.object, t, "ACTIVE_FORGROUND", object[t].inbox)
    BY <1>4, <2>2, <2>3, SetStateDoes DEF AppState
  <2>5. PICK v : v = [u EXCEPT !.state = "Running"]
    OBVIOUS
  <2>6. /\ v \in Worlds /\ v.state = "Running" /\ v.stack = stack /\ v.object = u.object
        /\ v.wait = NoApp /\ v.mailbox = Tail(mailbox) /\ v.fault = {}
    <3>1. u \in Worlds /\ "Running" \in ManagerState
      BY <2>4 DEF OnlyObjects, ManagerState
    <3>2. /\ v \in Worlds /\ v.state = "Running" /\ v.stack = u.stack /\ v.object = u.object
          /\ v.wait = u.wait /\ v.mailbox = u.mailbox /\ v.fault = u.fault
      BY <2>5, <3>1, FieldsDo
    <3> QED
      BY <1>4, <2>4, <3>2 DEF OnlyObjects
  <2>7. Become(v) /\ OnLaunchFinished(t)
    BY <2>1, <2>3, <2>5 DEF HandleSwitchConfirmation
  <2>8. People(v.object, t, f, g, "quiet", c, k)
    <3>1. InboxDue(t, t, f, g, "quiet", c, k) = InboxDue(t, t, f, g, o, c, k)
      BY <1>7, SameDue
    <3>2. Fits(t, "ACTIVE_FORGROUND", object[t].inbox, t, f, g, "quiet", c, k)
      BY <1>6, <3>1 DEF Fits, AppIs, TopIs
    <3>3. Others(object, t, t, f, g, o, c, k, t, f, g, "quiet", c, k)
      <4>1. \A b \in Apps : b # t =>
                InboxDue(b, t, f, g, "quiet", c, k) = InboxDue(b, t, f, g, o, c, k)
        BY SameDue
      <4> QED
        BY <4>1 DEF Others, AppIs
    <3> QED
      BY <1>5, <2>4, <2>6, <3>2, <3>3, PeopleMove
  <2>9. Mail(Tail(mailbox), MailDue("quiet", c, k, n), t, f,
             IF "quiet" = "confirmed" THEN t ELSE f)
    <3>1. \A y \in Replies : y \in MailDue("quiet", c, k, n) <=>
              y \in MailDue(o, c, k, n) /\ y # "SwitchConfirmation"
      BY <1>7, <2>1 DEF MailDue
    <3>2. "SwitchConfirmation" \notin MailDue("quiet", c, k, n)
      BY <2>1 DEF MailDue
    <3> QED
      BY <1>1, <1>2, <3>1, <3>2, ReplyTaken
  <2>10. Stage(v.state, v.stack, v.wait, t, f, "quiet", c) /\ Shape(t, f, "quiet", c, n)
    BY <1>3, <1>5, <1>7, <2>6 DEF Stage, Shape
  <2>11. WorldPhase(v, t, f, g, "quiet", c, k, n)
    BY <2>6, <2>8, <2>9, <2>10 DEF WorldPhase
  <2>12. RegistryTypes(actions', pending', it')
         /\ Registry(actions', pending', it', Tail(mailbox), t, "quiet", k)
    <3>1. PICK q, oo : q = Tail(mailbox) /\ oo = "quiet"
      OBVIOUS
    <3>2. CASE pending = 0
      <4>1. it' = Position(1, actions) /\ actions' = actions /\ pending' = 0
        BY <2>7, <3>2 DEF OnLaunchFinished
      <4>2. RegistryTypes(actions, 0, Position(1, actions))
        BY <1>6 DEF RegistryTypes, Position
      <4>3. actions \in Seq([kind : RequestKinds, app : Apps]) /\ Acts(actions)
        BY <1>6 DEF RegistryTypes, Registry
      <4>4. k = "none"
        BY <1>6, <3>2 DEF Registry
      <4>5. Registry(actions, 0, Position(1, actions), q, t, oo, "none")
        BY <3>1, <4>3, LooksAgain
      <4> QED
        BY <3>1, <4>1, <4>2, <4>4, <4>5
    <3>3. CASE pending # 0
      <4>1. /\ actions \in Seq([kind : RequestKinds, app : Apps]) /\ pending \in DOMAIN actions
            /\ Acts(actions)
        BY <1>6, <3>3, InProgress
      <4>2. /\ actions[pending].kind = "Launch" => actions[pending].app = t
            /\ actions[pending].kind # "Launch" <=> k # "none"
        BY <1>6, <3>3, InProgress
      <4>3. CASE actions[pending].kind = "Launch"
        <5>1. Finished
          BY <2>7, <3>3, <4>2, <4>3 DEF OnLaunchFinished
        <5>2. /\ RegistryTypes(actions', pending', it')
              /\ pending' = 0 /\ it' = Position(1, actions') /\ Acts(actions')
          BY <4>1, <5>1, FinishedLeaves
        <5>3. PICK ac : ac = actions'
          OBVIOUS
        <5>4. ac \in Seq([kind : RequestKinds, app : Apps]) /\ Acts(ac)
          BY <5>2, <5>3 DEF RegistryTypes
        <5>5. Registry(ac, 0, Position(1, ac), q, t, oo, "none")
          BY <3>1, <5>4, LooksAgain
        <5> QED
          BY <3>1, <4>2, <4>3, <5>2, <5>3, <5>5
      <4>4. CASE actions[pending].kind # "Launch"
        <5>1. actions' = actions /\ pending' = pending /\ it' = it
          BY <2>7, <3>3, <4>4 DEF OnLaunchFinished, registry
        <5>2. Registry(actions, pending, it, Tail(mailbox), t, "quiet", k)
          BY <1>3, <1>6, <3>3, <4>4 DEF Registry
        <5> QED
          BY <1>6, <5>1, <5>2
      <4> QED
        BY <4>3, <4>4
    <3> QED
      BY <3>2, <3>3
  <2>13. /\ "quiet" \in Openings
         /\ requests' \in 0 .. MaxRequests /\ crossings' \in 0 .. MaxCrossings
    BY <1>3, <1>6 DEF Openings
  <2>14. Registry(actions', pending', it', v.mailbox, t, "quiet", k)
    BY <2>6, <2>12
  <2>15. PICK oo \in Openings : oo = "quiet"
    BY <2>13
  <2>16. /\ WorldPhase(v, t, f, g, oo, c, k, n) /\ Become(v)
         /\ RegistryTypes(actions', pending', it')
         /\ Registry(actions', pending', it', v.mailbox, t, oo, k)
         /\ it' # 0 => v.wait = NoApp
    BY <2>6, <2>7, <2>11, <2>12, <2>14, <2>15
  <2> QED
    BY <2>13, <2>16, Settle
<1>8. CASE o # "confirmed"
  <2>1. c = "left" /\ o = "waiting" /\ Head(mailbox).app = f /\ f # t /\ ~ n
        /\ state = "AwaitingLostFocusConfirmation" /\ stack # <<>> /\ stack[1].app = t
    BY <1>3, <1>5, <1>8 DEF Stage, Shape, MailDue
  <2>2. object[f].alive /\ object[f].state = "ACTIVE_BACKGROUND"
    BY <1>5, <2>1 DEF AppIs, LeaverIs
  <2>3. GetLaunchingApplication(Now) = t /\ t # NoApp
    <3>1. Now \in Worlds
      BY DEF At, WorldPhase
    <3>2. StateOf(Now, t) # "ACTIVE_FORGROUND"
      BY <1>6, <2>1, NowFields DEF StateOf, AppIs, TopIs
    <3>3. GetLaunchingApplication(Now) = t
      BY <2>1, <3>1, <3>2, NowFields, LaunchesTop
    <3> QED
      BY <3>3, AppManagerAssumption
  <2>4. PICK w : w = SetState(Received, f, "ACTIVE_BACKGROUND")
    OBVIOUS
  <2>5. /\ OnlyObjects(w, Received)
        /\ Updated(object, w.object, f, "ACTIVE_BACKGROUND", object[f].inbox)
    BY <1>4, <2>2, <2>4, SetStateDoes DEF AppState
  <2>6. Become(StartApplication(w, t)) /\ UNCHANGED registry
    BY <2>1, <2>3, <2>4 DEF HandleSwitchConfirmation
  <2>7. /\ w \in Worlds /\ w.fault = {} /\ w.wait = NoApp /\ w.stack = stack
        /\ w.mailbox = Tail(mailbox)
    BY <1>4, <2>5 DEF OnlyObjects
  <2>8. People(w.object, t, f, g, "waiting", "none", k)
    <3>1. InboxDue(f, t, f, g, "waiting", "none", k) = InboxDue(f, t, f, g, o, c, k)
      BY <2>1, SameDue
    <3>2. Fits(f, "ACTIVE_BACKGROUND", object[f].inbox, t, f, g, "waiting", "none", k)
      BY <1>5, <2>1, <3>1 DEF Fits, AppIs
    <3>3. Others(object, f, t, f, g, o, c, k, t, f, g, "waiting", "none", k)
      <4>1. \A b \in Apps : b # f =>
                InboxDue(b, t, f, g, "waiting", "none", k) = InboxDue(b, t, f, g, o, c, k)
        BY <2>1, SameDue
      <4> QED
        BY <2>1, <4>1 DEF Others, AppIs
    <3> QED
      BY <1>5, <2>5, <3>2, <3>3, PeopleMove
  <2>9. Mail(Tail(mailbox), MailDue(o, "none", k, n), t, f, IF o = "confirmed" THEN t ELSE f)
    <3>1. \A y \in Replies : y \in MailDue(o, "none", k, n) <=>
              y \in MailDue(o, c, k, n) /\ y # "SwitchConfirmation"
      BY <1>8, <2>1 DEF MailDue
    <3> QED
      BY <1>1, <1>2, <3>1, ReplyTaken
  <2>10. Mail(w.mailbox, MailDue("waiting", "none", k, n), t, f, f)
    BY <2>1, <2>7, <2>9
  <2>11. Alike(mailbox, w.mailbox) /\ "none" \in Closings /\ MakesRoom(c, "none", n)
    BY <1>3, <2>1, <2>7 DEF Closings, MakesRoom
  <2>12. PICK cc \in Closings : cc = "none"
    BY <2>11
  <2>13. PICK y \in Replies : y = "SwitchConfirmation"
    BY <1>2
  <2>14. /\ People(w.object, t, f, g, "waiting", cc, k) /\ MakesRoom(c, cc, n)
         /\ Mail(w.mailbox, MailDue("waiting", cc, k, n), t, f, f)
         /\ Handles(y)
    BY <1>1, <2>8, <2>10, <2>11, <2>12, <2>13
  <2>15. /\ o = "waiting" /\ ~ n /\ w \in Worlds /\ w.fault = {} /\ w.wait = NoApp
         /\ w.stack = stack /\ Become(StartApplication(w, t)) /\ UNCHANGED registry
         /\ Alike(mailbox, w.mailbox)
    BY <2>1, <2>6, <2>7, <2>11
  <2>16. Opens(t, f, g, o, c, k, n, cc, n, w)
    BY <2>14, <2>15 DEF Opens
  <2> QED
    BY <2>16, OpenStep
<1> QED
  BY <1>7, <1>8

\* An application has carried out an action (handleActionHandled): there is
\* an action in progress, and it leaves the registry.
LEMMA HandledStep ==
    ASSUME NEW t \in Apps, NEW f \in Apps, NEW g \in Apps, NEW o \in Openings,
           NEW c \in Closings, NEW k \in Errands, NEW n \in BOOLEAN,
           At(t, f, g, o, c, k, n), HandleActionHandled
    PROVE  IInv'
<1>1. Handles("ActionHandled")
  BY DEF HandleActionHandled
<1>2. "ActionHandled" \in Replies
  BY DEF Replies
<1>3. /\ "ActionHandled" \in MailDue(o, c, k, n) /\ wait = NoApp /\ o # "boot"
      /\ requests' = requests /\ crossings' = crossings
  BY <1>1, <1>2, Receipt
<1>4. /\ Received \in Worlds /\ Received.state = state /\ Received.stack = stack
      /\ Received.object = object /\ Received.wait = NoApp
      /\ Received.mailbox = Tail(mailbox) /\ Received.fault = {}
  BY <1>1, Receipt
<1>5. /\ Stage(state, stack, wait, t, f, o, c) /\ Shape(t, f, o, c, n)
      /\ People(object, t, f, g, o, c, k)
      /\ RegistryTypes(actions, pending, it)
      /\ requests \in 0 .. MaxRequests /\ crossings \in 0 .. MaxCrossings
      /\ Registry(actions, pending, it, mailbox, t, o, k)
  BY Known
<1>6. k = "answered"
  BY <1>3 DEF MailDue
<1>7. pending # 0
  BY <1>5, <1>6 DEF Registry
<1>8. /\ actions \in Seq([kind : RequestKinds, app : Apps]) /\ pending \in DOMAIN actions
      /\ Acts(actions)
  BY <1>5, <1>7, InProgress
<1>9. Finished
  BY <1>7 DEF HandleActionHandled
<1>10. /\ RegistryTypes(actions', pending', it')
       /\ pending' = 0 /\ it' = Position(1, actions') /\ Acts(actions')
  BY <1>8, <1>9, FinishedLeaves
<1>11. Registry(actions', pending', it', Tail(mailbox), t, o, "none")
  <2>1. PICK ac : ac = actions'
    OBVIOUS
  <2>2. ac \in Seq([kind : RequestKinds, app : Apps]) /\ Acts(ac)
    BY <1>10, <2>1 DEF RegistryTypes
  <2>3. PICK q : q = Tail(mailbox)
    OBVIOUS
  <2>4. Registry(ac, 0, Position(1, ac), q, t, o, "none")
    BY <1>3, <2>2, <2>3, LooksAgain
  <2> QED
    BY <1>10, <2>1, <2>3, <2>4
<1>12. PICK v : v = Received
  OBVIOUS
<1>13. Become(v)
  <2>1. Become([Received EXCEPT !.fault = IF pending = 0 THEN @ \cup {"action"} ELSE @])
    BY DEF HandleActionHandled
  <2>2. [Received EXCEPT !.fault = IF pending = 0 THEN @ \cup {"action"} ELSE @] = Received
    BY <1>4, <1>7 DEF Worlds
  <2> QED
    BY <1>12, <2>1, <2>2
<1>14. People(object, t, f, g, o, c, "none")
  <2>1. \A b \in Apps : InboxDue(b, t, f, g, o, c, "none") = InboxDue(b, t, f, g, o, c, k)
    BY <1>6, SameDue
  <2> QED
    BY <1>5, <2>1 DEF People
<1>15. Mail(Tail(mailbox), MailDue(o, c, "none", n), t, f, IF o = "confirmed" THEN t ELSE f)
  <2>1. \A y \in Replies : y \in MailDue(o, c, "none", n) <=>
            y \in MailDue(o, c, k, n) /\ y # "ActionHandled"
    BY <1>6 DEF MailDue
  <2> QED
    BY <1>1, <1>2, <2>1, ReplyTaken
<1>16. WorldPhase(v, t, f, g, o, c, "none", n)
  BY <1>3, <1>4, <1>5, <1>12, <1>14, <1>15 DEF WorldPhase
<1>17. /\ Registry(actions', pending', it', v.mailbox, t, o, "none")
       /\ requests' \in 0 .. MaxRequests /\ crossings' \in 0 .. MaxCrossings
       /\ v.wait = NoApp /\ "none" \in Errands
  BY <1>3, <1>4, <1>5, <1>11, <1>12 DEF Errands
<1> QED
  BY <1>10, <1>13, <1>16, <1>17, Settle

\* The application t in the foreground is asked to close, or else to give up
\* the focus (handleSwitchApplication, handleSwitchBack).
AskToLeave(w, t) == RequestApplicationClose(w, t, TRUE \in IsApplicationCloseable(w, t))

\* It makes room for a, by the one or the other.
LeavesFor(v, w, a, t, g, k, n) ==
    /\ v.mailbox = w.mailbox
    /\ \E cc \in {"closing", "unfocusing"} : WorldPhase(v, a, t, g, "waiting", cc, k, n)

\* The application in the foreground is asked to make room for the one that is
\* on top now (requestApplicationClose).
LEMMA CloseAsked ==
    ASSUME NEW w \in Worlds, w.fault = {}, w.wait = NoApp, w.stack # <<>>,
           NEW a \in Apps, w.stack[1].app = a, NEW t \in Apps, a # t, NEW f \in Apps,
           NEW g \in Apps, NEW k \in Errands, NEW n \in BOOLEAN, ~ n,
           People(w.object, t, f, g, "quiet", "none", k),
           Mail(w.mailbox, MailDue("quiet", "none", k, n), t, f, f)
    PROVE  LeavesFor(AskToLeave(w, t), w, a, t, g, k, n)
<1> PICK v : v = AskToLeave(w, t)
  OBVIOUS
<1>1. PICK cc : cc = IF TRUE \in IsApplicationCloseable(w, t) THEN "closing" ELSE "unfocusing"
  OBVIOUS
<1>2. PICK m, s : /\ m = IF cc = "closing" THEN "Close" ELSE "LostFocus"
                  /\ s = IF cc = "closing" THEN "AwaitingCloseConfirmation"
                         ELSE "AwaitingLostFocusConfirmation"
  OBVIOUS
<1>3. /\ m \in {"Close", "LostFocus"} /\ m \in AppMessages /\ s \in ManagerState
      /\ cc \in {"closing", "unfocusing"}
      /\ m = "Close" <=> cc = "closing"
      /\ s = IF cc = "unfocusing" THEN "AwaitingLostFocusConfirmation"
             ELSE "AwaitingCloseConfirmation"
  BY <1>1, <1>2, Members DEF ManagerState
<1>4. PICK x : x = SendTo(w, t, m)
  OBVIOUS
<1>5. v = [x EXCEPT !.state = s]
  BY <1>1, <1>2, <1>4 DEF AskToLeave, RequestApplicationClose
<1>6. /\ w.object[t].inbox \in Seq(AppMessages)
      /\ w.object[t].alive /\ w.object[t].state = "ACTIVE_FORGROUND"
      /\ Box(w.object[t].inbox, InboxDue(t, t, f, g, "quiet", "none", k))
  BY DEF Worlds, Objects, People, AppIs, TopIs
<1>7. /\ OnlyObjects(x, w)
      /\ Updated(w.object, x.object, t, "ACTIVE_FORGROUND", Append(w.object[t].inbox, m))
  BY <1>3, <1>4, <1>6, SendToDoes
<1>8. /\ v \in Worlds /\ v.state = s /\ v.stack = w.stack /\ v.object = x.object
      /\ v.wait = NoApp /\ v.mailbox = w.mailbox /\ v.fault = {}
  <2>1. x \in Worlds /\ s \in ManagerState
    BY <1>3, <1>7 DEF OnlyObjects
  <2>2. /\ v \in Worlds /\ v.state = s /\ v.stack = x.stack /\ v.object = x.object
        /\ v.wait = x.wait /\ v.mailbox = x.mailbox /\ v.fault = x.fault
    BY <1>5, <2>1, FieldsDo
  <2> QED
    BY <1>7, <2>2 DEF OnlyObjects
<1>9. ASSUME cc = "closing"
      PROVE  t \in Closeable
             /\ \A i \in DOMAIN w.stack : w.stack[i].app = t => w.stack[i].closeable
  <2>1. PICK h \in HandleCloseable(w, t) :
            TRUE = (h /\ (\A i \in DOMAIN w.stack : w.stack[i].app = t => w.stack[i].closeable))
    BY <1>1, <1>9 DEF IsApplicationCloseable
  <2>2. h /\ \A i \in DOMAIN w.stack : w.stack[i].app = t => w.stack[i].closeable
    BY <2>1
  <2>3. t \notin Closeable => HandleCloseable(w, t) = {FALSE}
    BY DEF HandleCloseable
  <2> QED
    BY <2>2, <2>3
<1>10. People(v.object, a, t, g, "waiting", cc, k)
  <2>1. Box(Append(w.object[t].inbox, m), InboxDue(t, a, t, g, "waiting", cc, k))
    <3>1. \A l \in AppMessages : l \in InboxDue(t, a, t, g, "waiting", cc, k) <=>
              l \in InboxDue(t, t, f, g, "quiet", "none", k) \/ l = m
      BY <1>3 DEF InboxDue, AppMessages
    <3>2. /\ m \notin InboxDue(t, t, f, g, "quiet", "none", k)
          /\ "Exit" \notin InboxDue(t, t, f, g, "quiet", "none", k)
      BY <1>3 DEF InboxDue
    <3> QED
      BY <1>3, <1>6, <3>1, <3>2, BoxAppend
  <2>2. Fits(t, "ACTIVE_FORGROUND", Append(w.object[t].inbox, m), a, t, g, "waiting", cc, k)
    BY <1>3, <2>1 DEF Fits, AppIs, LeaverIs
  <2>3. Others(w.object, t, t, f, g, "quiet", "none", k, a, t, g, "waiting", cc, k)
    <3>1. ASSUME NEW d \in Apps, d # t
          PROVE  InboxDue(d, a, t, g, "waiting", cc, k) = InboxDue(d, t, f, g, "quiet", "none", k)
      BY <3>1, SameDue
    <3> QED
      BY <3>1 DEF Others, AppIs, TopIs
  <2>4. People(x.object, a, t, g, "waiting", cc, k)
    BY <1>7, <2>2, <2>3, PeopleMove
  <2> QED
    BY <1>8, <2>4
<1>11. Mail(w.mailbox, MailDue("waiting", cc, k, n), a, t, t)
  <2>1. MailDue("waiting", cc, k, n) = MailDue("quiet", "none", k, n)
    BY <1>3 DEF MailDue
  <2>2. PICK Y : Y = MailDue("quiet", "none", k, n)
    OBVIOUS
  <2>3. /\ "Initialised" \notin Y /\ "CloseConfirmation" \notin Y /\ "FinalizingClose" \notin Y
        /\ "CloseRequest" \notin Y /\ "SwitchConfirmation" \notin Y
    BY <2>2 DEF MailDue
  <2>4. Mail(w.mailbox, Y, a, t, t)
    BY <2>2, <2>3, MailNames
  <2> QED
    BY <2>1, <2>2, <2>4
<1>12. Stage(v.state, v.stack, v.wait, a, t, "waiting", cc)
  BY <1>2, <1>3, <1>8, <1>9 DEF Stage
<1>13. Shape(a, t, "waiting", cc, n)
  BY <1>3 DEF Shape
<1>14. WorldPhase(v, a, t, g, "waiting", cc, k, n)
  BY <1>8, <1>10, <1>11, <1>12, <1>13 DEF WorldPhase
<1> QED
  BY <1>3, <1>8, <1>14 DEF LeavesFor

\* The world v is w with the application a on top of the stack.
IsPushed(v, w, a) ==
    /\ v \in Worlds /\ v.stack # <<>> /\ v.stack[1].app = a
    /\ v.state = w.state /\ v.object = w.object /\ v.wait = w.wait
    /\ v.mailbox = w.mailbox /\ v.fault = w.fault

\* The application a comes onto the stack (onApplicationSwitch).
LEMMA Pushes ==
    ASSUME NEW w \in Worlds, NEW a \in Apps
    PROVE  IsPushed(OnApplicationSwitch(w, a), w, a)
<1> PICK v : v = OnApplicationSwitch(w, a)
  OBVIOUS
<1>1. PICK e \in [app : Apps, closeable : BOOLEAN] : e = [app |-> a, closeable |-> TRUE]
  OBVIOUS
<1>2. PICK r : r = IF a = Root THEN <<>> ELSE w.stack
  OBVIOUS
<1>3. PICK q : q = <<e>> \o r
  OBVIOUS
<1>4. q \in Stacks /\ q # <<>> /\ q[1] = e
  <2>1. r \in Stacks
    BY <1>2 DEF Worlds, Stacks
  <2> QED
    BY <1>3, <2>1 DEF Stacks
<1>5. v = [w EXCEPT !.stack = q]
  BY <1>1, <1>2, <1>3 DEF OnApplicationSwitch
<1>6. /\ v \in Worlds /\ v.stack = q
      /\ v.state = w.state /\ v.object = w.object /\ v.wait = w.wait
      /\ v.mailbox = w.mailbox /\ v.fault = w.fault
  BY <1>4, <1>5, FieldsDo
<1> QED
  BY <1>1, <1>4, <1>6 DEF IsPushed

\* The one on top is marked as closeable or not (handleSwitchApplication).
LEMMA Marks ==
    ASSUME NEW w \in Worlds, NEW b \in BOOLEAN, w.stack # <<>>,
           NEW v, v = [w EXCEPT !.stack[1].closeable = b]
    PROVE  /\ v \in Worlds
           /\ v.state = w.state /\ v.object = w.object /\ v.wait = w.wait
           /\ v.mailbox = w.mailbox /\ v.fault = w.fault
<1>1. PICK r : r = [w.stack EXCEPT ![1].closeable = b]
  OBVIOUS
<1>2. w.stack \in Seq([app : Apps, closeable : BOOLEAN]) /\ 1 \in DOMAIN w.stack
  BY DEF Worlds, Stacks
<1>3. w.stack[1] \in [app : Apps, closeable : BOOLEAN]
  BY <1>2, ElementType
<1>4. PICK e \in [app : Apps, closeable : BOOLEAN] : e = [w.stack[1] EXCEPT !.closeable = b]
  BY <1>3
<1>5. r = [w.stack EXCEPT ![1] = e]
  BY <1>1, <1>4
<1>6. r \in Stacks
  BY <1>2, <1>4, <1>5 DEF Stacks
<1>7. v = [w EXCEPT !.stack = r]
  BY <1>1 DEF Worlds
<1> QED
  BY <1>6, <1>7, FieldsDo

\* The application t is told to show itself again.
Shows(v, w, t, f, g, k, n) ==
    WorldPhase(v, t, f, g, "told", "none", k, n) /\ v.mailbox = w.mailbox

\* The application a is the first one to open.
Boots(v, w, a, f, g, k, n) ==
    /\ v.mailbox = w.mailbox
    /\ \E oo \in {"started", "switching"} : WorldPhase(v, a, f, g, oo, "none", k, n)

\* A switch while the application on top has the focus
\* (handleSwitchApplication): it is told to show itself again, or asked to
\* make room for another one.
LEMMA SwitchMoves ==
    ASSUME NEW t \in Apps, NEW f \in Apps, NEW g \in Apps, NEW k \in Errands,
           NEW n \in BOOLEAN, NEW w, WorldPhase(w, t, f, g, "quiet", "none", k, n),
           NEW a \in Apps, NEW b \in BOOLEAN
    PROVE  /\ SwitchBegins(w, a) <=> a # t
           /\ a = t => Shows(HandleSwitchApplication(w, a, b), w, t, f, g, k, n)
           /\ a # t => LeavesFor(HandleSwitchApplication(w, a, b), w, a, t, g, k, n)
<1> PICK v : v = HandleSwitchApplication(w, a, b)
  OBVIOUS
<1>1. /\ w \in Worlds /\ w.fault = {}
      /\ Stage(w.state, w.stack, w.wait, t, f, "quiet", "none")
      /\ Shape(t, f, "quiet", "none", n) /\ People(w.object, t, f, g, "quiet", "none", k)
      /\ Mail(w.mailbox, MailDue("quiet", "none", k, n), t, f, f)
  BY DEF WorldPhase
<1>2. /\ w.stack # <<>> /\ w.stack[1].app = t /\ w.wait = NoApp /\ w.state = "Running"
      /\ ~ n /\ t # NoApp
  BY <1>1, AppManagerAssumption DEF Stage, Shape
<1>3. /\ w.object[t].inbox \in Seq(AppMessages)
      /\ w.object[t].alive /\ w.object[t].state = "ACTIVE_FORGROUND"
      /\ Box(w.object[t].inbox, InboxDue(t, t, f, g, "quiet", "none", k))
  BY <1>1 DEF Worlds, Objects, People, AppIs, TopIs
<1>4. GetFocusedApplication(w) = t
  BY <1>1, <1>2, <1>3, FocusFound DEF StateOf
<1>5. PICK u : u = [w EXCEPT !.stack[1].closeable = b]
  OBVIOUS
<1>6. /\ u \in Worlds /\ u.state = w.state /\ u.object = w.object /\ u.wait = w.wait
      /\ u.mailbox = w.mailbox /\ u.fault = w.fault
  BY <1>1, <1>2, <1>5, Marks
<1>7. PICK p : p = OnApplicationSwitch(u, a)
  OBVIOUS
<1>8. /\ p \in Worlds /\ p.stack # <<>> /\ p.stack[1].app = a
      /\ p.state = w.state /\ p.object = w.object /\ p.wait = w.wait
      /\ p.mailbox = w.mailbox /\ p.fault = w.fault
  BY <1>6, <1>7, Pushes DEF IsPushed
<1>9. v = IF a = t THEN SendTo(p, a, "Switch")
          ELSE AskToLeave(p, t)
  BY <1>2, <1>4, <1>5, <1>7 DEF HandleSwitchApplication, AskToLeave
<1>10. SwitchBegins(w, a) <=> a # t
  BY <1>2, <1>4 DEF SwitchBegins
<1>11. ASSUME a = t PROVE WorldPhase(v, t, f, g, "told", "none", k, n) /\ v.mailbox = w.mailbox
  <2>1. /\ OnlyObjects(v, p)
        /\ Updated(w.object, v.object, t, "ACTIVE_FORGROUND", Append(w.object[t].inbox, "Switch"))
    BY <1>3, <1>8, <1>9, <1>11, Members, SendToDoes
  <2>2. Box(Append(w.object[t].inbox, "Switch"), InboxDue(t, t, f, g, "told", "none", k))
    <3>1. \A l \in AppMessages : l \in InboxDue(t, t, f, g, "told", "none", k) <=>
              l \in InboxDue(t, t, f, g, "quiet", "none", k) \/ l = "Switch"
      BY DEF InboxDue, AppMessages
    <3>2. /\ "Switch" \notin InboxDue(t, t, f, g, "quiet", "none", k)
          /\ "Exit" \notin InboxDue(t, t, f, g, "quiet", "none", k)
      BY DEF InboxDue
    <3> QED
      BY <1>3, <3>1, <3>2, Members, BoxAppend
  <2>3. Fits(t, "ACTIVE_FORGROUND", Append(w.object[t].inbox, "Switch"),
             t, f, g, "told", "none", k)
    BY <2>2 DEF Fits, AppIs, TopIs
  <2>4. Others(w.object, t, t, f, g, "quiet", "none", k, t, f, g, "told", "none", k)
    <3>1. ASSUME NEW d \in Apps, d # t
          PROVE  InboxDue(d, t, f, g, "told", "none", k) = InboxDue(d, t, f, g, "quiet", "none", k)
      BY <3>1, SameDue
    <3> QED
      BY <3>1 DEF Others, AppIs
  <2>5. People(v.object, t, f, g, "told", "none", k)
    BY <1>1, <2>1, <2>3, <2>4, PeopleMove
  <2>6. MailDue("told", "none", k, n) = MailDue("quiet", "none", k, n)
    BY DEF MailDue
  <2>7. /\ v \in Worlds /\ v.fault = {} /\ v.mailbox = w.mailbox /\ v.state = w.state
        /\ v.wait = w.wait /\ v.stack # <<>> /\ v.stack[1].app = t
    BY <1>1, <1>8, <1>11, <2>1 DEF OnlyObjects
  <2>8. Stage(v.state, v.stack, v.wait, t, f, "told", "none") /\ Shape(t, f, "told", "none", n)
    BY <1>1, <1>2, <2>7 DEF Stage, Shape
  <2>9. Mail(v.mailbox, MailDue("told", "none", k, n), t, f, f)
    BY <1>1, <2>6, <2>7
  <2> QED
    BY <2>5, <2>7, <2>8, <2>9 DEF WorldPhase
<1>12. ASSUME a # t PROVE LeavesFor(v, w, a, t, g, k, n)
  <2>1. v = AskToLeave(p, t)
    BY <1>9, <1>12
  <2>2. /\ p.fault = {} /\ p.wait = NoApp
        /\ People(p.object, t, f, g, "quiet", "none", k)
        /\ Mail(p.mailbox, MailDue("quiet", "none", k, n), t, f, f)
    BY <1>1, <1>2, <1>8
  <2>3. LeavesFor(AskToLeave(p, t), p, a, t, g, k, n)
    BY <1>2, <1>8, <1>12, <2>2, CloseAsked
  <2> QED
    BY <1>8, <2>1, <2>3 DEF LeavesFor
<1> QED
  BY <1>10, <1>11, <1>12 DEF Shows

\* The application t has the focus, and no switch is under way.
Calm(w, t, f, g, k, n) == WorldPhase(w, t, f, g, "quiet", "none", k, n)

\* A switch to the application that has the focus (handleSwitchApplication).
LEMMA SwitchShows ==
    ASSUME NEW t \in Apps, NEW f \in Apps, NEW g \in Apps, NEW k \in Errands,
           NEW n \in BOOLEAN, NEW w, Calm(w, t, f, g, k, n), NEW b \in BOOLEAN
    PROVE  Shows(HandleSwitchApplication(w, t, b), w, t, f, g, k, n)
<1>1. WorldPhase(w, t, f, g, "quiet", "none", k, n)
  BY DEF Calm
<1>2. t = t => Shows(HandleSwitchApplication(w, t, b), w, t, f, g, k, n)
  BY <1>1, SwitchMoves
<1> QED
  BY <1>2

\* A switch to another one (handleSwitchApplication).
LEMMA SwitchLeaves ==
    ASSUME NEW t \in Apps, NEW f \in Apps, NEW g \in Apps, NEW k \in Errands,
           NEW n \in BOOLEAN, NEW w, Calm(w, t, f, g, k, n), NEW b \in BOOLEAN,
           NEW a \in Apps, a # t
    PROVE  LeavesFor(HandleSwitchApplication(w, a, b), w, a, t, g, k, n)
<1>1. WorldPhase(w, t, f, g, "quiet", "none", k, n)
  BY DEF Calm
<1>2. a # t => LeavesFor(HandleSwitchApplication(w, a, b), w, a, t, g, k, n)
  BY <1>1, SwitchMoves
<1> QED
  BY <1>2

\* The switch is begun with whether an application has to make room.
LEMMA SwitchTells ==
    ASSUME NEW t \in Apps, NEW f \in Apps, NEW g \in Apps, NEW k \in Errands,
           NEW n \in BOOLEAN, NEW w, Calm(w, t, f, g, k, n), NEW a \in Apps
    PROVE  SwitchBegins(w, a) <=> a # t
<1>1. WorldPhase(w, t, f, g, "quiet", "none", k, n)
  BY DEF Calm
<1>2. PICK b \in BOOLEAN : b
  OBVIOUS
<1> QED
  BY <1>1, <1>2, SwitchMoves

\* The first switch of all, on an empty stack.
LEMMA SwitchBoots ==
    ASSUME NEW t \in Apps, NEW f \in Apps, NEW g \in Apps, NEW k \in Errands,
           NEW n \in BOOLEAN, NEW w, WorldPhase(w, t, f, g, "boot", "none", k, n),
           NEW a \in Apps, NEW b \in BOOLEAN
    PROVE  /\ ~ SwitchBegins(w, a)
           /\ Boots(HandleSwitchApplication(w, a, b), w, a, f, g, k, n)
<1> PICK v : v = HandleSwitchApplication(w, a, b)
  OBVIOUS
<1>1. /\ w \in Worlds /\ w.fault = {}
      /\ Stage(w.state, w.stack, w.wait, t, f, "boot", "none")
      /\ Shape(t, f, "boot", "none", n) /\ People(w.object, t, f, g, "boot", "none", k)
      /\ Mail(w.mailbox, MailDue("boot", "none", k, n), t, f, f)
  BY DEF WorldPhase
<1>2. w.stack = <<>> /\ w.wait = NoApp /\ ~ n
  BY <1>1 DEF Stage, Shape
<1>3. GetFocusedApplication(w) = NoApp /\ GetStartingApplication(w) = NoApp
  BY <1>1, <1>2, FocusFound
<1>4. PICK p : p = OnApplicationSwitch(w, a)
  OBVIOUS
<1>5. /\ p \in Worlds /\ p.stack # <<>> /\ p.stack[1].app = a
      /\ p.state = w.state /\ p.object = w.object /\ p.wait = w.wait
      /\ p.mailbox = w.mailbox /\ p.fault = w.fault
  BY <1>1, <1>4, Pushes DEF IsPushed
<1>6. v = StartApplication(p, a)
  BY <1>3, <1>4 DEF HandleSwitchApplication
<1>7. People(p.object, a, f, g, "waiting", "none", k)
  <2>1. ASSUME NEW d \in Apps
        PROVE  /\ AppIs(d, w.object[d].state, w.object[d].alive, a, f, "waiting", "none")
               /\ Box(w.object[d].inbox, InboxDue(d, a, f, g, "waiting", "none", k))
    <3>1. /\ AppIs(d, w.object[d].state, w.object[d].alive, t, f, "boot", "none")
          /\ Box(w.object[d].inbox, InboxDue(d, t, f, g, "boot", "none", k))
      BY <1>1 DEF People
    <3>2. InboxDue(d, a, f, g, "waiting", "none", k) = InboxDue(d, t, f, g, "boot", "none", k)
      BY SameDue
    <3>3. AppIs(d, w.object[d].state, w.object[d].alive, a, f, "waiting", "none")
      BY <3>1 DEF AppIs, TopIs
    <3> QED
      BY <3>1, <3>2, <3>3
  <2> QED
    BY <1>1, <1>5, <2>1 DEF People
<1>8. Mail(p.mailbox, MailDue("waiting", "none", k, n), a, f, f)
  <2>1. PICK Y : Y = MailDue("boot", "none", k, n)
    OBVIOUS
  <2>2. MailDue("waiting", "none", k, n) = Y
    BY <2>1 DEF MailDue
  <2>3. "Initialised" \notin Y
    BY <2>1 DEF MailDue
  <2>4. Mail(w.mailbox, Y, a, f, f)
    BY <1>1, <2>1, <2>3, MailNames
  <2> QED
    BY <1>5, <2>2, <2>4
<1>9. PICK c \in Closings : c = "none"
  BY DEF Closings
<1>10. \E oo \in {"started", "switching"} :
           WorldPhase(v, a, f, g, oo, c, k, n) /\ v.mailbox = p.mailbox
  <2>1. /\ p.fault = {} /\ p.wait = NoApp /\ People(p.object, a, f, g, "waiting", c, k)
        /\ Mail(p.mailbox, MailDue("waiting", c, k, n), a, f, f)
        /\ c \in {"none", "finalizing", "confirming", "leaving"}
        /\ c # "none" => f # a
        /\ c \in {"finalizing", "confirming"} => f \in Blocking /\ f \in Closeable
               /\ \A i \in DOMAIN p.stack : p.stack[i].app = f => p.stack[i].closeable
    BY <1>1, <1>2, <1>5, <1>7, <1>8, <1>9
  <2> QED
    BY <1>2, <1>5, <1>6, <2>1, Opened
<1>11. ~ SwitchBegins(w, a)
  BY <1>3 DEF SwitchBegins
<1> QED
  BY <1>5, <1>9, <1>10, <1>11 DEF Boots

\* The manager takes a request: nothing else changes.
LEMMA RequestTaken ==
    ASSUME NEW t \in Apps, NEW f \in Apps, NEW g \in Apps, NEW o \in Openings,
           NEW c \in Closings, NEW k \in Errands, NEW n \in BOOLEAN,
           At(t, f, g, o, c, k, n), NEW y \in RequestKinds, Handles(y)
    PROVE  WorldPhase(Received, t, f, g, o, c, k, n)
<1>1. /\ mailbox \in Seq(Mails) /\ mailbox # <<>> /\ Head(mailbox).type = y /\ wait = NoApp
  BY Receipt
<1>2. /\ Received \in Worlds /\ Received.state = state /\ Received.stack = stack
      /\ Received.object = object /\ Received.wait = NoApp
      /\ Received.mailbox = Tail(mailbox) /\ Received.fault = {}
  BY Receipt
<1>3. /\ Mail(mailbox, MailDue(o, c, k, n), t, f, IF o = "confirmed" THEN t ELSE f)
      /\ Stage(state, stack, wait, t, f, o, c) /\ Shape(t, f, o, c, n)
      /\ People(object, t, f, g, o, c, k)
  BY Known
<1>4. PICK s, Y : s = (IF o = "confirmed" THEN t ELSE f) /\ Y = MailDue(o, c, k, n)
  OBVIOUS
<1>5. Mail(mailbox, Y, t, f, s)
  BY <1>3, <1>4
<1>6. \A x \in Replies : x \in Y <=> x \in Y /\ x # Head(mailbox).type
  BY <1>1 DEF Replies, RequestKinds
<1>7. Mail(Tail(mailbox), Y, t, f, s)
  BY <1>1, <1>5, <1>6, MailTail
<1> QED
  BY <1>1, <1>2, <1>3, <1>4, <1>7 DEF WorldPhase

\* A step that begins a switch in the middle of another one is a crossing.
LEMMA Uncrossed ==
    ASSUME crossings' = crossings, crossings \in 0 .. MaxCrossings, NEW begins,
           Crossing(begins), begins
    PROVE  ~ SwitchUnderWay
<1> SUFFICES ASSUME SwitchUnderWay PROVE FALSE
  OBVIOUS
<1>1. crossings' = crossings + 1 /\ crossings \in Nat
  BY DEF Crossing
<1> QED
  BY <1>1

\* When no switch is under way, the application on top has the focus and the
\* manager knows, or there has not been any yet.
LEMMA NoneUnderWay ==
    ASSUME NEW t \in Apps, NEW f \in Apps, NEW g \in Apps, NEW o \in Openings,
           NEW c \in Closings, NEW k \in Errands, NEW n \in BOOLEAN,
           At(t, f, g, o, c, k, n), wait = NoApp, ~ SwitchUnderWay
    PROVE  o \in {"boot", "quiet"} /\ c = "none"
<1>1. state = "Running"
  BY DEF SwitchUnderWay
<1>2. /\ Stage(state, stack, wait, t, f, o, c) /\ Shape(t, f, o, c, n)
      /\ People(object, t, f, g, o, c, k)
      /\ Mail(mailbox, MailDue(o, c, k, n), t, f, IF o = "confirmed" THEN t ELSE f)
  BY Known
<1>3. o \notin {"waiting", "switching", "confirmed", "started"} /\ c # "exiting"
  BY <1>1, <1>2, AppManagerAssumption DEF Stage
<1>4. ASSUME NEW y \in Replies, y # "ActionHandled" PROVE y \notin MailDue(o, c, k, n)
  <2> SUFFICES ASSUME y \in MailDue(o, c, k, n) PROVE FALSE
    OBVIOUS
  <2>1. PICK i \in DOMAIN mailbox : mailbox[i].type = y
    BY <1>2 DEF Mail
  <2>2. y \notin RequestKinds \cup {"ActionHandled"}
    BY <1>4 DEF Replies, RequestKinds
  <2> QED
    BY <2>1, <2>2 DEF SwitchUnderWay
<1>5. o # "initialised" /\ c \notin {"confirming", "leaving"}
  BY <1>4 DEF MailDue, Replies
<1>6. ASSUME NEW a \in Apps, object[a].alive
      PROVE  /\ \A m \in AppMessages : m # "Action" => m \notin InboxDue(a, t, f, g, o, c, k)
             /\ object[a].state # "FINALIZING_CLOSE"
  <2>1. /\ \A i \in DOMAIN object[a].inbox : object[a].inbox[i] = "Action"
        /\ object[a].state # "FINALIZING_CLOSE"
    BY <1>6 DEF SwitchUnderWay
  <2>2. Box(object[a].inbox, InboxDue(a, t, f, g, o, c, k))
    BY <1>2 DEF People
  <2> QED
    BY <2>1, <2>2 DEF Box
<1>7. o # "told"
  <2> SUFFICES ASSUME o = "told" PROVE FALSE
    OBVIOUS
  <2>1. object[t].alive /\ "Switch" \in InboxDue(t, t, f, g, o, c, k)
    BY <1>2, Members DEF People, AppIs, TopIs, InboxDue
  <2> QED
    BY <1>6, <2>1, Members
<1>8. c # "finalizing"
  <2> SUFFICES ASSUME c = "finalizing" PROVE FALSE
    OBVIOUS
  <2>1. object[f].alive /\ object[f].state = "FINALIZING_CLOSE"
    BY <1>2 DEF Shape, People, AppIs, LeaverIs
  <2> QED
    BY <1>6, <2>1
<1>9. c \notin {"unfocusing", "left", "closing"}
  BY <1>2, <1>3 DEF Shape
<1> QED
  BY <1>3, <1>5, <1>7, <1>8, <1>9 DEF Openings, Closings

\* A switch that is not heard changes nothing, and in a phase none that has the
\* focus is on top.
LEMMA NotHeard ==
    ASSUME NEW t \in Apps, NEW f \in Apps, NEW g \in Apps, NEW o \in Openings,
           NEW c \in Closings, NEW k \in Errands, NEW n \in BOOLEAN,
           NEW w, WorldPhase(w, t, f, g, o, c, k, n), ~ SwitchHeard(w),
           NEW a \in Apps, NEW b \in BOOLEAN
    PROVE  /\ HandleSwitchApplication(w, a, b) = w /\ ~ SwitchBegins(w, a)
           /\ o # "boot" /\ o \notin AtRest
<1>1. GetFocusedApplication(w) = NoApp /\ GetStartingApplication(w) # NoApp
  BY DEF SwitchHeard
<1>2. HandleSwitchApplication(w, a, b) = w /\ ~ SwitchBegins(w, a)
  BY <1>1 DEF HandleSwitchApplication, SwitchBegins
<1>3. /\ w \in Worlds /\ Stage(w.state, w.stack, w.wait, t, f, o, c)
      /\ People(w.object, t, f, g, o, c, k)
  BY DEF WorldPhase
<1>4. w.stack # <<>>
  BY <1>1, <1>3, FocusFound
<1>5. o # "boot" /\ w.stack[1].app = t
  BY <1>3, <1>4 DEF Stage
<1>6. StateOf(w, t) # "ACTIVE_FORGROUND"
  BY <1>1, <1>3, <1>4, <1>5, FocusFound, AppManagerAssumption
<1>7. o \notin AtRest
  BY <1>3, <1>6 DEF AtRest, People, AppIs, TopIs, StateOf
<1> QED
  BY <1>2, <1>5, <1>7

\* A step of the manager leads to the world v, which is in a phase.
Leads(v, t, f, g, o, c, k, n) ==
    /\ t \in Apps /\ f \in Apps /\ g \in Apps /\ o \in Openings /\ c \in Closings
    /\ k \in Errands /\ n \in BOOLEAN
    /\ Become(v) /\ WorldPhase(v, t, f, g, o, c, k, n)
    /\ requests' \in 0 .. MaxRequests /\ crossings' \in 0 .. MaxCrossings

\* It keeps the invariant if the registry goes with the phase.
LEMMA SettleLeads ==
    ASSUME NEW v, NEW t, NEW f, NEW g, NEW o, NEW c, NEW k, NEW n,
           Leads(v, t, f, g, o, c, k, n), RegistryTypes(actions', pending', it'),
           NEW q, q = v.mailbox, Registry(actions', pending', it', q, t, o, k),
           it' # 0 => v.wait = NoApp
    PROVE  IInv'
<1> /\ t \in Apps /\ f \in Apps /\ g \in Apps /\ o \in Openings /\ c \in Closings
    /\ k \in Errands /\ n \in BOOLEAN
    /\ Become(v) /\ WorldPhase(v, t, f, g, o, c, k, n)
    /\ requests' \in 0 .. MaxRequests /\ crossings' \in 0 .. MaxCrossings
  BY DEF Leads
<1> QED
  BY Settle

\* A request for an action enters the registry (handleActionRequest).
LEMMA ActionRequestStep ==
    ASSUME NEW t \in Apps, NEW f \in Apps, NEW g \in Apps, NEW o \in Openings,
           NEW c \in Closings, NEW k \in Errands, NEW n \in BOOLEAN,
           At(t, f, g, o, c, k, n),
           NEW y \in {"Launch", "Popup", "Custom", "CustomKeep"}, HandleActionRequest(y)
    PROVE  IInv'
<1>1. Handles(y) /\ y \in RequestKinds
  BY DEF HandleActionRequest, RequestKinds
<1>2. WorldPhase(Received, t, f, g, o, c, k, n)
  BY <1>1, RequestTaken
<1>3. /\ it = 0 /\ Head(mailbox).app \in Apps /\ requests' = requests /\ crossings' = crossings
      /\ Received.wait = NoApp /\ Head(mailbox) = mailbox[1] /\ Head(mailbox).type = y
  BY <1>1, Receipt
<1>4. /\ RegistryTypes(actions, pending, it)
      /\ requests \in 0 .. MaxRequests /\ crossings \in 0 .. MaxCrossings
      /\ Registry(actions, pending, it, mailbox, t, o, k)
  BY Known
<1>5. PICK x : x = [kind |-> y, app |-> Head(mailbox).app]
  OBVIOUS
<1>6. x \in [kind : RequestKinds, app : Apps] /\ x.kind = y /\ x.app = Head(mailbox).app
  BY <1>1, <1>3, <1>5
<1>7. /\ actions' = Append(actions, x) /\ pending' = pending
      /\ it' = IF pending = 0 THEN 1 ELSE 0
  BY <1>5 DEF HandleActionRequest
<1>8. Become(Received)
  BY DEF HandleActionRequest
<1>9. /\ actions \in Seq([kind : RequestKinds, app : Apps])
      /\ Len(actions) \in Nat /\ pending \in 0 .. Len(actions) /\ DOMAIN actions = 1 .. Len(actions)
  BY <1>4 DEF RegistryTypes
<1>10. /\ actions' \in Seq([kind : RequestKinds, app : Apps])
       /\ actions' # <<>> /\ Len(actions') = Len(actions) + 1
       /\ DOMAIN actions' = DOMAIN actions \cup {Len(actions) + 1}
       /\ actions'[Len(actions) + 1] = x
       /\ \A j \in DOMAIN actions : actions'[j] = actions[j]
  BY <1>6, <1>7, <1>9, AppendPositions
<1>11. RegistryTypes(actions', pending', it')
  BY <1>7, <1>9, <1>10 DEF RegistryTypes
<1>12. Acts(actions')
  BY <1>4, <1>6, <1>10 DEF Acts, Registry, Customs
<1>13. /\ pending' # 0 /\ actions'[pending'].kind = "Launch" =>
              actions'[pending'].app = t /\ o \notin AtRest
       /\ k # "none" <=> pending' # 0 /\ actions'[pending'].kind \in Customs \cup {"Popup"}
  <2>1. CASE pending = 0
    BY <1>4, <1>7, <2>1 DEF Registry
  <2>2. CASE pending # 0
    <3>1. actions'[pending'] = actions[pending]
      BY <1>7, <1>9, <1>10, <2>2
    <3> QED
      BY <1>4, <1>7, <2>2, <3>1 DEF Registry
  <2> QED
    BY <2>1, <2>2
<1>14. o = "boot" => it' = 1 /\ actions' = <<[kind |-> "Launch", app |-> Root]>>
  <2> SUFFICES ASSUME o = "boot" PROVE it' = 1 /\ actions' = <<[kind |-> "Launch", app |-> Root]>>
    OBVIOUS
  <2>1. mailbox[1] = Msg("Launch", Root) /\ actions = <<>>
    BY <1>3, <1>4 DEF Registry
  <2>2. x = [kind |-> "Launch", app |-> Root]
    BY <1>3, <1>5, <2>1 DEF Msg
  <2>3. pending = 0
    BY <1>9, <2>1
  <2> QED
    BY <1>7, <2>1, <2>2, <2>3
<1>15. PICK v, q : v = Received /\ q = Received.mailbox
  OBVIOUS
<1>16. Registry(actions', pending', it', q, t, o, k)
  <2>1. PICK ac, p, i : ac = actions' /\ p = pending' /\ i = it'
    OBVIOUS
  <2>2. /\ i # 0 => p = 0
        /\ ~ (i = 0 /\ p = 0) /\ ~ (i > 1)
        /\ Acts(ac)
        /\ o = "boot" => i = 1 /\ ac = <<[kind |-> "Launch", app |-> Root]>>
    BY <1>7, <1>12, <1>14, <2>1
  <2>3. /\ p # 0 /\ ac[p].kind = "Launch" => ac[p].app = t /\ o \notin AtRest
        /\ k # "none" <=> p # 0 /\ ac[p].kind \in Customs \cup {"Popup"}
    BY <1>13, <2>1
  <2>4. Registry(ac, p, i, q, t, o, k)
    BY <2>2, <2>3 DEF Registry
  <2> QED
    BY <2>1, <2>4
<1>17. Leads(v, t, f, g, o, c, k, n)
  BY <1>2, <1>3, <1>4, <1>8, <1>15 DEF Leads
<1>18. it' # 0 => v.wait = NoApp
  BY <1>3, <1>15
<1> QED
  BY <1>11, <1>15, <1>16, <1>17, <1>18, SettleLeads

\* A switch that does not come from the registry leaves it as it is: at rest
\* nothing waits in it but for the end of an errand.
LEMMA SwitchSettles ==
    ASSUME NEW t, NEW q, NEW k, Registry(actions, pending, it, q, t, "quiet", k),
           RegistryTypes(actions, pending, it), it = 0, UNCHANGED registry,
           NEW v, NEW tt, NEW ff, NEW g, NEW oo, oo # "boot", NEW cc, NEW n,
           Leads(v, tt, ff, g, oo, cc, k, n)
    PROVE  IInv'
<1>1. PICK ac, p, r : ac = actions /\ p = pending /\ r = v.mailbox
  OBVIOUS
<1>2. Registry(ac, p, 0, q, t, "quiet", k)
  BY <1>1
<1>3. Registry(ac, p, 0, r, tt, oo, k)
  BY <1>2 DEF Registry, AtRest
<1>4. actions' = ac /\ pending' = p /\ it' = 0
  BY <1>1 DEF registry
<1>5. Registry(actions', pending', it', r, tt, oo, k) /\ RegistryTypes(actions', pending', it')
  BY <1>1, <1>3, <1>4
<1> QED
  BY <1>1, <1>4, <1>5, SettleLeads

\* A request to switch the application (handleSwitchRequest).
LEMMA SwitchRequestStep ==
    ASSUME NEW t \in Apps, NEW f \in Apps, NEW g \in Apps, NEW o \in Openings,
           NEW c \in Closings, NEW k \in Errands, NEW n \in BOOLEAN,
           At(t, f, g, o, c, k, n), HandleSwitchRequest, crossings' = crossings
    PROVE  IInv'
<1>1. /\ Handles("Switch") /\ UNCHANGED registry
      /\ Become(HandleSwitchApplication(Received, Head(mailbox).app, TRUE))
      /\ Crossing(SwitchHeard(Now))
  BY DEF HandleSwitchRequest
<1>2. PICK y \in RequestKinds : y = "Switch"
  BY DEF RequestKinds
<1>3. WorldPhase(Received, t, f, g, o, c, k, n)
  BY <1>1, <1>2, RequestTaken
<1>4. /\ Head(mailbox).app \in Apps /\ requests' = requests /\ it = 0 /\ wait = NoApp
      /\ Received.stack = stack /\ Received.object = object
      /\ Received.mailbox = Tail(mailbox) /\ Received.wait = NoApp
      /\ Head(mailbox) = mailbox[1] /\ Head(mailbox).type = y
  BY <1>1, <1>2, Receipt
<1>5. /\ requests \in 0 .. MaxRequests /\ crossings \in 0 .. MaxCrossings
      /\ RegistryTypes(actions, pending, it)
      /\ Registry(actions, pending, it, mailbox, t, o, k)
  BY Known
<1>6. o # "boot"
  BY <1>2, <1>4, <1>5 DEF Registry, Msg
<1>7. PICK a \in Apps : a = Head(mailbox).app
  BY <1>4
<1>8. PICK b \in BOOLEAN : b = TRUE
  OBVIOUS
<1>9. PICK w, v : w = Received /\ v = HandleSwitchApplication(Received, a, b)
  OBVIOUS
<1>10. Become(v) /\ requests' \in 0 .. MaxRequests /\ crossings' \in 0 .. MaxCrossings
  BY <1>1, <1>4, <1>5, <1>7, <1>8, <1>9
<1>11. WorldPhase(w, t, f, g, o, c, k, n)
  BY <1>3, <1>9
<1>12. SwitchHeard(Now) <=> SwitchHeard(w)
  <2>1. w.stack = Now.stack /\ w.object = Now.object
    BY <1>4, <1>9, NowFields
  <2> QED
    BY <2>1 DEF SwitchHeard, GetFocusedApplication, GetStartingApplication, FirstInStack,
                IsApplicationStarting, StateOf
<1>13. CASE ~ SwitchHeard(w)
  <2>1. HandleSwitchApplication(w, a, b) = w /\ o \notin AtRest
    BY <1>11, <1>13, NotHeard
  <2>2. v = w
    BY <1>9, <2>1
  <2>3. Leads(v, t, f, g, o, c, k, n)
    BY <1>10, <1>11, <2>2 DEF Leads
  <2>4. PICK q : q = v.mailbox
    OBVIOUS
  <2>5. Registry(actions, pending, it, q, t, o, k)
    BY <1>5, <1>6 DEF Registry
  <2>6. /\ Registry(actions', pending', it', q, t, o, k) /\ RegistryTypes(actions', pending', it')
        /\ it' = 0
    BY <1>1, <1>4, <1>5, <2>5 DEF registry
  <2> QED
    BY <2>3, <2>4, <2>6, SettleLeads
<1>14. ASSUME SwitchHeard(w) PROVE o = "quiet" /\ c = "none" /\ Calm(w, t, f, g, k, n)
  <2>1. ~ SwitchUnderWay
    BY <1>1, <1>5, <1>12, <1>14, Uncrossed
  <2>2. o = "quiet" /\ c = "none"
    BY <1>4, <1>6, <2>1, NoneUnderWay
  <2> QED
    BY <1>11, <2>2 DEF Calm
<1>15. CASE SwitchHeard(w) /\ a = t
  <2>1. Shows(HandleSwitchApplication(w, t, b), w, t, f, g, k, n)
    BY <1>8, <1>14, <1>15, SwitchShows
  <2>2. WorldPhase(v, t, f, g, "told", "none", k, n)
    BY <1>9, <1>15, <2>1 DEF Shows
  <2>3. PICK oo \in Openings, cc \in Closings : oo = "told" /\ cc = "none"
    BY DEF Openings, Closings
  <2>4. Leads(v, t, f, g, oo, cc, k, n) /\ oo # "boot"
    BY <1>10, <2>2, <2>3 DEF Leads
  <2> QED
    BY <1>1, <1>4, <1>5, <1>14, <1>15, <2>4, SwitchSettles
<1>16. CASE SwitchHeard(w) /\ a # t
  <2>1. LeavesFor(HandleSwitchApplication(w, a, b), w, a, t, g, k, n)
    BY <1>8, <1>14, <1>16, SwitchLeaves
  <2>2. PICK cc \in {"closing", "unfocusing"} : WorldPhase(v, a, t, g, "waiting", cc, k, n)
    BY <1>9, <2>1 DEF LeavesFor
  <2>3. PICK oo \in Openings : oo = "waiting"
    BY DEF Openings
  <2>4. Leads(v, a, t, g, oo, cc, k, n) /\ oo # "boot"
    BY <1>10, <2>2, <2>3 DEF Leads, Closings
  <2> QED
    BY <1>1, <1>4, <1>5, <1>14, <1>16, <2>4, SwitchSettles
<1> QED
  BY <1>13, <1>15, <1>16

\* A request to switch back (handleSwitchBack): the previous application has
\* the focus as well, or the one that has it is asked to make room.
LEMMA SwitchBackStep ==
    ASSUME NEW t \in Apps, NEW f \in Apps, NEW g \in Apps, NEW o \in Openings,
           NEW c \in Closings, NEW k \in Errands, NEW n \in BOOLEAN,
           At(t, f, g, o, c, k, n), HandleSwitchBack, crossings' = crossings
    PROVE  IInv'
<1>1. Handles("SwitchBack") /\ UNCHANGED registry
  BY DEF HandleSwitchBack
<1>2. PICK y \in RequestKinds : y = "SwitchBack"
  BY DEF RequestKinds
<1>3. WorldPhase(Received, t, f, g, o, c, k, n)
  BY <1>1, <1>2, RequestTaken
<1>4. /\ Received \in Worlds /\ Received.state = state /\ Received.stack = stack
      /\ Received.object = object /\ Received.wait = NoApp
      /\ Received.mailbox = Tail(mailbox) /\ Received.fault = {}
      /\ requests' = requests /\ wait = NoApp /\ it = 0
      /\ Head(mailbox) = mailbox[1] /\ Head(mailbox).type = y
  BY <1>1, <1>2, Receipt
<1>5. /\ requests \in 0 .. MaxRequests /\ crossings \in 0 .. MaxCrossings
      /\ RegistryTypes(actions, pending, it)
      /\ Registry(actions, pending, it, mailbox, t, o, k) /\ stack \in Stacks
  BY Known
<1>6. o # "boot"
  BY <1>2, <1>4, <1>5 DEF Registry, Msg
<1>7. requests' \in 0 .. MaxRequests /\ crossings' \in 0 .. MaxCrossings
  BY <1>4, <1>5
<1>8. PICK a, w, x : a = stack[2].app /\ w = PopStack(Received) /\ x = GetFocusedApplication(Now)
  OBVIOUS
<1>9. \/ Become(Received)
      \/ /\ Len(stack) >= 2 /\ ~ SwitchUnderWay
         /\ Become(IF x = NoApp THEN StartApplication(w, a) ELSE IF a = x THEN w
                   ELSE AskToLeave(w, x))
  <2>1. PICK m \in BOOLEAN :
            /\ Become(IF Len(stack) < 2 \/ ~ m THEN Received
                      ELSE IF x = NoApp THEN StartApplication(w, a)
                      ELSE IF a = x THEN w
                      ELSE AskToLeave(w, x))
            /\ Crossing(Len(stack) >= 2 /\ m)
    BY <1>8 DEF HandleSwitchBack, AskToLeave
  <2>2. ~ (Len(stack) < 2) => Len(stack) >= 2
    BY <1>5 DEF Stacks
  <2>3. Len(stack) >= 2 /\ m => ~ SwitchUnderWay
    BY <1>5, <2>1, Uncrossed
  <2> QED
    BY <2>1, <2>2, <2>3
<1>10. CASE Become(Received)
  <2>1. PICK v, q : v = Received /\ q = Received.mailbox
    OBVIOUS
  <2>2. Leads(v, t, f, g, o, c, k, n)
    BY <1>3, <1>7, <1>10, <2>1 DEF Leads
  <2>3. Registry(actions, pending, it, q, t, o, k)
    BY <1>5, <1>6 DEF Registry
  <2>4. /\ Registry(actions', pending', it', q, t, o, k) /\ RegistryTypes(actions', pending', it')
        /\ it' = 0
    BY <1>1, <1>4, <1>5, <2>3 DEF registry
  <2> QED
    BY <2>1, <2>2, <2>4, SettleLeads
<1>11. CASE /\ Len(stack) >= 2 /\ ~ SwitchUnderWay
            /\ Become(IF x = NoApp THEN StartApplication(w, a) ELSE IF a = x THEN w
                      ELSE AskToLeave(w, x))
  <2>1. o = "quiet" /\ c = "none"
    BY <1>4, <1>6, <1>11, NoneUnderWay
  <2>2. /\ Stage(state, stack, wait, t, f, o, c) /\ Shape(t, f, o, c, n)
        /\ People(object, t, f, g, o, c, k) /\ stack \in Stacks
        /\ Mail(Received.mailbox, MailDue(o, c, k, n), t, f, f)
        /\ object[t].alive /\ object[t].state = "ACTIVE_FORGROUND"
    BY <1>3, <1>4, <2>1, Known DEF WorldPhase, AppIs, TopIs
  <2>3. stack # <<>> /\ stack[1].app = t /\ state = "Running" /\ t # NoApp /\ ~ n
    BY <2>1, <2>2, AppManagerAssumption DEF Stage, Shape
  <2>4. x = t
    <3>1. Now \in Worlds
      BY DEF At, WorldPhase
    <3>2. Now.stack # <<>> /\ Now.stack[1].app = t /\ StateOf(Now, t) = "ACTIVE_FORGROUND"
      BY <2>2, <2>3, NowFields DEF StateOf
    <3> QED
      BY <1>8, <3>1, <3>2, FocusFound
  <2>5. /\ w \in Worlds /\ w.state = state /\ w.object = object /\ w.wait = NoApp
        /\ w.mailbox = Tail(mailbox) /\ w.fault = {}
        /\ w.stack # <<>> /\ w.stack[1].app = a /\ a \in Apps
    <3>1. PICK r : r = Tail(stack)
      OBVIOUS
    <3>2. stack \in Seq([app : Apps, closeable : BOOLEAN])
      BY <2>2 DEF Stacks
    <3>3. /\ r \in Seq([app : Apps, closeable : BOOLEAN]) /\ r # <<>> /\ r[1] = stack[2]
          /\ 2 \in DOMAIN stack
      <4>1. /\ r \in Seq([app : Apps, closeable : BOOLEAN])
            /\ \A i \in DOMAIN stack : i # 1 => i - 1 \in DOMAIN r /\ r[i - 1] = stack[i]
        BY <2>3, <3>1, <3>2, TailPositions
      <4>2. 2 \in DOMAIN stack /\ 2 # 1 /\ 2 - 1 = 1
        BY <1>11, <3>2
      <4>3. 1 \in DOMAIN r /\ r[1] = stack[2]
        BY <4>1, <4>2
      <4> QED
        BY <4>1, <4>2, <4>3
    <3>4. stack[2] \in [app : Apps, closeable : BOOLEAN]
      BY <3>2, <3>3, ElementType
    <3>5. r \in Stacks /\ w = [Received EXCEPT !.stack = r]
      BY <1>4, <1>8, <3>1, <3>3 DEF PopStack, Stacks
    <3>6. /\ w \in Worlds /\ w.stack = r /\ w.wait = Received.wait
          /\ w.object = Received.object /\ w.state = Received.state
          /\ w.mailbox = Received.mailbox /\ w.fault = Received.fault
      BY <1>4, <3>5, FieldsDo
    <3> QED
      BY <1>4, <1>8, <3>3, <3>4, <3>6
  <2>6. CASE a = t
    <3>1. Become(w)
      BY <1>11, <2>3, <2>4, <2>6
    <3>2. Stage(w.state, w.stack, w.wait, t, f, o, c)
      BY <2>1, <2>3, <2>5, <2>6 DEF Stage
    <3>3. People(w.object, t, f, g, o, c, k) /\ Mail(w.mailbox, MailDue(o, c, k, n), t, f, f)
      BY <1>4, <2>2, <2>5
    <3>4. WorldPhase(w, t, f, g, o, c, k, n)
      BY <2>1, <2>2, <2>5, <3>2, <3>3 DEF WorldPhase
    <3>5. Leads(w, t, f, g, o, c, k, n)
      BY <1>7, <3>1, <3>4 DEF Leads
    <3> QED
      BY <1>1, <1>4, <1>5, <1>6, <2>1, <3>5, SwitchSettles
  <2>7. CASE a # t
    <3>1. PICK v : v = AskToLeave(w, t)
      OBVIOUS
    <3>2. Become(v)
      BY <1>11, <2>3, <2>4, <2>7, <3>1
    <3>3. /\ People(w.object, t, f, g, "quiet", "none", k)
          /\ Mail(w.mailbox, MailDue("quiet", "none", k, n), t, f, f)
      BY <1>4, <2>1, <2>2, <2>5
    <3>4. PICK d \in Apps : d = a
      BY <2>5
    <3>5. w \in Worlds /\ w.fault = {} /\ w.wait = NoApp /\ w.stack # <<>>
          /\ w.stack[1].app = d /\ d # t /\ ~ n
      BY <2>3, <2>5, <2>7, <3>4
    <3>6. LeavesFor(AskToLeave(w, t), w, d, t, g, k, n)
      BY <3>3, <3>5, CloseAsked
    <3>7. PICK cc \in {"closing", "unfocusing"} : WorldPhase(v, d, t, g, "waiting", cc, k, n)
      BY <3>1, <3>6 DEF LeavesFor
    <3>8. PICK oo \in Openings : oo = "waiting"
      BY DEF Openings
    <3>9. Leads(v, d, t, g, oo, cc, k, n) /\ oo # "boot"
      BY <1>7, <3>2, <3>7, <3>8 DEF Leads, Closings
    <3> QED
      BY <1>1, <1>4, <1>5, <2>1, <3>9, SwitchSettles
  <2> QED
    BY <2>6, <2>7
<1> QED
  BY <1>9, <1>10, <1>11

-----------------------------------------------------------------------------
(***************************************************************************)
(* A turn of the loop over the registry (notifyAboutNextAction), by the    *)
(* kind of the action that it looks at.                                    *)
(***************************************************************************)

LaunchTurn ==
    /\ actions[it].kind = "Launch"
    /\ Become(HandleSwitchApplication(Now, actions[it].app, TRUE))
    /\ IF SwitchBegins(Now, actions[it].app) THEN Accepted ELSE Dropped
    /\ Crossing(SwitchHeard(Now))

PopupTurn ==
    /\ actions[it].kind = "Popup"
    /\ IF GetFocusedApplication(Now) = NoApp THEN Skipped /\ Become(Now)
       ELSE Accepted /\ Become(SendTo(Now, GetFocusedApplication(Now), "Action"))
    /\ UNCHANGED crossings

\* A custom action is sent to its application.
CustomSent ==
    Accepted /\ Become(SendTo(Now, actions[it].app, "Action")) /\ UNCHANGED crossings

CustomTurn ==
    /\ actions[it].kind \in Customs
    /\ \/ CustomSent /\ object[actions[it].app].alive
       \/ /\ StateOf(Now, actions[it].app) # "ACTIVE_FORGROUND"
          /\ Skipped
          /\ Become(HandleSwitchApplication(Now, actions[it].app,
                                            actions[it].kind = "Custom"))
          /\ Crossing(SwitchHeard(Now))

\* What is known at the start of a turn.
TurnStarts(k) ==
    /\ pending = 0 /\ k = "none" /\ wait = NoApp
    /\ it \in DOMAIN actions /\ it \in Nat /\ it > 0 /\ it <= Len(actions)
    /\ Len(actions) \in Nat
    /\ actions \in Seq([kind : RequestKinds, app : Apps]) /\ actions # <<>>
    /\ actions[it].app \in Apps /\ requests' = requests

\* A turn is of one of three kinds.
LEMMA TurnKinds ==
    ASSUME NotifyAboutNextAction
    PROVE  LaunchTurn \/ PopupTurn \/ CustomTurn
<1>1. \/ LaunchTurn
      \/ PopupTurn
      \/ /\ actions[it].kind \in {"Custom", "CustomKeep"}
         /\ IF \/ StateOf(Now, actions[it].app) = "ACTIVE_FORGROUND"
               \/ /\ StateOf(Now, actions[it].app) = "ACTIVE_BACKGROUND"
                  /\ actions[it].app \in InBackground
            THEN /\ Accepted
                 /\ Become(SendTo(Now, actions[it].app, "Action"))
                 /\ UNCHANGED crossings
            ELSE /\ Skipped
                 /\ Become(HandleSwitchApplication(Now, actions[it].app,
                                                   actions[it].kind = "Custom"))
                 /\ Crossing(SwitchHeard(Now))
  BY DEF NotifyAboutNextAction, LaunchTurn, PopupTurn
<1>2. StateOf(Now, actions[it].app) \in {"ACTIVE_FORGROUND", "ACTIVE_BACKGROUND"} =>
          object[actions[it].app].alive
  BY NowFields DEF StateOf
<1> QED
  BY <1>1, <1>2 DEF CustomTurn, CustomSent, Customs

\* A turn starts with no action in progress.
LEMMA Turn ==
    ASSUME NEW t \in Apps, NEW f \in Apps, NEW g \in Apps, NEW o \in Openings,
           NEW c \in Closings, NEW k \in Errands, NEW n \in BOOLEAN,
           At(t, f, g, o, c, k, n), NotifyAboutNextAction
    PROVE  TurnStarts(k)
<1>1. /\ RegistryTypes(actions, pending, it)
      /\ Registry(actions, pending, it, mailbox, t, o, k)
  BY Known
<1>2. it # 0 /\ wait = NoApp /\ requests' = requests
  BY DEF NotifyAboutNextAction
<1>3. pending = 0
  BY <1>1, <1>2 DEF Registry
<1>4. k = "none"
  BY <1>1, <1>3 DEF Registry
<1>5. /\ it \in DOMAIN actions /\ it \in Nat /\ it > 0 /\ it <= Len(actions)
      /\ Len(actions) \in Nat
      /\ actions \in Seq([kind : RequestKinds, app : Apps]) /\ actions # <<>>
  BY <1>1, <1>2 DEF RegistryTypes
<1>6. actions[it].app \in Apps
  <2>1. actions[it] \in [kind : RequestKinds, app : Apps]
    BY <1>5, ElementType
  <2> QED
    BY <2>1
<1> QED
  BY <1>2, <1>3, <1>4, <1>5, <1>6 DEF TurnStarts

\* The world v is w with an action on its way to the application x.
Errand(v, w, t, f, x, o, c, n) ==
    /\ v.mailbox = w.mailbox /\ v.wait = w.wait
    /\ WorldPhase(v, t, f, x, o, c, "sent", n)

\* An action is sent to an application that is there.
LEMMA ActionSent ==
    ASSUME NEW t \in Apps, NEW f \in Apps, NEW g \in Apps, NEW o \in Openings,
           NEW c \in Closings, NEW k \in Errands, k = "none", NEW n \in BOOLEAN,
           NEW w, WorldPhase(w, t, f, g, o, c, k, n), w.wait = NoApp,
           NEW x \in Apps, w.object[x].alive
    PROVE  Errand(SendTo(w, x, "Action"), w, t, f, x, o, c, n)
<1> PICK v : v = SendTo(w, x, "Action")
  OBVIOUS
<1>1. /\ w \in Worlds /\ w.fault = {}
      /\ Stage(w.state, w.stack, w.wait, t, f, o, c) /\ Shape(t, f, o, c, n)
      /\ People(w.object, t, f, g, o, c, k)
      /\ Mail(w.mailbox, MailDue(o, c, k, n), t, f, IF o = "confirmed" THEN t ELSE f)
  BY DEF WorldPhase
<1>2. c # "exiting"
  BY <1>1, AppManagerAssumption DEF Stage, Shape
<1>3. PICK s, q : s = w.object[x].state /\ q = Append(w.object[x].inbox, "Action")
  OBVIOUS
<1>4. OnlyObjects(v, w) /\ Updated(w.object, v.object, x, s, q)
  BY <1>1, <1>3, Members, SendToDoes
<1>5. /\ AppIs(x, s, w.object[x].alive, t, f, o, c)
      /\ w.object[x].inbox \in Seq(AppMessages)
      /\ Box(w.object[x].inbox, InboxDue(x, t, f, g, o, c, k))
      /\ w.object[x].alive = TRUE
  BY <1>1, <1>3 DEF People, Worlds, Objects
<1>6. Box(q, InboxDue(x, t, f, x, o, c, "sent"))
  <2>1. \A l \in AppMessages : l \in InboxDue(x, t, f, x, o, c, "sent") <=>
            l \in InboxDue(x, t, f, g, o, c, k) \/ l = "Action"
    BY DEF InboxDue, AppMessages
  <2>2. /\ "Action" \notin InboxDue(x, t, f, g, o, c, k)
        /\ "Exit" \notin InboxDue(x, t, f, g, o, c, k)
    BY <1>2 DEF InboxDue
  <2> QED
    BY <1>3, <1>5, <2>1, <2>2, Members, BoxAppend
<1>7. Fits(x, s, q, t, f, x, o, c, "sent")
  BY <1>5, <1>6 DEF Fits
<1>8. Others(w.object, x, t, f, g, o, c, k, t, f, x, o, c, "sent")
  <2>1. ASSUME NEW d \in Apps, d # x
        PROVE  InboxDue(d, t, f, x, o, c, "sent") = InboxDue(d, t, f, g, o, c, k)
    BY <2>1, SameDue
  <2> QED
    BY <2>1 DEF Others
<1>9. People(v.object, t, f, x, o, c, "sent")
  BY <1>1, <1>4, <1>7, <1>8, PeopleMove
<1>10. MailDue(o, c, "sent", n) = MailDue(o, c, k, n)
  BY DEF MailDue
<1> QED
  BY <1>1, <1>4, <1>9, <1>10 DEF Errand, WorldPhase, OnlyObjects

\* The action at the position of the loop is accepted, while v becomes the
\* manager's world: it is in progress now.
LEMMA AcceptedStep ==
    ASSUME actions \in Seq([kind : RequestKinds, app : Apps]), it \in DOMAIN actions,
           Acts(actions), Accepted,
           NEW v, NEW t, NEW f, NEW g, NEW o, NEW c, NEW k, NEW n,
           Leads(v, t, f, g, o, c, k, n), o # "boot",
           actions[it].kind = "Launch" => actions[it].app = t /\ o \notin AtRest,
           k # "none" <=> actions[it].kind # "Launch"
    PROVE  IInv'
<1>1. actions' = actions /\ pending' = it /\ it' = 0
  BY DEF Accepted
<1>2. RegistryTypes(actions', pending', it')
  BY <1>1 DEF RegistryTypes
<1>3. PICK ac, p, q : ac = actions /\ p = it /\ q = v.mailbox
  OBVIOUS
<1>4. /\ Acts(ac) /\ p \in DOMAIN ac /\ p # 0
      /\ ac[p].kind = "Launch" => ac[p].app = t /\ o \notin AtRest
      /\ k # "none" <=> ac[p].kind # "Launch"
  BY <1>3
<1>5. ac[p].kind # "Launch" <=> ac[p].kind \in Customs \cup {"Popup"}
  BY <1>4 DEF Acts, Customs
<1>6. Registry(ac, p, 0, q, t, o, k)
  BY <1>4, <1>5 DEF Registry
<1>7. Registry(actions', pending', it', q, t, o, k) /\ it' = 0
  BY <1>1, <1>3, <1>6
<1> QED
  BY <1>2, <1>3, <1>7, SettleLeads

\* The loop goes on in the place of the action that it drops.
LEMMA DroppedGoes ==
    ASSUME actions \in Seq([kind : RequestKinds, app : Apps]), it \in DOMAIN actions,
           Acts(actions), pending = 0, Dropped
    PROVE  /\ RegistryTypes(actions', pending', it') /\ Acts(actions') /\ pending' = 0
           /\ it' = Position(it, actions') /\ Len(actions') = Len(actions) - 1
<1>1. actions' = RemoveAt(actions, it) /\ it' = Position(it, actions') /\ pending' = 0
  BY DEF Dropped
<1>2. /\ actions' \in Seq([kind : RequestKinds, app : Apps]) /\ Acts(actions')
      /\ Len(actions') = Len(actions) - 1
  BY <1>1, ActsWithout
<1>3. it \in Nat /\ Len(actions') \in Nat
  BY <1>2
<1>4. it' \in 0 .. Len(actions')
  BY <1>1, <1>3 DEF Position
<1> QED
  BY <1>1, <1>2, <1>3, <1>4 DEF RegistryTypes

\* The loop goes on behind the action that it skips.
LEMMA SkippedGoes ==
    ASSUME actions \in Seq([kind : RequestKinds, app : Apps]), it \in DOMAIN actions,
           pending = 0, Skipped
    PROVE  actions' = actions /\ pending' = 0 /\ RegistryTypes(actions', pending', it')
<1>1. actions' = actions /\ pending' = 0 /\ it' = Position(it + 1, actions)
  BY DEF Skipped
<1>2. Len(actions) \in Nat /\ it \in 1 .. Len(actions)
  OBVIOUS
<1>3. it' \in 0 .. Len(actions) /\ pending' \in 0 .. Len(actions)
  BY <1>1, <1>2 DEF Position
<1> QED
  BY <1>1, <1>3 DEF RegistryTypes

\* The loop goes on while an application opens: what it leaves behind is looked
\* at again when that is done.
LEMMA LoopStep ==
    ASSUME RegistryTypes(actions', pending', it'), Acts(actions'), pending' = 0,
           NEW v, NEW t, NEW f, NEW g, NEW o, NEW c, NEW k, NEW n,
           Leads(v, t, f, g, o, c, k, n), o # "boot", o \notin AtRest, k = "none",
           it' # 0 => v.wait = NoApp
    PROVE  IInv'
<1>1. PICK ac, i, q : ac = actions' /\ i = it' /\ q = v.mailbox
  OBVIOUS
<1>2. Registry(ac, 0, i, q, t, o, k)
  BY <1>1 DEF Registry
<1>3. Registry(actions', pending', it', q, t, o, k)
  BY <1>1, <1>2
<1> QED
  BY <1>1, <1>3, SettleLeads

\* A turn with an action that launches an application: it leaves the registry
\* at once unless another application has to make room.
LEMMA LaunchTurnStep ==
    ASSUME NEW t \in Apps, NEW f \in Apps, NEW g \in Apps, NEW o \in Openings,
           NEW c \in Closings, NEW k \in Errands, NEW n \in BOOLEAN,
           At(t, f, g, o, c, k, n), NotifyAboutNextAction, LaunchTurn, crossings' = crossings
    PROVE  IInv'
<1>1. /\ pending = 0 /\ k = "none" /\ wait = NoApp
      /\ it \in DOMAIN actions /\ it \in Nat /\ it > 0 /\ it <= Len(actions)
      /\ actions \in Seq([kind : RequestKinds, app : Apps])
      /\ actions[it].app \in Apps /\ requests' = requests
  <2>1. TurnStarts(k)
    BY Turn
  <2> QED
    BY <2>1 DEF TurnStarts
<1>2. /\ Registry(actions, pending, it, mailbox, t, o, k)
      /\ requests \in 0 .. MaxRequests /\ crossings \in 0 .. MaxCrossings
  BY Known
<1>3. actions[it].kind = "Launch" /\ Crossing(SwitchHeard(Now))
  BY DEF LaunchTurn
<1>4. Acts(actions)
  BY <1>2 DEF Registry
<1>5. PICK a \in Apps : a = actions[it].app
  BY <1>1
<1>6. PICK b \in BOOLEAN : b = TRUE
  OBVIOUS
<1>7. PICK w, v : w = Now /\ v = HandleSwitchApplication(Now, a, b)
  OBVIOUS
<1>8. /\ Become(v) /\ w.mailbox = mailbox /\ w.wait = NoApp
      /\ SwitchBegins(w, a) => Accepted
      /\ ~ SwitchBegins(w, a) => Dropped
  BY <1>1, <1>5, <1>6, <1>7, NowFields DEF LaunchTurn
<1>9. Dropped => /\ RegistryTypes(actions', pending', it') /\ Acts(actions') /\ pending' = 0
                 /\ it' = Position(it, actions') /\ Len(actions') = Len(actions) - 1
  BY <1>1, <1>4, DroppedGoes
<1>10. WorldPhase(w, t, f, g, o, c, k, n)
  BY <1>7 DEF At
<1>11. requests' \in 0 .. MaxRequests /\ crossings' \in 0 .. MaxCrossings
  BY <1>1, <1>2
<1>12. CASE ~ SwitchHeard(w)
  <2>1. /\ HandleSwitchApplication(w, a, b) = w /\ ~ SwitchBegins(w, a)
        /\ o # "boot" /\ o \notin AtRest
    BY <1>10, <1>12, NotHeard
  <2>2. v = w
    BY <1>7, <2>1
  <2>3. Leads(v, t, f, g, o, c, k, n)
    BY <1>8, <1>10, <1>11, <2>2 DEF Leads
  <2>4. RegistryTypes(actions', pending', it') /\ Acts(actions') /\ pending' = 0
    BY <1>8, <1>9, <2>1
  <2> QED
    BY <1>1, <1>8, <2>1, <2>2, <2>3, <2>4, LoopStep
<1>13. ASSUME SwitchHeard(w) PROVE o \in {"boot", "quiet"} /\ c = "none"
  <2>1. ~ SwitchUnderWay
    BY <1>2, <1>3, <1>7, <1>13, Uncrossed
  <2> QED
    BY <1>1, <2>1, NoneUnderWay
<1>14. CASE SwitchHeard(w) /\ o = "boot"
  <2>1. WorldPhase(w, t, f, g, "boot", "none", k, n)
    BY <1>10, <1>13, <1>14
  <2>2. ~ SwitchBegins(w, a)
    BY <1>6, <2>1, SwitchBoots
  <2>3. Boots(HandleSwitchApplication(w, a, b), w, a, f, g, k, n)
    BY <2>1, SwitchBoots
  <2>4. PICK oo \in {"started", "switching"} : WorldPhase(v, a, f, g, oo, "none", k, n)
    BY <1>7, <2>3 DEF Boots
  <2>5. PICK cc \in Closings : cc = "none"
    BY DEF Closings
  <2>6. Leads(v, a, f, g, oo, cc, k, n) /\ oo # "boot" /\ oo \notin AtRest
    BY <1>8, <1>11, <2>4, <2>5 DEF Leads, Openings, AtRest
  <2>7. it = 1 /\ Len(actions) = 1
    BY <1>1, <1>2, <1>14 DEF Registry
  <2>8. RegistryTypes(actions', pending', it') /\ Acts(actions') /\ pending' = 0 /\ it' = 0
    BY <1>8, <1>9, <2>2, <2>7 DEF Position
  <2> QED
    BY <1>1, <2>6, <2>8, LoopStep
<1>15. ASSUME SwitchHeard(w), o = "quiet" PROVE Calm(w, t, f, g, k, n)
  BY <1>10, <1>13, <1>15 DEF Calm
<1>16. CASE SwitchHeard(w) /\ o = "quiet" /\ a = t
  <2>1. Calm(w, t, f, g, k, n)
    BY <1>15, <1>16
  <2>2. Shows(HandleSwitchApplication(w, t, b), w, t, f, g, k, n)
    BY <1>6, <2>1, SwitchShows
  <2>3. WorldPhase(v, t, f, g, "told", "none", k, n)
    BY <1>7, <1>16, <2>2 DEF Shows
  <2>4. SwitchBegins(w, a) <=> a # t
    BY <2>1, SwitchTells
  <2>5. /\ RegistryTypes(actions', pending', it') /\ Acts(actions') /\ pending' = 0
        /\ it' = Position(it, actions')
    BY <1>8, <1>9, <1>16, <2>4
  <2>6. it = 1
    BY <1>1, <1>2, <1>16 DEF Registry, AtRest
  <2>7. PICK oo \in Openings, cc \in Closings : oo = "told" /\ cc = "none"
    BY DEF Openings, Closings
  <2>8. Leads(v, t, f, g, oo, cc, k, n) /\ oo # "boot"
    BY <1>8, <1>11, <2>3, <2>7 DEF Leads
  <2>9. PICK ac, q : ac = actions' /\ q = v.mailbox
    OBVIOUS
  <2>10. Registry(ac, 0, Position(1, ac), q, t, oo, "none")
    BY <2>5, <2>8, <2>9, LooksAgain DEF RegistryTypes
  <2>11. Registry(actions', pending', it', q, t, oo, k)
    BY <1>1, <2>5, <2>6, <2>9, <2>10
  <2>12. it' # 0 => v.wait = NoApp
    BY <2>3, AppManagerAssumption DEF WorldPhase, Stage
  <2> QED
    BY <2>5, <2>8, <2>9, <2>11, <2>12, SettleLeads
<1>17. CASE SwitchHeard(w) /\ o = "quiet" /\ a # t
  <2>1. Calm(w, t, f, g, k, n)
    BY <1>15, <1>17
  <2>2. LeavesFor(HandleSwitchApplication(w, a, b), w, a, t, g, k, n)
    BY <1>6, <1>17, <2>1, SwitchLeaves
  <2>3. SwitchBegins(w, a) <=> a # t
    BY <2>1, SwitchTells
  <2>4. Accepted
    BY <1>8, <1>17, <2>3
  <2>5. PICK cc \in {"closing", "unfocusing"} : WorldPhase(v, a, t, g, "waiting", cc, k, n)
    BY <1>7, <2>2 DEF LeavesFor
  <2>6. PICK oo \in Openings : oo = "waiting"
    BY DEF Openings
  <2>7. Leads(v, a, t, g, oo, cc, k, n) /\ oo # "boot" /\ oo \notin AtRest
    BY <1>8, <1>11, <2>5, <2>6 DEF Leads, Closings, AtRest
  <2> QED
    BY <1>1, <1>3, <1>4, <1>5, <2>4, <2>7, AcceptedStep
<1> QED
  BY <1>12, <1>13, <1>14, <1>16, <1>17

\* A turn with a popup: it goes to the application that has the focus, or
\* waits until one has it.
LEMMA PopupTurnStep ==
    ASSUME NEW t \in Apps, NEW f \in Apps, NEW g \in Apps, NEW o \in Openings,
           NEW c \in Closings, NEW k \in Errands, NEW n \in BOOLEAN,
           At(t, f, g, o, c, k, n), NotifyAboutNextAction, PopupTurn
    PROVE  IInv'
<1>1. /\ pending = 0 /\ k = "none" /\ wait = NoApp /\ it \in DOMAIN actions
      /\ it # 0 /\ actions # <<>>
      /\ actions \in Seq([kind : RequestKinds, app : Apps]) /\ requests' = requests
  <2>1. TurnStarts(k)
    BY Turn
  <2> QED
    BY <2>1 DEF TurnStarts
<1>2. /\ Registry(actions, pending, it, mailbox, t, o, k)
      /\ requests \in 0 .. MaxRequests /\ crossings \in 0 .. MaxCrossings
  BY Known
<1>3. actions[it].kind = "Popup" /\ crossings' = crossings
  BY DEF PopupTurn
<1>4. Acts(actions)
  BY <1>2 DEF Registry
<1>5. o # "boot"
  <2> SUFFICES ASSUME o = "boot" PROVE FALSE
    OBVIOUS
  <2>1. actions = <<[kind |-> "Launch", app |-> Root]>> /\ it = 1
    BY <1>1, <1>2 DEF Registry
  <2> QED
    BY <1>3, <2>1
<1>6. requests' \in 0 .. MaxRequests /\ crossings' \in 0 .. MaxCrossings
  BY <1>1, <1>2, <1>3
<1>7. PICK w : w = Now
  OBVIOUS
<1>8. /\ WorldPhase(w, t, f, g, o, c, k, n) /\ w \in Worlds /\ w.wait = NoApp
      /\ w.stack = stack
  BY <1>1, <1>7, NowFields DEF At, WorldPhase
<1>9. CASE GetFocusedApplication(w) = NoApp
  <2>1. Skipped /\ Become(w)
    BY <1>7, <1>9 DEF PopupTurn
  <2>2. o \notin AtRest
    <3> SUFFICES ASSUME o \in AtRest PROVE FALSE
      OBVIOUS
    <3>1. stack # <<>> /\ stack[1].app = t
      BY <1>5, Known DEF Stage
    <3>2. object[t].alive /\ object[t].state = "ACTIVE_FORGROUND"
      BY Known DEF AppIs, TopIs, AtRest
    <3>3. StateOf(w, w.stack[1].app) = "ACTIVE_FORGROUND"
      BY <1>7, <1>8, <3>1, <3>2, NowFields DEF StateOf
    <3>4. GetFocusedApplication(w) = t
      BY <1>8, <3>1, <3>3, FocusFound
    <3> QED
      BY <1>9, <3>4, AppManagerAssumption
  <2>3. actions' = actions /\ pending' = 0 /\ RegistryTypes(actions', pending', it')
    BY <1>1, <2>1, SkippedGoes
  <2>4. Acts(actions')
    BY <1>4, <2>3
  <2>5. Leads(w, t, f, g, o, c, k, n)
    BY <1>6, <1>8, <2>1 DEF Leads
  <2> QED
    BY <1>1, <1>5, <1>8, <2>2, <2>3, <2>4, <2>5, LoopStep
<1>10. CASE GetFocusedApplication(w) # NoApp
  <2>1. PICK x \in Apps : x = GetFocusedApplication(w) /\ w.object[x].alive
    BY <1>8, <1>10, FocusFound
  <2>2. PICK v : v = SendTo(w, x, "Action")
    OBVIOUS
  <2>3. Accepted /\ Become(v)
    BY <1>7, <1>10, <2>1, <2>2 DEF PopupTurn
  <2>4. Errand(SendTo(w, x, "Action"), w, t, f, x, o, c, n)
    BY <1>1, <1>8, <2>1, ActionSent
  <2>5. PICK kk \in Errands : kk = "sent"
    BY DEF Errands
  <2>6. Leads(v, t, f, x, o, c, kk, n)
    BY <1>6, <2>2, <2>3, <2>4, <2>5 DEF Errand, Leads
  <2> QED
    BY <1>1, <1>3, <1>4, <1>5, <2>3, <2>5, <2>6, AcceptedStep
<1> QED
  BY <1>9, <1>10

\* A turn with a custom action: it goes to its application, or the manager
\* switches to that first.
LEMMA CustomTurnStep ==
    ASSUME NEW t \in Apps, NEW f \in Apps, NEW g \in Apps, NEW o \in Openings,
           NEW c \in Closings, NEW k \in Errands, NEW n \in BOOLEAN,
           At(t, f, g, o, c, k, n), NotifyAboutNextAction, CustomTurn, crossings' = crossings
    PROVE  IInv'
<1>1. /\ pending = 0 /\ k = "none" /\ wait = NoApp
      /\ it \in DOMAIN actions /\ it # 0 /\ actions # <<>> /\ actions[it].app \in Apps
      /\ actions \in Seq([kind : RequestKinds, app : Apps]) /\ requests' = requests
  <2>1. TurnStarts(k)
    BY Turn
  <2> QED
    BY <2>1 DEF TurnStarts
<1>2. /\ Registry(actions, pending, it, mailbox, t, o, k)
      /\ requests \in 0 .. MaxRequests /\ crossings \in 0 .. MaxCrossings
  BY Known
<1>3. actions[it].kind \in Customs /\ actions[it].kind # "Launch"
  BY DEF CustomTurn, Customs
<1>4. Acts(actions)
  BY <1>2 DEF Registry
<1>5. o # "boot"
  <2> SUFFICES ASSUME o = "boot" PROVE FALSE
    OBVIOUS
  <2>1. actions = <<[kind |-> "Launch", app |-> Root]>> /\ it = 1
    BY <1>1, <1>2 DEF Registry
  <2> QED
    BY <1>3, <2>1
<1>6. requests' \in 0 .. MaxRequests /\ crossings' \in 0 .. MaxCrossings
  BY <1>1, <1>2
<1>7. PICK a \in Apps : a = actions[it].app
  BY <1>1
<1>8. PICK w : w = Now
  OBVIOUS
<1>9. WorldPhase(w, t, f, g, o, c, k, n) /\ w.wait = NoApp /\ w.object = object
  BY <1>1, <1>8, NowFields DEF At
<1>10. CASE CustomSent /\ object[a].alive
  <2>1. PICK v : v = SendTo(w, a, "Action")
    OBVIOUS
  <2>2. Accepted /\ Become(v)
    BY <1>7, <1>8, <1>10, <2>1 DEF CustomSent
  <2>3. w.object[a].alive
    BY <1>9, <1>10
  <2>4. Errand(SendTo(w, a, "Action"), w, t, f, a, o, c, n)
    BY <1>1, <1>9, <2>3, ActionSent
  <2>5. PICK kk \in Errands : kk = "sent"
    BY DEF Errands
  <2>6. Leads(v, t, f, a, o, c, kk, n)
    BY <1>6, <2>1, <2>2, <2>4, <2>5 DEF Errand, Leads
  <2> QED
    BY <1>1, <1>3, <1>4, <1>5, <2>2, <2>5, <2>6, AcceptedStep
<1>11. CASE /\ StateOf(Now, a) # "ACTIVE_FORGROUND" /\ Skipped
            /\ Become(HandleSwitchApplication(Now, a, actions[it].kind = "Custom"))
            /\ Crossing(SwitchHeard(Now))
  <2>1. PICK b \in BOOLEAN : b = (actions[it].kind = "Custom")
    OBVIOUS
  <2>2. PICK v : v = HandleSwitchApplication(w, a, b)
    OBVIOUS
  <2>3. Become(v)
    BY <1>8, <1>11, <2>1, <2>2
  <2>4. actions' = actions /\ pending' = 0 /\ RegistryTypes(actions', pending', it')
    BY <1>1, <1>11, SkippedGoes
  <2>5. Acts(actions')
    BY <1>4, <2>4
  <2>6. CASE ~ SwitchHeard(w)
    <3>1. HandleSwitchApplication(w, a, b) = w /\ o \notin AtRest
      BY <1>9, <2>6, NotHeard
    <3>2. v = w
      BY <2>2, <3>1
    <3>3. Leads(v, t, f, g, o, c, k, n)
      BY <1>6, <1>9, <2>3, <3>2 DEF Leads
    <3> QED
      BY <1>1, <1>5, <1>9, <2>4, <2>5, <3>1, <3>2, <3>3, LoopStep
  <2>7. CASE SwitchHeard(w)
    <3>1. ~ SwitchUnderWay
      BY <1>2, <1>8, <1>11, <2>7, Uncrossed
    <3>2. o = "quiet" /\ c = "none"
      BY <1>1, <1>5, <3>1, NoneUnderWay
    <3>3. a # t
      <4>1. object[t].alive /\ object[t].state = "ACTIVE_FORGROUND"
        BY <3>2, Known DEF AppIs, TopIs
      <4> QED
        BY <1>11, <4>1, NowFields DEF StateOf
    <3>4. Calm(w, t, f, g, k, n)
      BY <1>9, <3>2 DEF Calm
    <3>5. LeavesFor(HandleSwitchApplication(w, a, b), w, a, t, g, k, n)
      BY <3>3, <3>4, SwitchLeaves
    <3>6. PICK cc \in {"closing", "unfocusing"} : WorldPhase(v, a, t, g, "waiting", cc, k, n)
      BY <2>2, <3>5 DEF LeavesFor
    <3>7. PICK oo \in Openings : oo = "waiting"
      BY DEF Openings
    <3>8. /\ Leads(v, a, t, g, oo, cc, k, n) /\ oo # "boot" /\ oo \notin AtRest
      BY <1>6, <2>3, <3>6, <3>7 DEF Leads, Closings, AtRest
    <3>9. v.wait = NoApp
      BY <3>6 DEF WorldPhase, Stage
    <3> QED
      BY <1>1, <2>4, <2>5, <3>8, <3>9, LoopStep
  <2> QED
    BY <2>6, <2>7
<1> QED
  BY <1>7, <1>10, <1>11 DEF CustomTurn

\* A turn of the loop keeps the invariant (notifyAboutNextAction).
LEMMA TurnStep ==
    ASSUME NEW t \in Apps, NEW f \in Apps, NEW g \in Apps, NEW o \in Openings,
           NEW c \in Closings, NEW k \in Errands, NEW n \in BOOLEAN,
           At(t, f, g, o, c, k, n), NotifyAboutNextAction, crossings' = crossings
    PROVE  IInv'
<1>1. LaunchTurn \/ PopupTurn \/ CustomTurn
  BY TurnKinds
<1> QED
  BY <1>1, LaunchTurnStep, PopupTurnStep, CustomTurnStep

-----------------------------------------------------------------------------
(***************************************************************************)
(* Requests, the start, and the theorems.                                  *)
(***************************************************************************)

\* When nobody has anything left to do, the application on top has the focus,
\* no other is closing, and the registry is empty.
LEMMA SettledPhase ==
    ASSUME NEW t \in Apps, NEW f \in Apps, NEW g \in Apps, NEW o \in Openings,
           NEW c \in Closings, NEW k \in Errands, NEW n \in BOOLEAN,
           At(t, f, g, o, c, k, n), Settled
    PROVE  /\ o = "quiet" /\ c = "none" /\ k = "none"
           /\ actions = <<>> /\ pending = 0 /\ it = 0 /\ mailbox = <<>>
<1>1. wait = NoApp /\ it = 0 /\ mailbox = <<>>
  BY DEF Settled
<1>2. /\ Stage(state, stack, wait, t, f, o, c) /\ Shape(t, f, o, c, n)
      /\ People(object, t, f, g, o, c, k) /\ object \in Objects
      /\ Mail(mailbox, MailDue(o, c, k, n), t, f, IF o = "confirmed" THEN t ELSE f)
      /\ RegistryTypes(actions, pending, it)
      /\ Registry(actions, pending, it, mailbox, t, o, k)
  BY Known
<1>3. /\ o \notin {"initialised", "confirmed"} /\ c \notin {"left", "confirming", "leaving"}
      /\ ~ n /\ k # "answered"
  <2>1. PICK Y, s : Y = MailDue(o, c, k, n) /\ s = (IF o = "confirmed" THEN t ELSE f)
    OBVIOUS
  <2>2. Mail(<<>>, Y, t, f, s)
    BY <1>1, <1>2, <2>1
  <2>3. \A y \in Replies : y \notin Y
    BY <2>2, MailEmpty
  <2> QED
    BY <2>1, <2>3 DEF MailDue, Replies
<1>5. o # "boot"
  BY <1>1, <1>2 DEF Registry
<1>6. o # "started" /\ c # "exiting"
  BY <1>1, <1>2, AppManagerAssumption DEF Stage
<1>7. ASSUME NEW a \in Apps, object[a].alive
      PROVE  /\ \A m \in AppMessages : m \notin InboxDue(a, t, f, g, o, c, k)
             /\ object[a].state # "FINALIZING_CLOSE"
  <2>1. object[a].inbox = <<>> /\ object[a].state # "FINALIZING_CLOSE"
    BY <1>7 DEF Settled
  <2>2. Box(object[a].inbox, InboxDue(a, t, f, g, o, c, k))
    BY <1>2 DEF People
  <2>3. Box(<<>>, InboxDue(a, t, f, g, o, c, k))
    BY <2>1, <2>2
  <2>4. \A m \in AppMessages : m \notin InboxDue(a, t, f, g, o, c, k)
    BY <2>3, BoxStart
  <2> QED
    BY <2>1, <2>4
<1>8. c \notin {"unfocusing", "closing", "finalizing"}
  <2> SUFFICES ASSUME c \in {"unfocusing", "closing", "finalizing"} PROVE FALSE
    OBVIOUS
  <2>1. f # t
    BY <1>2 DEF Shape
  <2>2. object[f].alive /\ LeaverIs(c, object[f].state)
    BY <1>2, <2>1 DEF People, AppIs
  <2>3. c = "finalizing" => object[f].state = "FINALIZING_CLOSE"
    BY <2>2 DEF LeaverIs
  <2>4. c = "unfocusing" => "LostFocus" \in InboxDue(f, t, f, g, o, c, k)
    BY Members DEF InboxDue
  <2>5. c = "closing" => "Close" \in InboxDue(f, t, f, g, o, c, k)
    BY Members DEF InboxDue
  <2> QED
    BY <1>7, <2>2, <2>3, <2>4, <2>5, Members
<1>9. c = "none"
  BY <1>3, <1>6, <1>8 DEF Closings
<1>10. o # "waiting"
  BY <1>2, <1>3, <1>9 DEF Shape
<1>11. o = "quiet"
  <2>1. object[t].alive
    BY <1>2, <1>5, <1>10 DEF People, AppIs, TopIs
  <2>2. o \in {"switching", "told"} => "Switch" \in InboxDue(t, t, f, g, o, c, k)
    BY Members DEF InboxDue
  <2>3. o \notin {"switching", "told"}
    BY <1>7, <2>1, <2>2, Members
  <2> QED
    BY <1>3, <1>5, <1>6, <1>10, <2>3 DEF Openings
<1>12. k = "none"
  <2>1. k = "sent" => object[g].alive
    BY <1>2 DEF People
  <2>2. k = "sent" => "Action" \in InboxDue(g, t, f, g, o, c, k)
    BY Members DEF InboxDue
  <2>3. k # "sent"
    BY <1>7, <2>1, <2>2, Members
  <2> QED
    BY <1>3, <2>3 DEF Errands
<1>13. pending = 0
  <2> SUFFICES ASSUME pending # 0 PROVE FALSE
    OBVIOUS
  <2>1. /\ actions[pending].kind = "Launch" => o \notin AtRest
        /\ actions[pending].kind # "Launch" <=> k # "none"
    BY <1>2, InProgress
  <2> QED
    BY <1>11, <1>12, <2>1 DEF AtRest
<1>14. actions = <<>>
  BY <1>1, <1>2, <1>11, <1>13 DEF Registry, AtRest
<1> QED
  BY <1>1, <1>9, <1>11, <1>12, <1>13, <1>14

\* A request comes into the manager's mailbox (sendAction, switchBack).
LEMMA RequestStep ==
    ASSUME NEW t \in Apps, NEW f \in Apps, NEW g \in Apps, NEW o \in Openings,
           NEW c \in Closings, NEW k \in Errands, NEW n \in BOOLEAN,
           At(t, f, g, o, c, k, n), NEW y \in RequestKinds, NEW a \in Apps, Request(y, a)
    PROVE  IInv'
<1>1. /\ mailbox' = Append(mailbox, Msg(y, a)) /\ requests' = requests + 1
      /\ requests + crossings < MaxRequests
      /\ UNCHANGED <<state, stack, object, wait, registry, fault, crossings>>
  BY DEF Request
<1>2. /\ mailbox \in Seq(Mails)
      /\ requests \in 0 .. MaxRequests /\ crossings \in 0 .. MaxCrossings
      /\ Mail(mailbox, MailDue(o, c, k, n), t, f, IF o = "confirmed" THEN t ELSE f)
      /\ RegistryTypes(actions, pending, it)
      /\ Registry(actions, pending, it, mailbox, t, o, k)
  BY Known
<1>3. PICK m \in Mails : m = Msg(y, a)
  BY DEF Mails, Msg, ManagerMessages
<1>4. m.type \in RequestKinds /\ m.app \in Apps
  BY <1>3 DEF Msg
<1>5. PICK q : q = Append(mailbox, m)
  OBVIOUS
<1>6. q \in Seq(Mails) /\ Alike(mailbox, q)
  BY <1>2, <1>5, AppendPositions, AppendAlike
<1>7. PICK s, Y : s = (IF o = "confirmed" THEN t ELSE f) /\ Y = MailDue(o, c, k, n)
  OBVIOUS
<1>8. Mail(q, Y, t, f, s)
  <2>1. Mail(mailbox, Y, t, f, s)
    BY <1>2, <1>7
  <2> QED
    BY <1>2, <1>4, <1>5, <2>1, MailRequest
<1>9. PICK v : v = [Now EXCEPT !.mailbox = q]
  OBVIOUS
<1>10. WorldPhase(v, t, f, g, o, c, k, n) /\ v.mailbox = q /\ v.wait = wait
  <2>1. Now \in Worlds /\ WorldPhase(Now, t, f, g, o, c, k, n)
    BY DEF At, WorldPhase
  <2>2. /\ v \in Worlds /\ v.mailbox = q /\ v.wait = Now.wait /\ v.object = Now.object
        /\ v.state = Now.state /\ v.stack = Now.stack /\ v.fault = Now.fault
    BY <1>6, <1>9, <2>1, FieldsDo
  <2> QED
    BY <1>7, <1>8, <2>1, <2>2, NowFields DEF WorldPhase
<1>11. Become(v)
  <2>1. /\ v.state = state /\ v.stack = stack /\ v.object = object /\ v.wait = wait
        /\ v.fault = fault
    BY <1>9, NowFields DEF Now
  <2>2. mailbox' = v.mailbox
    BY <1>1, <1>3, <1>5, <1>10
  <2>3. state' = state /\ stack' = stack /\ object' = object /\ wait' = wait /\ fault' = fault
    BY <1>1
  <2> QED
    BY <2>1, <2>2, <2>3 DEF Become
<1>12. requests' \in 0 .. MaxRequests /\ crossings' \in 0 .. MaxCrossings
  <2>1. MaxRequests \in Nat /\ MaxCrossings \in Nat
    BY AppManagerAssumption
  <2>2. /\ requests' = requests + 1 /\ requests + crossings < MaxRequests
        /\ crossings' = crossings
    BY <1>1
  <2> QED
    BY <1>2, <2>1, <2>2
<1>13. Leads(v, t, f, g, o, c, k, n)
  BY <1>10, <1>11, <1>12 DEF Leads
<1>14. Registry(actions, pending, it, q, t, o, k)
  BY <1>2, <1>6, RegistryKeeps
<1>15. /\ RegistryTypes(actions', pending', it')
       /\ Registry(actions', pending', it', q, t, o, k)
       /\ it' # 0 => v.wait = NoApp
  <2>1. it # 0 => wait = NoApp
    BY DEF At
  <2> QED
    BY <1>1, <1>2, <1>10, <1>14, <2>1 DEF registry
<1> QED
  BY <1>10, <1>13, <1>15, SettleLeads

\* The manager's steps keep the invariant, unless they begin a switch in the
\* middle of another one.
LEMMA ManagerStep ==
    ASSUME StartsOnce, IInv, Manager, crossings' = crossings
    PROVE  IInv'
<1>1. PICK t \in Apps, f \in Apps, g \in Apps, o \in Openings, c \in Closings, k \in Errands,
           n \in BOOLEAN : At(t, f, g, o, c, k, n)
  BY Unpack
<1>2. CASE NotifyAboutNextAction
  BY <1>1, <1>2, TurnStep
<1>3. ASSUME NEW y \in {"Launch", "Popup", "Custom", "CustomKeep"}, HandleActionRequest(y)
      PROVE  IInv'
  BY <1>1, <1>3, ActionRequestStep
<1>4. CASE HandleSwitchRequest
  BY <1>1, <1>4, SwitchRequestStep
<1>5. CASE HandleSwitchBack
  BY <1>1, <1>5, SwitchBackStep
<1>6. CASE HandleInitApplication
  BY <1>1, <1>6, InitStep
<1>7. CASE HandleSwitchConfirmation
  BY <1>1, <1>7, SwitchConfirmationStep
<1>8. CASE HandleFinalizingClose
  BY <1>1, <1>8, FinalizingStep
<1>9. CASE HandleCloseConfirmation
  BY <1>1, <1>9, CloseConfirmationStep
<1>10. CASE HandleCloseRequest
  BY <1>1, <1>10, CloseRequestStep
<1>11. CASE HandleActionHandled
  BY <1>1, <1>11, HandledStep
<1> QED
  BY <1>2, <1>3, <1>4, <1>5, <1>6, <1>7, <1>8, <1>9, <1>10, <1>11 DEF Manager

\* Every step that begins no switch in the middle of another one keeps the
\* invariant.
LEMMA NextKeeps ==
    ASSUME StartsOnce, IInv, [Next]_vars, crossings' = crossings
    PROVE  IInv'
<1>1. PICK t \in Apps, f \in Apps, g \in Apps, o \in Openings, c \in Closings, k \in Errands,
           n \in BOOLEAN : At(t, f, g, o, c, k, n)
  BY Unpack
<1>2. CASE Manager
  BY <1>2, ManagerStep
<1>3. ASSUME NEW a \in Apps, App(a) PROVE IInv'
  BY <1>3, AppStep
<1>4. ASSUME NEW y \in RequestKinds, NEW a \in Apps, Request(y, a) PROVE IInv'
  BY <1>1, <1>4, RequestStep
<1>5. CASE UNCHANGED vars
  <2>1. /\ state' = state /\ stack' = stack /\ object' = object /\ wait' = wait
        /\ mailbox' = mailbox /\ fault' = fault /\ actions' = actions
        /\ pending' = pending /\ it' = it /\ requests' = requests
    BY <1>5 DEF vars
  <2>2. PICK v : v = Now
    OBVIOUS
  <2>3. Become(v)
    BY <2>1, <2>2, NowFields DEF Become
  <2>4. /\ WorldPhase(v, t, f, g, o, c, k, n) /\ v.mailbox = mailbox /\ v.wait = wait
        /\ RegistryTypes(actions, pending, it)
        /\ Registry(actions, pending, it, mailbox, t, o, k)
        /\ it # 0 => wait = NoApp
        /\ requests \in 0 .. MaxRequests /\ crossings \in 0 .. MaxCrossings
    BY <1>1, <2>2, NowFields DEF At
  <2>5. /\ RegistryTypes(actions', pending', it')
        /\ Registry(actions', pending', it', v.mailbox, t, o, k)
        /\ it' # 0 => v.wait = NoApp
        /\ requests' \in 0 .. MaxRequests /\ crossings' \in 0 .. MaxCrossings
    BY <2>1, <2>4
  <2> QED
    BY <2>3, <2>4, <2>5, Settle
<1> QED
  BY <1>2, <1>3, <1>4, <1>5 DEF Next

\* The number of switches that were begun in the middle of another one never
\* falls.
LEMMA CrossingsGrow ==
    ASSUME [Next]_vars
    PROVE  crossings' \in {crossings, crossings + 1}
<1>1. ASSUME NEW begins, Crossing(begins) PROVE crossings' \in {crossings, crossings + 1}
  BY <1>1 DEF Crossing
<1>2. CASE NotifyAboutNextAction
  <2>1. LaunchTurn \/ PopupTurn \/ CustomTurn
    BY <1>2, TurnKinds
  <2> QED
    BY <1>1, <2>1 DEF LaunchTurn, PopupTurn, CustomTurn, CustomSent
<1>3. ASSUME NEW y, y \notin {"Switch", "SwitchBack"}, Handles(y) PROVE crossings' = crossings
  BY <1>3 DEF Handles
<1>4. ASSUME NEW y \in {"Launch", "Popup", "Custom", "CustomKeep"}, HandleActionRequest(y)
      PROVE  crossings' = crossings
  BY <1>3, <1>4 DEF HandleActionRequest
<1>5. CASE HandleSwitchRequest
  BY <1>1, <1>5 DEF HandleSwitchRequest
<1>6. CASE HandleSwitchBack
  <2>1. PICK m \in BOOLEAN : Crossing(Len(stack) >= 2 /\ m)
    BY <1>6 DEF HandleSwitchBack
  <2> QED
    BY <1>1, <2>1
<1>7. CASE \/ HandleInitApplication \/ HandleSwitchConfirmation \/ HandleFinalizingClose
           \/ HandleCloseConfirmation \/ HandleCloseRequest \/ HandleActionHandled
  BY <1>3, <1>7 DEF HandleInitApplication, HandleSwitchConfirmation, HandleFinalizingClose,
                    HandleCloseConfirmation, HandleCloseRequest, HandleActionHandled
<1>8. ASSUME NEW a \in Apps, App(a) PROVE crossings' = crossings
  BY <1>8 DEF App, AppStart, AppSwitch, AppLostFocus, AppClose, CheckBlockingRequests,
              AppAction, AppExit, Receives
<1>9. ASSUME NEW y, NEW a, Request(y, a) PROVE crossings' = crossings
  BY <1>9 DEF Request
<1>10. CASE UNCHANGED vars
  BY <1>10 DEF vars
<1> QED
  BY <1>2, <1>4, <1>5, <1>6, <1>7, <1>8, <1>9, <1>10 DEF Next, Manager

\* At the start there is a request for the root application and nothing else.
LEMMA InitHolds == Init => IInv
<1> SUFFICES ASSUME Init PROVE IInv
  OBVIOUS
<1>1. Root \in Apps /\ NoApp \notin Apps /\ MaxRequests \in Nat /\ MaxCrossings \in Nat
  BY AppManagerAssumption
<1>2. PICK m \in Mails : m = Msg("Launch", Root)
  BY <1>1 DEF Mails, Msg, ManagerMessages, RequestKinds
<1>3. m.type = "Launch" /\ m.app = Root /\ m.type \notin Replies
  BY <1>2 DEF Msg, Replies
<1>4. /\ mailbox = <<m>> /\ mailbox \in Seq(Mails) /\ DOMAIN mailbox = {1}
      /\ mailbox[1] = m /\ mailbox # <<>>
  BY <1>2 DEF Init
<1>5. NoObject \in [state : AppState, inbox : Seq(AppMessages), alive : BOOLEAN]
      /\ NoObject.alive = FALSE /\ NoObject.inbox = <<>>
  BY BoxStart DEF NoObject, AppState
<1>6. object \in Objects /\ \A a \in Apps : object[a] = NoObject
  BY <1>5 DEF Init, Objects
<1>7. /\ state = "Running" /\ stack = <<>> /\ wait = NoApp /\ actions = <<>>
      /\ pending = 0 /\ it = 0 /\ fault = {} /\ requests = 0 /\ crossings = 0
  BY DEF Init
<1>8. TypeOK
  BY <1>1, <1>4, <1>6, <1>7 DEF TypeOK, Mails, Objects, ManagerState
<1>9. PICK o \in Openings, c \in Closings, k \in Errands, n \in BOOLEAN :
          o = "boot" /\ c = "none" /\ k = "none" /\ ~ n
  BY DEF Openings, Closings, Errands
<1>10. Stage(state, stack, wait, Root, Root, o, c) /\ Shape(Root, Root, o, c, n)
  BY <1>7, <1>9 DEF Stage, Shape
<1>11. People(object, Root, Root, Root, o, c, k)
  <2>1. ASSUME NEW a \in Apps
        PROVE  /\ AppIs(a, object[a].state, object[a].alive, Root, Root, o, c)
               /\ Box(object[a].inbox, InboxDue(a, Root, Root, Root, o, c, k))
    <3>1. object[a].alive = FALSE /\ object[a].inbox = <<>>
      BY <1>5, <1>6
    <3>2. AppIs(a, object[a].state, object[a].alive, Root, Root, o, c)
      BY <1>9, <3>1 DEF AppIs, TopIs
    <3>3. \A x \in AppMessages : x \notin InboxDue(a, Root, Root, Root, o, c, k)
      BY <1>9 DEF InboxDue
    <3>4. Box(<<>>, InboxDue(a, Root, Root, Root, o, c, k))
      BY <3>3, BoxStart
    <3> QED
      BY <3>1, <3>2, <3>4
  <2> QED
    BY <1>9, <2>1 DEF People
<1>12. Mail(mailbox, MailDue(o, c, k, n), Root, Root, IF o = "confirmed" THEN Root ELSE Root)
  <2>1. \A y \in Replies : y \notin MailDue(o, c, k, n)
    BY <1>9 DEF MailDue
  <2>2. \A i \in DOMAIN mailbox : i = 1 /\ mailbox[i] = m
    BY <1>4
  <2> QED
    BY <1>1, <1>3, <1>4, <2>1, <2>2 DEF Mail, Replies
<1>13. Registry(actions, pending, it, mailbox, Root, o, k)
  BY <1>2, <1>4, <1>7, <1>9 DEF Registry, Acts
<1>14. Phase(Root, Root, Root, o, c, k, n)
  BY <1>7, <1>10, <1>11, <1>12, <1>13 DEF Phase
<1> QED
  BY <1>1, <1>7, <1>8, <1>14 DEF IInv

\* At rest exactly the application on top of the stack has the focus, and the
\* registry is empty.
LEMMA RestIsQuiet ==
    ASSUME IInv, Settled
    PROVE  InForeground = {stack[1].app} /\ actions = <<>>
<1>1. PICK t \in Apps, f \in Apps, g \in Apps, o \in Openings, c \in Closings, k \in Errands,
           n \in BOOLEAN : At(t, f, g, o, c, k, n)
  BY Unpack
<1>2. o = "quiet" /\ c = "none" /\ actions = <<>>
  BY <1>1, SettledPhase
<1>3. Stage(state, stack, wait, t, f, o, c) /\ People(object, t, f, g, o, c, k)
  BY <1>1, Known
<1>4. stack[1].app = t
  BY <1>2, <1>3 DEF Stage
<1>5. StateOf(Now, t) = "ACTIVE_FORGROUND"
  BY <1>2, <1>3, NowFields DEF StateOf, People, AppIs, TopIs
<1>6. ASSUME NEW a \in Apps, a # t PROVE StateOf(Now, a) # "ACTIVE_FORGROUND"
  BY <1>2, <1>3, <1>6, NowFields DEF StateOf, People, AppIs
<1>7. InForeground = {t}
  BY <1>5, <1>6 DEF InForeground
<1> QED
  BY <1>2, <1>4, <1>7

\* As long as no switch was begun in the middle of another one, the manager and
\* its applications are in a phase.
InPhase == crossings \in Nat /\ (crossings = 0 => IInv)

\* This is an invariant.
LEMMA Invariance == ASSUME StartsOnce PROVE Spec => []InPhase
<1>1. Init => InPhase
  <2>1. Init => crossings = 0
    BY DEF Init
  <2> QED
    BY <2>1, InitHolds DEF InPhase
<1>2. ASSUME InPhase, [Next]_vars PROVE InPhase'
  <2>1. crossings \in Nat /\ crossings' \in {crossings, crossings + 1}
    BY <1>2, CrossingsGrow DEF InPhase
  <2>2. ASSUME crossings' = 0 PROVE IInv'
    <3>1. crossings = 0 /\ crossings' = crossings
      BY <2>1, <2>2
    <3>2. IInv
      BY <1>2, <3>1 DEF InPhase
    <3> QED
      BY <1>2, <3>1, <3>2, NextKeeps
  <2> QED
    BY <2>1, <2>2 DEF InPhase
<1>3. InPhase /\ [Next]_vars => InPhase'
  BY <1>2
<1> QED
  BY <1>1, <1>3, PTL DEF Spec

\* ApplicationHandle::closeable, which looks into the object of an application
\* without a test, always finds one, and an application is run only when it has
\* no object, as long as no switch was begun in the middle of another one; what
\* requests come, and when, is not restricted further.
THEOREM ObjectsExist == ASSUME StartsOnce PROVE Spec => []HandlesExist
<1>1. InPhase => HandlesExist
  BY DEF InPhase, IInv, HandlesExist
<1> QED
  BY <1>1, Invariance, PTL

\* When nobody has anything left to do, exactly the application on top of the
\* stack has the focus, and no action was left in the registry, as long as no
\* switch was begun in the middle of another one.
THEOREM FocusIsOnTop == ASSUME StartsOnce PROVE Spec => []FocusSettles
<1>1. InPhase => FocusSettles
  BY RestIsQuiet DEF InPhase, FocusSettles
<1> QED
  BY <1>1, Invariance, PTL

-----------------------------------------------------------------------------
(***************************************************************************)
(* Actions and their answers, whatever switches cross one another.  An     *)
(* application is sent an action only when none is in progress, and at     *)
(* most one action or answer is on its way.                                *)
(***************************************************************************)

\* No action is on its way to an application, and at most one is.
NoAction(ob) == \A a \in Apps : \A i \in DOMAIN ob[a].inbox : ob[a].inbox[i] # "Action"
OneAction(ob) ==
    \A a, b \in Apps : \A i \in DOMAIN ob[a].inbox, j \in DOMAIN ob[b].inbox :
        ob[a].inbox[i] = "Action" /\ ob[b].inbox[j] = "Action" => a = b /\ i = j

\* No answer to an action is in the mailbox q, and at most one is; all other
\* messages name an application.
NoAnswer(q) == \A i \in DOMAIN q : q[i].type # "ActionHandled"
OneAnswer(q) ==
    \A i, j \in DOMAIN q : q[i].type = "ActionHandled" /\ q[j].type = "ActionHandled" => i = j
Signed(q) == \A i \in DOMAIN q : q[i].type # "ActionHandled" => q[i].app \in Apps

\* Neither an action nor an answer is on its way.
Idle == NoAction(object) /\ NoAnswer(mailbox)

Answerable ==
    /\ TypeOK
    /\ "action" \notin fault
    /\ Acts(actions)
    /\ it # 0 => pending = 0
    /\ OneAction(object) /\ OneAnswer(mailbox) /\ Signed(mailbox)
    /\ NoAction(object) \/ NoAnswer(mailbox)
    /\ Idle \/ (pending # 0 /\ actions[pending].kind # "Launch")

\* A step sends no action and gives no answer.
FewerActions(ob, ob2) ==
    (NoAction(ob) => NoAction(ob2)) /\ (OneAction(ob) => OneAction(ob2))
FewerAnswers(q, r) ==
    /\ NoAnswer(q) => NoAnswer(r)
    /\ OneAnswer(q) => OneAnswer(r)
    /\ Signed(q) => Signed(r)
Follows(w, v) ==
    /\ v \in Worlds
    /\ FewerActions(w.object, v.object)
    /\ FewerAnswers(w.mailbox, v.mailbox)
    /\ "action" \in v.fault => "action" \in w.fault

\* Each action in the inbox r is one of the inbox q, d places further back.
From(q, r, d) ==
    \A i \in DOMAIN r : i \in Nat /\ (r[i] = "Action" => i + d \in DOMAIN q /\ q[i + d] = "Action")

\* What an inbox goes through without an action's being sent.
LEMMA InboxFrom ==
    ASSUME NEW q \in Seq(AppMessages)
    PROVE  /\ From(q, q, 0) /\ From(q, <<"Start">>, 0) /\ From(q, <<>>, 0)
           /\ q # <<>> => From(q, Tail(q), 1)
           /\ \A m \in AppMessages : m # "Action" => From(q, Append(q, m), 0)
<1>1. From(q, q, 0) /\ From(q, <<"Start">>, 0) /\ From(q, <<>>, 0)
  BY DEF From
<1>2. q # <<>> => From(q, Tail(q), 1)
  BY TailPositions DEF From
<1>3. ASSUME NEW m \in AppMessages, m # "Action" PROVE From(q, Append(q, m), 0)
  <2>1. PICK r : r = Append(q, m)
    OBVIOUS
  <2>2. PICK l \in Nat : l = Len(q) + 1
    OBVIOUS
  <2>3. /\ DOMAIN r = DOMAIN q \cup {l} /\ r[l] = m
        /\ \A i \in DOMAIN q : i \in Nat /\ r[i] = q[i]
    BY <2>1, <2>2, AppendPositions
  <2>4. From(q, r, 0)
    BY <1>3, <2>3 DEF From
  <2> QED
    BY <2>1, <2>4
<1> QED
  BY <1>1, <1>2, <1>3

\* If one inbox changes like this, no action has come.
LEMMA OneInbox ==
    ASSUME NEW ob, NEW ob2, NEW a \in Apps, NEW d \in {0, 1},
           From(ob[a].inbox, ob2[a].inbox, d),
           \A b \in Apps : b # a => ob2[b] = ob[b]
    PROVE  FewerActions(ob, ob2)
<1>1. ASSUME NEW i \in DOMAIN ob2[a].inbox, ob2[a].inbox[i] = "Action"
      PROVE  i \in Nat /\ i + d \in DOMAIN ob[a].inbox /\ ob[a].inbox[i + d] = "Action"
  BY <1>1 DEF From
<1>2. ASSUME NoAction(ob) PROVE NoAction(ob2)
  <2> SUFFICES ASSUME NEW b \in Apps, NEW i \in DOMAIN ob2[b].inbox, ob2[b].inbox[i] = "Action"
               PROVE  FALSE
    BY DEF NoAction
  <2>1. CASE b = a
    BY <1>1, <1>2, <2>1 DEF NoAction
  <2>2. CASE b # a
    BY <1>2, <2>2 DEF NoAction
  <2> QED
    BY <2>1, <2>2
<1>3. ASSUME OneAction(ob) PROVE OneAction(ob2)
  <2> SUFFICES ASSUME NEW b \in Apps, NEW e \in Apps, NEW i \in DOMAIN ob2[b].inbox,
                      NEW j \in DOMAIN ob2[e].inbox, ob2[b].inbox[i] = "Action",
                      ob2[e].inbox[j] = "Action"
               PROVE  b = e /\ i = j
    BY DEF OneAction
  <2>1. CASE b = a /\ e = a
    <3>1. /\ i \in Nat /\ i + d \in DOMAIN ob[a].inbox /\ ob[a].inbox[i + d] = "Action"
          /\ j \in Nat /\ j + d \in DOMAIN ob[a].inbox /\ ob[a].inbox[j + d] = "Action"
      BY <1>1, <2>1
    <3>2. i + d = j + d
      BY <1>3, <3>1 DEF OneAction
    <3> QED
      BY <2>1, <3>1, <3>2
  <2>2. CASE b = a /\ e # a
    <3>1. /\ i + d \in DOMAIN ob[b].inbox /\ ob[b].inbox[i + d] = "Action"
          /\ j \in DOMAIN ob[e].inbox /\ ob[e].inbox[j] = "Action"
      BY <1>1, <2>2
    <3> QED
      BY <1>3, <2>2, <3>1 DEF OneAction
  <2>3. CASE b # a /\ e = a
    <3>1. /\ i \in DOMAIN ob[b].inbox /\ ob[b].inbox[i] = "Action"
          /\ j + d \in DOMAIN ob[e].inbox /\ ob[e].inbox[j + d] = "Action"
      BY <1>1, <2>3
    <3> QED
      BY <1>3, <2>3, <3>1 DEF OneAction
  <2>4. CASE b # a /\ e # a
    BY <1>3, <2>4 DEF OneAction
  <2> QED
    BY <2>1, <2>2, <2>3, <2>4
<1> QED
  BY <1>2, <1>3 DEF FewerActions

\* What the manager's mailbox goes through without an answer's being given.
LEMMA MailFewer ==
    ASSUME NEW q \in Seq(Mails)
    PROVE  /\ FewerAnswers(q, q)
           /\ q # <<>> => FewerAnswers(q, Tail(q))
           /\ \A m \in Mails : m.type # "ActionHandled" /\ m.app \in Apps =>
                  FewerAnswers(q, Append(q, m))
<1>1. FewerAnswers(q, q)
  BY DEF FewerAnswers
<1>2. ASSUME q # <<>> PROVE FewerAnswers(q, Tail(q))
  <2>1. PICK r : r = Tail(q)
    OBVIOUS
  <2>2. \A i \in DOMAIN r : i \in Nat /\ i + 1 \in DOMAIN q /\ r[i] = q[i + 1]
    BY <1>2, <2>1, TailPositions
  <2>3. OneAnswer(q) => OneAnswer(r)
    BY <2>2 DEF OneAnswer
  <2>4. (NoAnswer(q) => NoAnswer(r)) /\ (Signed(q) => Signed(r))
    BY <2>2 DEF NoAnswer, Signed
  <2> QED
    BY <2>1, <2>3, <2>4 DEF FewerAnswers
<1>3. ASSUME NEW m \in Mails, m.type # "ActionHandled", m.app \in Apps
      PROVE  FewerAnswers(q, Append(q, m))
  <2>1. PICK r : r = Append(q, m)
    OBVIOUS
  <2>2. PICK l \in Nat : l = Len(q) + 1
    OBVIOUS
  <2>3. DOMAIN r = DOMAIN q \cup {l} /\ r[l] = m /\ \A i \in DOMAIN q : r[i] = q[i]
    BY <2>1, <2>2, AppendPositions
  <2>4. /\ NoAnswer(q) => NoAnswer(r)
        /\ OneAnswer(q) => OneAnswer(r)
        /\ Signed(q) => Signed(r)
    BY <1>3, <2>3 DEF NoAnswer, OneAnswer, Signed
  <2> QED
    BY <2>1, <2>4 DEF FewerAnswers
<1> QED
  BY <1>1, <1>2, <1>3

\* Worlds that follow one another.
LEMMA FollowsOn ==
    ASSUME NEW u, NEW w, NEW v, Follows(u, w), Follows(w, v)
    PROVE  Follows(u, v)
  BY DEF Follows, FewerActions, FewerAnswers

\* The manager changes its own fields.
LEMMA FollowsSame ==
    ASSUME NEW w, NEW v \in Worlds, v.object = w.object, v.mailbox = w.mailbox,
           v.fault \subseteq w.fault \cup {"handle", "object"}
    PROVE  Follows(w, v)
  BY DEF Follows, FewerActions, FewerAnswers

\* The manager sends a message that is not an action, or writes the state of an
\* application.
LEMMA FollowsMessage ==
    ASSUME NEW w \in Worlds, NEW a \in Apps
    PROVE  /\ \A m \in AppMessages : m # "Action" => Follows(w, SendTo(w, a, m))
           /\ \A s \in AppState : Follows(w, SetState(w, a, s))
<1>1. w.object[a].inbox \in Seq(AppMessages)
  BY DEF Worlds, Objects
<1>2. CASE ~ w.object[a].alive
  <2>1. Follows(w, w)
    BY FollowsSame
  <2> QED
    BY <1>2, <2>1 DEF SendTo, SetState
<1>3. ASSUME w.object[a].alive, NEW v, OnlyObjects(v, w), NEW s, NEW q,
             Updated(w.object, v.object, a, s, q), From(w.object[a].inbox, q, 0)
      PROVE  Follows(w, v)
  <2>1. PICK ob, ob2 : ob = w.object /\ ob2 = v.object
    OBVIOUS
  <2>2. /\ From(ob[a].inbox, ob2[a].inbox, 0)
        /\ \A b \in Apps : b # a => ob2[b] = ob[b]
    BY <1>3, <2>1 DEF Updated
  <2>3. FewerActions(ob, ob2)
    BY <2>2, OneInbox
  <2> QED
    BY <1>3, <2>1, <2>3 DEF Follows, OnlyObjects, FewerAnswers
<1>4. ASSUME w.object[a].alive, NEW m \in AppMessages, m # "Action"
      PROVE  Follows(w, SendTo(w, a, m))
  <2>1. From(w.object[a].inbox, Append(w.object[a].inbox, m), 0)
    BY <1>1, <1>4, InboxFrom
  <2>2. /\ OnlyObjects(SendTo(w, a, m), w)
        /\ Updated(w.object, SendTo(w, a, m).object, a, w.object[a].state,
                   Append(w.object[a].inbox, m))
    BY <1>4, SendToDoes
  <2> QED
    BY <1>3, <1>4, <2>1, <2>2
<1>5. ASSUME w.object[a].alive, NEW s \in AppState
      PROVE  Follows(w, SetState(w, a, s))
  <2>1. From(w.object[a].inbox, w.object[a].inbox, 0)
    BY <1>1, InboxFrom
  <2>2. /\ OnlyObjects(SetState(w, a, s), w)
        /\ Updated(w.object, SetState(w, a, s).object, a, s, w.object[a].inbox)
    BY <1>5, SetStateDoes
  <2> QED
    BY <1>3, <1>5, <2>1, <2>2
<1> QED
  BY <1>2, <1>4, <1>5

\* A new object for an application (ApplicationLauncherT::run), whether or not
\* it has one.
LEMMA FollowsRun ==
    ASSUME NEW w \in Worlds, NEW a \in Apps
    PROVE  Follows(w, Run(w, a))
<1>1. PICK v : v = Run(w, a)
  OBVIOUS
<1>2. PICK n : n = [NoObject EXCEPT !.inbox = <<"Start">>, !.alive = TRUE]
  OBVIOUS
<1>3. n \in [state : AppState, inbox : Seq(AppMessages), alive : BOOLEAN] /\ n.inbox = <<"Start">>
  <2>1. NoObject \in [state : AppState, inbox : Seq(AppMessages), alive : BOOLEAN]
    BY BoxStart DEF AppState, NoObject
  <2> QED
    BY <1>2, <2>1, BoxStart
<1>4. PICK x : x = IF w.object[a].alive THEN w.fault \cup {"object"} ELSE w.fault
  OBVIOUS
<1>5. PICK ob : ob = [w.object EXCEPT ![a] = n]
  OBVIOUS
<1>6. v = [w EXCEPT !.object = ob, !.wait = a, !.fault = x]
  BY <1>1, <1>2, <1>4, <1>5 DEF Run, Worlds
<1>7. /\ w.object \in Objects /\ w.object[a].inbox \in Seq(AppMessages)
      /\ w.fault \subseteq {"action", "handle", "object"}
  BY DEF Worlds, Objects
<1>8. /\ ob \in Objects /\ ob[a].inbox = <<"Start">>
      /\ \A b \in Apps : b # a => ob[b] = w.object[b]
  BY <1>3, <1>5, <1>7 DEF Objects
<1>9. /\ v \in Worlds /\ v.object = ob /\ v.mailbox = w.mailbox /\ v.fault = x
  BY <1>4, <1>6, <1>7, <1>8 DEF Worlds
<1>10. From(w.object[a].inbox, ob[a].inbox, 0)
  BY <1>7, <1>8, InboxFrom
<1>11. FewerActions(w.object, ob)
  BY <1>8, <1>10, OneInbox
<1> QED
  BY <1>1, <1>4, <1>9, <1>11 DEF Follows, FewerAnswers

\* An application is started or told to show itself (startApplication).
LEMMA FollowsStart ==
    ASSUME NEW w \in Worlds, NEW a \in Apps
    PROVE  Follows(w, StartApplication(w, a))
<1>1. PICK u : u = SendTo(w, a, "Switch")
  OBVIOUS
<1>2. Follows(w, u) /\ u \in Worlds
  BY <1>1, Members, FollowsMessage DEF Follows
<1>3. PICK v : v = [u EXCEPT !.state = "AwaitingFocusConfirmation"]
  OBVIOUS
<1>4. "AwaitingFocusConfirmation" \in ManagerState
  BY DEF ManagerState
<1>5. v \in Worlds /\ v.object = u.object /\ v.mailbox = u.mailbox /\ v.fault = u.fault
  BY <1>2, <1>3, <1>4, FieldsDo
<1>6. Follows(w, v)
  BY <1>2, <1>5, FollowsSame, FollowsOn
<1>7. Follows(w, w) /\ Follows(w, Run(w, a))
  BY FollowsSame, FollowsRun
<1> QED
  BY <1>1, <1>3, <1>6, <1>7 DEF StartApplication

\* The application on top is started if it has not got the focus.
LEMMA FollowsLaunching ==
    ASSUME NEW w \in Worlds
    PROVE  /\ GetLaunchingApplication(w) \in Apps \cup {NoApp}
           /\ Follows(w, StartLaunching(w))
           /\ Follows(w, StartPendingApplicationOnCurrentClose(w))
<1>1. GetLaunchingApplication(w) \in Apps \cup {NoApp}
  <2>1. w.stack # <<>> => w.stack[1].app \in Apps
    <3> SUFFICES ASSUME w.stack # <<>> PROVE w.stack[1].app \in Apps
      OBVIOUS
    <3>1. w.stack \in Seq([app : Apps, closeable : BOOLEAN]) /\ 1 \in DOMAIN w.stack
      BY DEF Worlds, Stacks
    <3>2. w.stack[1] \in [app : Apps, closeable : BOOLEAN]
      BY <3>1, ElementType
    <3> QED
      BY <3>2
  <2> QED
    BY <2>1 DEF GetLaunchingApplication
<1>2. Follows(w, w)
  BY FollowsSame
<1>3. Follows(w, StartLaunching(w))
  BY <1>1, <1>2, FollowsStart DEF StartLaunching
<1> QED
  BY <1>1, <1>2, <1>3 DEF StartPendingApplicationOnCurrentClose

\* An application is asked to close or to give up the focus
\* (requestApplicationClose).
LEMMA FollowsClose ==
    ASSUME NEW w \in Worlds, NEW a \in Apps, NEW b
    PROVE  Follows(w, RequestApplicationClose(w, a, b))
<1>1. ASSUME NEW m \in {"Close", "LostFocus"}, NEW s \in ManagerState, NEW v,
             v = [SendTo(w, a, m) EXCEPT !.state = s]
      PROVE  Follows(w, v)
  <2>1. PICK u : u = SendTo(w, a, m)
    OBVIOUS
  <2>2. Follows(w, u) /\ u \in Worlds
    BY <2>1, Members, FollowsMessage DEF Follows
  <2>3. v \in Worlds /\ v.object = u.object /\ v.mailbox = u.mailbox /\ v.fault = u.fault
    BY <1>1, <2>1, <2>2, FieldsDo
  <2> QED
    BY <2>2, <2>3, FollowsSame, FollowsOn
<1> QED
  BY <1>1 DEF RequestApplicationClose, ManagerState

\* A switch (handleSwitchApplication), whatever goes on.
LEMMA FollowsSwitch ==
    ASSUME NEW w \in Worlds, NEW a \in Apps, NEW b \in BOOLEAN
    PROVE  Follows(w, HandleSwitchApplication(w, a, b))
<1>1. PICK x : x = GetFocusedApplication(w)
  OBVIOUS
<1>2. x # NoApp => x \in Apps /\ w.stack # <<>>
  BY <1>1, FocusFound
<1>3. CASE x = NoApp
  <2>1. PICK p : p = OnApplicationSwitch(w, a)
    OBVIOUS
  <2>2. /\ p \in Worlds /\ p.object = w.object /\ p.mailbox = w.mailbox /\ p.fault = w.fault
    BY <2>1, Pushes DEF IsPushed
  <2>3. Follows(w, p) /\ Follows(w, w)
    BY <2>2, FollowsSame
  <2>4. Follows(w, StartApplication(p, a))
    BY <2>2, <2>3, FollowsStart, FollowsOn
  <2> QED
    BY <1>1, <1>3, <2>1, <2>3, <2>4 DEF HandleSwitchApplication
<1>4. CASE x # NoApp
  <2>1. PICK u : u = [w EXCEPT !.stack[1].closeable = b]
    OBVIOUS
  <2>2. u \in Worlds /\ u.object = w.object /\ u.mailbox = w.mailbox /\ u.fault = w.fault
    BY <1>2, <1>4, <2>1, Marks
  <2>3. PICK p : p = OnApplicationSwitch(u, a)
    OBVIOUS
  <2>4. /\ p \in Worlds /\ p.object = w.object /\ p.mailbox = w.mailbox /\ p.fault = w.fault
    BY <2>2, <2>3, Pushes DEF IsPushed
  <2>5. Follows(w, p)
    BY <2>4, FollowsSame
  <2>6. Follows(w, SendTo(p, a, "Switch"))
    BY <2>4, <2>5, Members, FollowsMessage, FollowsOn
  <2>7. Follows(w, AskToLeave(p, x))
    BY <1>2, <1>4, <2>4, <2>5, FollowsClose, FollowsOn DEF AskToLeave
  <2> QED
    BY <1>1, <1>4, <2>1, <2>3, <2>6, <2>7 DEF HandleSwitchApplication, AskToLeave
<1> QED
  BY <1>3, <1>4

\* A step that sends no action and gives no answer.
LEMMA StepKeeps ==
    ASSUME Answerable, TypeOK', "action" \notin fault', Acts(actions'),
           it' # 0 => pending' = 0,
           FewerActions(object, object'), FewerAnswers(mailbox, mailbox'),
           Idle \/ (pending' # 0 /\ actions'[pending'].kind # "Launch")
    PROVE  Answerable'
<1>1. /\ OneAction(object) /\ OneAnswer(mailbox) /\ Signed(mailbox)
      /\ NoAction(object) \/ NoAnswer(mailbox)
  BY DEF Answerable
<1>2. /\ NoAction(object) => NoAction(object')
      /\ NoAnswer(mailbox) => NoAnswer(mailbox')
      /\ OneAction(object') /\ OneAnswer(mailbox') /\ Signed(mailbox')
  BY <1>1 DEF FewerActions, FewerAnswers
<1>3. Idle => Idle'
  BY <1>2 DEF Idle
<1> QED
  BY <1>1, <1>2, <1>3 DEF Answerable

\* What is known of the manager's world.
LEMMA World ==
    ASSUME Answerable
    PROVE  /\ Now \in Worlds /\ mailbox \in Seq(Mails) /\ object \in Objects
           /\ RegistryTypes(actions, pending, it) /\ Acts(actions)
           /\ requests \in 0 .. MaxRequests /\ crossings \in 0 .. MaxCrossings
  BY DEF Answerable, TypeOK, Now, Worlds, Stacks, Objects, Mails, RegistryTypes

\* The manager goes into the world v.
LEMMA TypesKept ==
    ASSUME NEW v \in Worlds, Become(v), RegistryTypes(actions', pending', it'),
           requests' \in 0 .. MaxRequests, crossings' \in 0 .. MaxCrossings
    PROVE  TypeOK'
<1>1. /\ v.state = state' /\ v.stack = stack' /\ v.object = object'
      /\ v.wait = wait' /\ v.mailbox = mailbox' /\ v.fault = fault'
  BY DEF Become
<1> QED
  BY <1>1 DEF TypeOK, Worlds, Stacks, Objects, Mails, RegistryTypes

\* A step of the manager that sends no action.
LEMMA ManagerKeeps ==
    ASSUME Answerable, NEW v, Follows(Now, v), Become(v),
           RegistryTypes(actions', pending', it'),
           requests' \in 0 .. MaxRequests, crossings' \in 0 .. MaxCrossings,
           Acts(actions'), it' # 0 => pending' = 0,
           Idle \/ (pending' # 0 /\ actions'[pending'].kind # "Launch")
    PROVE  Answerable'
<1>1. v \in Worlds /\ TypeOK'
  BY TypesKept DEF Follows
<1>2. v.object = object' /\ v.mailbox = mailbox' /\ v.fault = fault'
  BY DEF Become
<1>3. "action" \notin fault
  BY DEF Answerable
<1>4. /\ FewerActions(object, object') /\ FewerAnswers(mailbox, mailbox')
      /\ "action" \notin fault'
  BY <1>2, <1>3, NowFields DEF Follows
<1> QED
  BY <1>1, <1>4, StepKeeps

\* The step leaves the registry as it is.
LEMMA RegistryStays ==
    ASSUME Answerable, UNCHANGED registry
    PROVE  /\ RegistryTypes(actions', pending', it') /\ Acts(actions')
           /\ it' # 0 => pending' = 0
           /\ Idle \/ (pending' # 0 /\ actions'[pending'].kind # "Launch")
<1>1. actions' = actions /\ pending' = pending /\ it' = it
  BY DEF registry
<1>2. RegistryTypes(actions, pending, it) /\ Acts(actions)
  BY World
<1> QED
  BY <1>1, <1>2 DEF Answerable

\* A step counts at most one switch in the middle of another one.
LEMMA CrossingsBound ==
    ASSUME crossings \in 0 .. MaxCrossings, NEW begins, Crossing(begins)
    PROVE  crossings' \in 0 .. MaxCrossings
  BY AppManagerAssumption DEF Crossing

\* The manager takes its first message.
LEMMA FirstTaken ==
    ASSUME Answerable, NEW y, Handles(y)
    PROVE  /\ Follows(Now, Received) /\ Received \in Worlds
           /\ Received.object = object /\ Received.mailbox = Tail(mailbox)
           /\ Received.stack = stack /\ Received.fault = fault
           /\ mailbox # <<>> /\ Head(mailbox) = mailbox[1] /\ 1 \in DOMAIN mailbox
           /\ Head(mailbox).type = y /\ (y # "ActionHandled" => Head(mailbox).app \in Apps)
           /\ it = 0 /\ requests' \in 0 .. MaxRequests
           /\ y \notin {"Switch", "SwitchBack"} => crossings' \in 0 .. MaxCrossings
<1>1. /\ it = 0 /\ mailbox # <<>> /\ Head(mailbox).type = y /\ requests' = requests
      /\ y \notin {"Switch", "SwitchBack"} => crossings' = crossings
  BY DEF Handles
<1>2. /\ Now \in Worlds /\ mailbox \in Seq(Mails)
      /\ requests \in 0 .. MaxRequests /\ crossings \in 0 .. MaxCrossings
  BY World
<1>3. Tail(mailbox) \in Seq(Mails) /\ Head(mailbox) = mailbox[1] /\ 1 \in DOMAIN mailbox
  BY <1>1, <1>2, TailPositions
<1>4. PICK v : v = [Now EXCEPT !.mailbox = Tail(mailbox)]
  OBVIOUS
<1>5. v = Received
  BY <1>4, NowFields DEF Received
<1>6. /\ v \in Worlds /\ v.object = Now.object /\ v.mailbox = Tail(mailbox)
      /\ v.stack = Now.stack /\ v.fault = Now.fault
  BY <1>2, <1>3, <1>4, FieldsDo
<1>7. FewerAnswers(mailbox, Tail(mailbox))
  BY <1>1, <1>2, MailFewer
<1>8. Follows(Now, v)
  BY <1>6, <1>7, NowFields DEF Follows, FewerActions
<1>9. y # "ActionHandled" => Head(mailbox).app \in Apps
  BY <1>1, <1>3 DEF Answerable, Signed
<1> QED
  BY <1>1, <1>2, <1>3, <1>5, <1>6, <1>8, <1>9, NowFields

\* A handler that leaves the registry as it is.
LEMMA HandlerKeeps ==
    ASSUME Answerable, NEW y, Handles(y), NEW v, Follows(Received, v), Become(v),
           UNCHANGED registry, crossings' \in 0 .. MaxCrossings
    PROVE  Answerable'
<1>1. Follows(Now, v) /\ requests' \in 0 .. MaxRequests
  BY FirstTaken, FollowsOn
<1> QED
  BY <1>1, RegistryStays, ManagerKeeps

\* Switches and steps back (handleSwitchRequest, handleSwitchBack).
LEMMA SwitchesAnswer ==
    ASSUME Answerable, HandleSwitchRequest \/ HandleSwitchBack
    PROVE  Answerable'
<1>1. crossings \in 0 .. MaxCrossings /\ Now \in Worlds
  BY World
<1>2. CASE HandleSwitchRequest
  <2>1. /\ Handles("Switch") /\ UNCHANGED registry /\ Crossing(SwitchHeard(Now))
        /\ Become(HandleSwitchApplication(Received, Head(mailbox).app, TRUE))
    BY <1>2 DEF HandleSwitchRequest
  <2>2. Received \in Worlds /\ Head(mailbox).app \in Apps
    BY <2>1, FirstTaken
  <2>3. PICK b \in BOOLEAN : b = TRUE
    OBVIOUS
  <2>4. PICK v : v = HandleSwitchApplication(Received, Head(mailbox).app, b)
    OBVIOUS
  <2>5. Follows(Received, v) /\ Become(v)
    BY <2>1, <2>2, <2>3, <2>4, FollowsSwitch
  <2> QED
    BY <1>1, <2>1, <2>5, CrossingsBound, HandlerKeeps
<1>3. CASE HandleSwitchBack
  <2>1. Handles("SwitchBack") /\ UNCHANGED registry
    BY <1>3 DEF HandleSwitchBack
  <2>2. PICK x, w, a : x = GetFocusedApplication(Now) /\ w = PopStack(Received)
                       /\ a = stack[2].app
    OBVIOUS
  <2>3. PICK v : \E m \in BOOLEAN :
            /\ v = IF Len(stack) < 2 \/ ~ m THEN Received
                   ELSE IF x = NoApp THEN StartApplication(w, a)
                   ELSE IF a = x THEN w ELSE AskToLeave(w, x)
            /\ Become(v)
            /\ Crossing(Len(stack) >= 2 /\ m)
    BY <1>3, <2>2 DEF HandleSwitchBack, AskToLeave
  <2>4. Received \in Worlds /\ Received.stack = stack
    BY <2>1, FirstTaken
  <2>5. Follows(Received, Received)
    BY <2>4, FollowsSame
  <2>6. CASE ~ (Len(stack) < 2)
    <3>1. stack \in Seq([app : Apps, closeable : BOOLEAN])
      BY <2>4 DEF Worlds, Stacks
    <3>2. Len(stack) \in Nat /\ 2 \in DOMAIN stack /\ stack # <<>>
      BY <2>6, <3>1
    <3>3. a \in Apps
      <4>1. stack[2] \in [app : Apps, closeable : BOOLEAN]
        BY <3>1, <3>2, ElementType
      <4> QED
        BY <2>2, <4>1
    <3>4. PICK r : r = Tail(stack)
      OBVIOUS
    <3>5. r \in Stacks /\ w = [Received EXCEPT !.stack = r]
      BY <2>2, <2>4, <3>1, <3>2, <3>4, TailPositions DEF PopStack, Stacks
    <3>6. /\ w \in Worlds /\ w.object = Received.object /\ w.mailbox = Received.mailbox
          /\ w.fault = Received.fault
      BY <2>4, <3>5, FieldsDo
    <3>7. Follows(Received, w)
      BY <3>6, FollowsSame
    <3>8. Follows(Received, StartApplication(w, a))
      BY <3>3, <3>6, <3>7, FollowsStart, FollowsOn
    <3>9. ASSUME x # NoApp PROVE Follows(Received, AskToLeave(w, x))
      <4>1. x \in Apps
        BY <1>1, <2>2, <3>9, FocusFound
      <4> QED
        BY <3>6, <3>7, <4>1, FollowsClose, FollowsOn DEF AskToLeave
    <3> QED
      BY <1>1, <2>1, <2>3, <2>5, <3>7, <3>8, <3>9, CrossingsBound, HandlerKeeps
  <2>7. CASE Len(stack) < 2
    BY <1>1, <2>1, <2>3, <2>5, <2>7, CrossingsBound, HandlerKeeps
  <2> QED
    BY <2>6, <2>7
<1> QED
  BY <1>2, <1>3

\* Replies of applications that leave the registry as it is.
LEMMA RepliesAnswer ==
    ASSUME Answerable,
           HandleInitApplication \/ HandleFinalizingClose \/ HandleCloseConfirmation
               \/ HandleCloseRequest
    PROVE  Answerable'
<1>1. CASE HandleInitApplication
  <2>1. Handles("Initialised") /\ UNCHANGED registry
    BY <1>1 DEF HandleInitApplication
  <2>2. /\ Received \in Worlds /\ Head(mailbox).app \in Apps
        /\ crossings' \in 0 .. MaxCrossings
    BY <2>1, FirstTaken
  <2>3. PICK a \in Apps : a = Head(mailbox).app
    BY <2>2
  <2>4. PICK u, w, v, s : /\ u = SetState(Received, a, "ACTIVATING")
                          /\ w = SendTo(u, a, "Switch")
                          /\ v = [w EXCEPT !.state = s] /\ s = "AwaitingFocusConfirmation"
    OBVIOUS
  <2>5. /\ "ACTIVATING" \in AppState /\ "ACTIVE_BACKGROUND" \in AppState
        /\ s \in ManagerState
    BY <2>4 DEF AppState, ManagerState
  <2>6. Follows(Received, u) /\ u \in Worlds
    BY <2>2, <2>4, <2>5, FollowsMessage DEF Follows
  <2>7. Follows(u, w) /\ w \in Worlds
    BY <2>4, <2>6, Members, FollowsMessage DEF Follows
  <2>8. v \in Worlds /\ v.object = w.object /\ v.mailbox = w.mailbox /\ v.fault = w.fault
    BY <2>4, <2>5, <2>7, FieldsDo
  <2>9. Follows(w, v)
    BY <2>8, FollowsSame
  <2>10. Follows(Received, v) /\ Follows(Received, SetState(Received, a, "ACTIVE_BACKGROUND"))
    BY <2>2, <2>5, <2>6, <2>7, <2>9, FollowsOn, FollowsMessage
  <2>11. Become(v) \/ Become(SetState(Received, a, "ACTIVE_BACKGROUND"))
    BY <1>1, <2>3, <2>4 DEF HandleInitApplication
  <2> QED
    BY <2>1, <2>2, <2>10, <2>11, HandlerKeeps
<1>2. CASE HandleFinalizingClose
  <2>1. /\ Handles("FinalizingClose") /\ UNCHANGED registry
        /\ Become(StartPendingApplicationOnCurrentClose(Received))
    BY <1>2 DEF HandleFinalizingClose
  <2>2. Received \in Worlds /\ crossings' \in 0 .. MaxCrossings
    BY <2>1, FirstTaken
  <2>3. Follows(Received, StartPendingApplicationOnCurrentClose(Received))
    BY <2>2, FollowsLaunching
  <2> QED
    BY <2>1, <2>2, <2>3, HandlerKeeps
<1>3. CASE HandleCloseConfirmation
  <2>1. Handles("CloseConfirmation") /\ UNCHANGED registry
    BY <1>3 DEF HandleCloseConfirmation
  <2>2. /\ Received \in Worlds /\ Head(mailbox).app \in Apps
        /\ crossings' \in 0 .. MaxCrossings
    BY <2>1, FirstTaken
  <2>3. PICK a \in Apps : a = Head(mailbox).app
    BY <2>2
  <2>4. PICK x : x = IF a \in Closeable /\ ~ object[a].alive THEN Received.fault \cup {"handle"}
                     ELSE Received.fault
    OBVIOUS
  <2>5. PICK w : w = [Received EXCEPT !.fault = x]
    OBVIOUS
  <2>6. /\ w \in Worlds /\ w.object = Received.object /\ w.mailbox = Received.mailbox
        /\ w.fault \subseteq Received.fault \cup {"handle", "object"}
    BY <2>2, <2>4, <2>5 DEF Worlds
  <2>7. Follows(Received, w)
    BY <2>6, FollowsSame
  <2>8. PICK u, q, r : /\ u = SetState(w, a, "DEACTIVATED")
                       /\ q = Append(u.mailbox, Msg("CloseRequest", a))
                       /\ r = [u EXCEPT !.mailbox = q]
    OBVIOUS
  <2>9. "DEACTIVATED" \in AppState /\ "ACTIVE_BACKGROUND" \in AppState
    BY DEF AppState
  <2>10. Follows(w, u) /\ u \in Worlds /\ Follows(w, SetState(w, a, "ACTIVE_BACKGROUND"))
    BY <2>6, <2>8, <2>9, FollowsMessage DEF Follows
  <2>11. Follows(u, r) /\ r \in Worlds
    <3>1. PICK m \in Mails : m = Msg("CloseRequest", a)
      BY DEF Msg, Mails, ManagerMessages
    <3>2. m.type # "ActionHandled" /\ m.app \in Apps
      BY <3>1 DEF Msg
    <3>3. u.mailbox \in Seq(Mails)
      BY <2>10 DEF Worlds
    <3>4. q \in Seq(Mails) /\ FewerAnswers(u.mailbox, q)
      BY <2>8, <3>1, <3>2, <3>3, AppendPositions, MailFewer
    <3>5. r \in Worlds /\ r.object = u.object /\ r.mailbox = q /\ r.fault = u.fault
      BY <2>8, <2>10, <3>4, FieldsDo
    <3> QED
      BY <3>4, <3>5 DEF Follows, FewerActions
  <2>12. PICK z \in {r, SetState(w, a, "ACTIVE_BACKGROUND")} :
             Become(StartPendingApplicationOnCurrentClose(z))
    BY <1>3, <2>3, <2>4, <2>5, <2>8 DEF HandleCloseConfirmation
  <2>13. Follows(Received, z) /\ z \in Worlds
    BY <2>7, <2>10, <2>11, <2>12, FollowsOn DEF Follows
  <2>14. Follows(Received, StartPendingApplicationOnCurrentClose(z))
    BY <2>13, FollowsLaunching, FollowsOn
  <2> QED
    BY <2>1, <2>2, <2>12, <2>14, HandlerKeeps
<1>4. CASE HandleCloseRequest
  <2>1. Handles("CloseRequest") /\ UNCHANGED registry
    BY <1>4 DEF HandleCloseRequest
  <2>2. /\ Received \in Worlds /\ Head(mailbox).app \in Apps
        /\ crossings' \in 0 .. MaxCrossings
    BY <2>1, FirstTaken
  <2>3. PICK a \in Apps : a = Head(mailbox).app
    BY <2>2
  <2>4. PICK u, v : u = SendTo(Received, a, "Exit") /\ v = [u EXCEPT !.wait = a]
    OBVIOUS
  <2>5. Follows(Received, u) /\ u \in Worlds
    BY <2>2, <2>4, Members, FollowsMessage DEF Follows
  <2>6. v \in Worlds /\ v.object = u.object /\ v.mailbox = u.mailbox /\ v.fault = u.fault
    BY <2>4, <2>5, FieldsDo
  <2>7. Follows(Received, v) /\ Follows(Received, Received)
    BY <2>2, <2>5, <2>6, FollowsSame, FollowsOn
  <2>8. Become(v) \/ Become(Received)
    BY <1>4, <2>3, <2>4 DEF HandleCloseRequest
  <2> QED
    BY <2>1, <2>2, <2>7, <2>8, HandlerKeeps
<1> QED
  BY <1>1, <1>2, <1>3, <1>4

\* A request for an action enters the registry (handleActionRequest).
LEMMA RequestAnswers ==
    ASSUME Answerable, NEW y \in {"Launch", "Popup", "Custom", "CustomKeep"},
           HandleActionRequest(y)
    PROVE  Answerable'
<1>1. Handles(y) /\ Become(Received)
  BY DEF HandleActionRequest
<1>2. /\ Follows(Now, Received) /\ Head(mailbox).app \in Apps
      /\ requests' \in 0 .. MaxRequests /\ crossings' \in 0 .. MaxCrossings
  BY <1>1, FirstTaken
<1>3. PICK x : x = [kind |-> y, app |-> Head(mailbox).app]
  OBVIOUS
<1>4. x \in [kind : RequestKinds, app : Apps] /\ x.kind = y
  BY <1>2, <1>3 DEF RequestKinds
<1>5. /\ actions' = Append(actions, x) /\ pending' = pending
      /\ it' = IF pending = 0 THEN 1 ELSE 0
  BY <1>3 DEF HandleActionRequest
<1>6. /\ actions \in Seq([kind : RequestKinds, app : Apps]) /\ Acts(actions)
      /\ Len(actions) \in Nat /\ pending \in 0 .. Len(actions) /\ DOMAIN actions = 1 .. Len(actions)
  BY World DEF RegistryTypes
<1>7. /\ actions' \in Seq([kind : RequestKinds, app : Apps])
      /\ Len(actions') = Len(actions) + 1
      /\ DOMAIN actions' = DOMAIN actions \cup {Len(actions) + 1}
      /\ actions'[Len(actions) + 1] = x
      /\ \A j \in DOMAIN actions : actions'[j] = actions[j]
  BY <1>4, <1>5, <1>6, AppendPositions
<1>8. RegistryTypes(actions', pending', it')
  BY <1>5, <1>6, <1>7 DEF RegistryTypes
<1>9. Acts(actions')
  BY <1>4, <1>6, <1>7 DEF Acts, Customs
<1>10. Idle \/ (pending' # 0 /\ actions'[pending'].kind # "Launch")
  <2>1. pending # 0 => actions'[pending'] = actions[pending]
    BY <1>5, <1>6, <1>7
  <2> QED
    BY <1>5, <2>1 DEF Answerable
<1> QED
  BY <1>1, <1>2, <1>5, <1>8, <1>9, <1>10, ManagerKeeps

\* What waits in the registry is looked at again when an opening is done
\* (onLaunchFinished).
LEMMA LaunchAnswers ==
    ASSUME Answerable, it = 0, NEW a, OnLaunchFinished(a)
    PROVE  /\ RegistryTypes(actions', pending', it') /\ Acts(actions')
           /\ it' # 0 => pending' = 0
           /\ Idle \/ (pending' # 0 /\ actions'[pending'].kind # "Launch")
<1>1. RegistryTypes(actions, pending, it) /\ Acts(actions)
  BY World
<1>2. Idle \/ (pending # 0 /\ actions[pending].kind # "Launch")
  BY DEF Answerable
<1>3. CASE pending = 0
  <2>1. it' = Position(1, actions) /\ actions' = actions /\ pending' = 0
    BY <1>3 DEF OnLaunchFinished
  <2>2. RegistryTypes(actions', pending', it')
    BY <1>1, <2>1 DEF RegistryTypes, Position
  <2> QED
    BY <1>1, <1>2, <1>3, <2>1, <2>2
<1>4. CASE pending # 0 /\ actions[pending].kind = "Launch" /\ actions[pending].app = a
  <2>1. Finished
    BY <1>4 DEF OnLaunchFinished
  <2>2. actions \in Seq([kind : RequestKinds, app : Apps]) /\ pending \in DOMAIN actions
    BY <1>1, <1>4 DEF RegistryTypes
  <2>3. RegistryTypes(actions', pending', it') /\ pending' = 0 /\ Acts(actions')
    BY <1>1, <2>1, <2>2, FinishedLeaves
  <2> QED
    BY <1>2, <1>4, <2>3
<1>5. CASE pending # 0 /\ ~ (actions[pending].kind = "Launch" /\ actions[pending].app = a)
  <2>1. UNCHANGED registry
    BY <1>5 DEF OnLaunchFinished
  <2> QED
    BY <2>1, RegistryStays
<1> QED
  BY <1>3, <1>4, <1>5

\* An application confirms a switch (handleSwitchConfirmation).
LEMMA ConfirmationAnswers ==
    ASSUME Answerable, HandleSwitchConfirmation
    PROVE  Answerable'
<1>1. Handles("SwitchConfirmation")
  BY DEF HandleSwitchConfirmation
<1>2. /\ Received \in Worlds /\ Head(mailbox).app \in Apps /\ it = 0 /\ Follows(Now, Received)
      /\ requests' \in 0 .. MaxRequests /\ crossings' \in 0 .. MaxCrossings
  BY <1>1, FirstTaken
<1>3. PICK a \in Apps : a = Head(mailbox).app
  BY <1>2
<1>4. "ACTIVE_FORGROUND" \in AppState /\ "ACTIVE_BACKGROUND" \in AppState /\ "Running" \in ManagerState
  BY DEF AppState, ManagerState
<1>5. PICK u, w : /\ u = SetState(Received, a, "ACTIVE_FORGROUND")
                  /\ w = SetState(Received, a, "ACTIVE_BACKGROUND")
  OBVIOUS
<1>6. Follows(Received, u) /\ u \in Worlds /\ Follows(Received, w) /\ w \in Worlds
  BY <1>2, <1>4, <1>5, FollowsMessage DEF Follows
<1>7. CASE Become([u EXCEPT !.state = "Running"]) /\ OnLaunchFinished(a)
  <2>1. PICK v, s : v = [u EXCEPT !.state = s] /\ s = "Running"
    OBVIOUS
  <2>2. v \in Worlds /\ v.object = u.object /\ v.mailbox = u.mailbox /\ v.fault = u.fault
    BY <1>4, <1>6, <2>1, FieldsDo
  <2>3. Follows(Now, v) /\ Become(v)
    BY <1>2, <1>6, <1>7, <2>1, <2>2, FollowsSame, FollowsOn
  <2>4. /\ RegistryTypes(actions', pending', it') /\ Acts(actions')
        /\ it' # 0 => pending' = 0
        /\ Idle \/ (pending' # 0 /\ actions'[pending'].kind # "Launch")
    BY <1>2, <1>7, LaunchAnswers
  <2> QED
    BY <1>2, <2>3, <2>4, ManagerKeeps
<1>8. ASSUME UNCHANGED registry, NEW x, x = GetLaunchingApplication(Now),
             Become(Received) \/ (x # NoApp /\ Become(StartApplication(w, x)))
      PROVE  Answerable'
  <2>1. Now \in Worlds
    BY World
  <2>2. x # NoApp => x \in Apps
    BY <1>8, <2>1, FollowsLaunching
  <2>3. Follows(Received, Received)
    BY <1>2, FollowsSame
  <2>4. x # NoApp => Follows(Received, StartApplication(w, x))
    BY <1>6, <2>2, FollowsStart, FollowsOn
  <2> QED
    BY <1>1, <1>2, <1>8, <2>3, <2>4, HandlerKeeps
<1> QED
  BY <1>3, <1>5, <1>7, <1>8 DEF HandleSwitchConfirmation

\* An application has carried out its action (handleActionHandled): the answer
\* finds the action in progress, and was the only one on its way.
LEMMA HandledAnswers ==
    ASSUME Answerable, HandleActionHandled
    PROVE  Answerable'
<1>1. Handles("ActionHandled")
  BY DEF HandleActionHandled
<1>2. /\ Received \in Worlds /\ it = 0 /\ Received.object = object /\ Received.fault = fault
      /\ Received.mailbox = Tail(mailbox) /\ mailbox # <<>> /\ Head(mailbox) = mailbox[1]
      /\ Head(mailbox).type = "ActionHandled" /\ 1 \in DOMAIN mailbox
      /\ requests' \in 0 .. MaxRequests /\ crossings' \in 0 .. MaxCrossings
      /\ Follows(Now, Received)
  BY <1>1, FirstTaken
<1>3. ~ NoAnswer(mailbox)
  BY <1>2 DEF NoAnswer
<1>4. /\ NoAction(object) /\ OneAnswer(mailbox)
      /\ pending # 0 /\ actions[pending].kind # "Launch"
  BY <1>3 DEF Answerable, Idle
<1>5. RegistryTypes(actions, pending, it) /\ Acts(actions) /\ mailbox \in Seq(Mails)
  BY World
<1>6. Finished /\ Become([Received EXCEPT !.fault = Received.fault])
  BY <1>4 DEF HandleActionHandled
<1>7. Become(Received)
  <2>1. [Received EXCEPT !.fault = Received.fault] = Received
    BY <1>2 DEF Worlds
  <2> QED
    BY <1>6, <2>1
<1>8. actions \in Seq([kind : RequestKinds, app : Apps]) /\ pending \in DOMAIN actions
  BY <1>4, <1>5 DEF RegistryTypes
<1>9. /\ RegistryTypes(actions', pending', it') /\ pending' = 0 /\ Acts(actions')
  BY <1>5, <1>6, <1>8, FinishedLeaves
<1>10. TypeOK'
  BY <1>2, <1>7, <1>9, TypesKept
<1>11. object' = object /\ mailbox' = Tail(mailbox) /\ fault' = fault
  BY <1>2, <1>7 DEF Become
<1>12. NoAnswer(mailbox')
  <2> SUFFICES ASSUME NEW i \in DOMAIN Tail(mailbox), Tail(mailbox)[i].type = "ActionHandled"
               PROVE  FALSE
    BY <1>11 DEF NoAnswer
  <2>1. i + 1 \in DOMAIN mailbox /\ Tail(mailbox)[i] = mailbox[i + 1] /\ i \in Nat /\ i > 0
    BY <1>2, <1>5, TailPositions
  <2>2. i + 1 = 1
    BY <1>2, <1>4, <2>1 DEF OneAnswer
  <2> QED
    BY <2>1, <2>2
<1>13. FewerAnswers(mailbox, mailbox')
  BY <1>2, <1>5, <1>11, MailFewer
<1>14. OneAction(object') /\ OneAnswer(mailbox') /\ Signed(mailbox') /\ NoAction(object')
  BY <1>4, <1>11, <1>13 DEF Answerable, FewerAnswers
<1>15. Idle'
  BY <1>12, <1>14 DEF Idle
<1>16. "action" \notin fault'
  BY <1>11 DEF Answerable
<1> QED
  BY <1>9, <1>10, <1>12, <1>14, <1>15, <1>16 DEF Answerable

\* An action is sent, when none is on its way and the position of the loop is
\* that of an action for an application to carry out.
LEMMA ActionAnswers ==
    ASSUME Answerable, Idle, NEW x \in Apps, Become(SendTo(Now, x, "Action")), Accepted,
           it \in DOMAIN actions, it # 0, actions[it].kind # "Launch",
           requests' \in 0 .. MaxRequests, crossings' \in 0 .. MaxCrossings
    PROVE  Answerable'
<1>1. /\ Now \in Worlds /\ RegistryTypes(actions, pending, it) /\ Acts(actions)
      /\ mailbox \in Seq(Mails) /\ object \in Objects
  BY World
<1>2. PICK v : v = SendTo(Now, x, "Action")
  OBVIOUS
<1>3. /\ v \in Worlds /\ v.mailbox = mailbox /\ v.fault = fault
      /\ v.object = object \/ Updated(object, v.object, x, object[x].state,
                                      Append(object[x].inbox, "Action"))
  <2>1. CASE object[x].alive
    BY <1>1, <1>2, <2>1, Members, NowFields, SendToDoes DEF OnlyObjects
  <2>2. CASE ~ object[x].alive
    BY <1>1, <1>2, <2>2, NowFields DEF SendTo
  <2> QED
    BY <2>1, <2>2
<1>4. object' = v.object /\ mailbox' = mailbox /\ fault' = fault
  BY <1>2, <1>3 DEF Become
<1>5. actions' = actions /\ pending' = it /\ it' = 0
  BY DEF Accepted
<1>6. RegistryTypes(actions', pending', it')
  BY <1>1, <1>5 DEF RegistryTypes
<1>7. TypeOK'
  BY <1>2, <1>3, <1>6, TypesKept
<1>8. OneAction(object')
  <2>1. CASE v.object = object
    BY <1>4, <2>1 DEF Answerable
  <2>2. CASE Updated(object, v.object, x, object[x].state, Append(object[x].inbox, "Action"))
    <3>1. object[x].inbox \in Seq(AppMessages)
      BY <1>1 DEF Objects
    <3>2. PICK q, r : q = object[x].inbox /\ r = Append(object[x].inbox, "Action")
      OBVIOUS
    <3>3. PICK l : l = Len(q) + 1
      OBVIOUS
    <3>4. DOMAIN r = DOMAIN q \cup {l} /\ \A i \in DOMAIN q : r[i] = q[i]
      BY <3>1, <3>2, <3>3, Members, AppendPositions
    <3>5. ASSUME NEW a \in Apps, NEW i \in DOMAIN object'[a].inbox,
                 object'[a].inbox[i] = "Action"
          PROVE  a = x /\ i = l
      <4>1. CASE a # x
        BY <1>4, <2>2, <3>5, <4>1 DEF Updated, Idle, NoAction
      <4>2. CASE a = x
        <5>1. object'[a].inbox = r
          BY <1>4, <2>2, <3>2, <4>2 DEF Updated
        <5>2. i \in DOMAIN q => q[i] # "Action"
          BY <3>2 DEF Idle, NoAction
        <5> QED
          BY <3>4, <3>5, <4>2, <5>1, <5>2
      <4> QED
        BY <4>1, <4>2
    <3> QED
      BY <3>5 DEF OneAction
  <2> QED
    BY <1>3, <2>1, <2>2
<1>9. NoAnswer(mailbox') /\ OneAnswer(mailbox') /\ Signed(mailbox') /\ "action" \notin fault'
  BY <1>4 DEF Answerable, Idle
<1> QED
  BY <1>1, <1>5, <1>7, <1>8, <1>9 DEF Answerable

\* A turn of the loop over the registry (notifyAboutNextAction).
LEMMA TurnAnswers ==
    ASSUME Answerable, NotifyAboutNextAction
    PROVE  Answerable'
<1>1. LaunchTurn \/ PopupTurn \/ CustomTurn
  BY TurnKinds
<1>2. it # 0 /\ requests' = requests
  BY DEF NotifyAboutNextAction
<1>3. pending = 0 /\ Idle
  BY <1>2 DEF Answerable
<1>4. /\ Now \in Worlds /\ RegistryTypes(actions, pending, it) /\ Acts(actions)
      /\ requests \in 0 .. MaxRequests /\ crossings \in 0 .. MaxCrossings
  BY World
<1>5. /\ it \in DOMAIN actions /\ actions \in Seq([kind : RequestKinds, app : Apps])
      /\ requests' \in 0 .. MaxRequests
  BY <1>2, <1>4 DEF RegistryTypes
<1>6. actions[it].app \in Apps
  <2>1. actions[it] \in [kind : RequestKinds, app : Apps]
    BY <1>5, ElementType
  <2> QED
    BY <2>1
<1>7. Skipped => RegistryTypes(actions', pending', it') /\ Acts(actions') /\ pending' = 0
  BY <1>3, <1>4, <1>5, SkippedGoes
<1>8. Dropped => RegistryTypes(actions', pending', it') /\ Acts(actions') /\ pending' = 0
  BY <1>3, <1>4, <1>5, DroppedGoes
<1>9. Accepted => RegistryTypes(actions', pending', it') /\ Acts(actions') /\ it' = 0
  BY <1>4, <1>5 DEF Accepted, RegistryTypes
<1>10. ASSUME NEW b \in BOOLEAN, Become(HandleSwitchApplication(Now, actions[it].app, b)),
              Accepted \/ Dropped \/ Skipped, Crossing(SwitchHeard(Now))
       PROVE  Answerable'
  <2>1. Follows(Now, HandleSwitchApplication(Now, actions[it].app, b))
    BY <1>4, <1>6, FollowsSwitch
  <2>2. crossings' \in 0 .. MaxCrossings
    BY <1>4, <1>10, CrossingsBound
  <2>3. /\ RegistryTypes(actions', pending', it') /\ Acts(actions')
        /\ it' # 0 => pending' = 0
    BY <1>7, <1>8, <1>9, <1>10
  <2> QED
    BY <1>3, <1>5, <1>10, <2>1, <2>2, <2>3, ManagerKeeps
<1>11. CASE LaunchTurn
  BY <1>10, <1>11 DEF LaunchTurn
<1>12. CASE PopupTurn
  <2>1. actions[it].kind = "Popup" /\ crossings' \in 0 .. MaxCrossings
    BY <1>4, <1>12 DEF PopupTurn
  <2>2. CASE GetFocusedApplication(Now) = NoApp
    <3>1. Skipped /\ Become(Now)
      BY <1>12, <2>2 DEF PopupTurn
    <3>2. Follows(Now, Now)
      BY <1>4, FollowsSame
    <3> QED
      BY <1>3, <1>5, <1>7, <2>1, <3>1, <3>2, ManagerKeeps
  <2>3. CASE GetFocusedApplication(Now) # NoApp
    <3>1. PICK x \in Apps : x = GetFocusedApplication(Now)
      BY <1>4, <2>3, FocusFound
    <3>2. Accepted /\ Become(SendTo(Now, x, "Action"))
      BY <1>12, <2>3, <3>1 DEF PopupTurn
    <3> QED
      BY <1>2, <1>3, <1>5, <2>1, <3>2, ActionAnswers
  <2> QED
    BY <2>2, <2>3
<1>13. CASE CustomTurn
  <2>1. actions[it].kind # "Launch"
    BY <1>13 DEF CustomTurn, Customs
  <2>2. CASE CustomSent
    <3>1. /\ Accepted /\ Become(SendTo(Now, actions[it].app, "Action"))
          /\ crossings' \in 0 .. MaxCrossings
      BY <1>4, <2>2 DEF CustomSent
    <3> QED
      BY <1>2, <1>3, <1>5, <1>6, <2>1, <3>1, ActionAnswers
  <2>3. CASE /\ Skipped /\ Crossing(SwitchHeard(Now))
             /\ Become(HandleSwitchApplication(Now, actions[it].app, actions[it].kind = "Custom"))
    <3>1. PICK b \in BOOLEAN : b = (actions[it].kind = "Custom")
      OBVIOUS
    <3>2. Become(HandleSwitchApplication(Now, actions[it].app, b))
      BY <2>3, <3>1
    <3> QED
      BY <1>10, <2>3, <3>2
  <2> QED
    BY <1>13, <2>2, <2>3 DEF CustomTurn
<1> QED
  BY <1>1, <1>11, <1>12, <1>13

\* The message of a request names an application and is no answer.
LEMMA RequestMail ==
    ASSUME NEW y \in RequestKinds, NEW a \in Apps
    PROVE  \E x \in Mails : x = Msg(y, a) /\ x.type # "ActionHandled" /\ x.app \in Apps
<1>1. Msg(y, a).type = y /\ Msg(y, a).app = a
  BY DEF Msg
<1>2. y \in ManagerMessages /\ y # "ActionHandled"
  BY DEF ManagerMessages, RequestKinds
<1>3. Msg(y, a) \in Mails
  BY <1>2 DEF Msg, Mails
<1> QED
  BY <1>1, <1>2, <1>3

\* What an application, or somebody with a request, may change.
LEMMA OthersKeep ==
    ASSUME Answerable, NEW a \in Apps, NEW d \in {0, 1}, object' \in Objects,
           From(object[a].inbox, object'[a].inbox, d),
           \A b \in Apps : b # a => object'[b] = object[b],
           mailbox' \in Seq(Mails), FewerAnswers(mailbox, mailbox'),
           wait' \in {wait, NoApp}, UNCHANGED <<state, stack, registry, fault, crossings>>,
           requests' \in 0 .. MaxRequests
    PROVE  Answerable'
<1>1. FewerActions(object, object')
  BY OneInbox
<1>2. /\ state' = state /\ stack' = stack /\ fault' = fault /\ crossings' = crossings
      /\ UNCHANGED registry
  OBVIOUS
<1>3. /\ RegistryTypes(actions', pending', it') /\ Acts(actions')
      /\ it' # 0 => pending' = 0
      /\ Idle \/ (pending' # 0 /\ actions'[pending'].kind # "Launch")
  BY <1>2, RegistryStays
<1>4. /\ state' \in ManagerState /\ stack' \in Seq([app : Apps, closeable : BOOLEAN])
      /\ wait' \in Apps \cup {NoApp} /\ fault' \subseteq {"action", "handle", "object"}
      /\ crossings' \in 0 .. MaxCrossings /\ "action" \notin fault'
  BY <1>2 DEF Answerable, TypeOK
<1>5. TypeOK'
  BY <1>3, <1>4 DEF TypeOK, Objects, Mails, RegistryTypes
<1> QED
  BY <1>1, <1>3, <1>4, <1>5, StepKeeps

\* An application takes a message and says nothing or confirms something.
LEMMA TakenKeeps ==
    ASSUME Answerable, NEW a \in Apps, NEW m, Receives(a, m), NEW s \in AppState,
           \/ Answers(a, s, <<>>)
           \/ \E y \in Replies \ {"ActionHandled"} : Answers(a, s, <<Msg(y, a)>>),
           wait' \in {wait, NoApp}
    PROVE  Answerable'
<1>1. /\ object[a].alive /\ object[a].inbox # <<>>
      /\ UNCHANGED <<state, stack, registry, fault, crossings>> /\ requests' = requests
  BY DEF Receives
<1>2. object \in Objects /\ mailbox \in Seq(Mails) /\ requests' \in 0 .. MaxRequests
  BY <1>1, World
<1>3. PICK ms : /\ Answers(a, s, ms)
                /\ ms = <<>> \/ \E y \in Replies \ {"ActionHandled"} : ms = <<Msg(y, a)>>
  OBVIOUS
<1>4. Updated(object, object', a, s, Tail(object[a].inbox)) /\ mailbox' = mailbox \o ms
  BY <1>1, <1>2, <1>3, TakenAnswer
<1>5. mailbox' \in Seq(Mails) /\ FewerAnswers(mailbox, mailbox')
  <2>1. CASE ms = <<>>
    <3>1. mailbox' = mailbox
      BY <1>2, <1>4, <2>1
    <3> QED
      BY <1>2, <3>1, MailFewer
  <2>2. CASE ms # <<>>
    <3>1. PICK y \in Replies \ {"ActionHandled"} : ms = <<Msg(y, a)>>
      BY <1>3, <2>2
    <3>2. PICK x \in Mails : x = Msg(y, a) /\ x.type # "ActionHandled" /\ x.app \in Apps
      BY Members
    <3>3. mailbox' = Append(mailbox, x)
      BY <1>2, <1>4, <3>1, <3>2
    <3> QED
      BY <1>2, <3>2, <3>3, MailFewer, AppendPositions
  <2> QED
    BY <2>1, <2>2
<1>6. object[a].inbox \in Seq(AppMessages)
  BY <1>2 DEF Objects
<1>7. PICK d \in {0, 1} : d = 1
  OBVIOUS
<1>8. From(object[a].inbox, Tail(object[a].inbox), d)
  BY <1>1, <1>6, <1>7, InboxFrom
<1>9. /\ object' \in Objects /\ From(object[a].inbox, object'[a].inbox, d)
      /\ \A b \in Apps : b # a => object'[b] = object[b]
  BY <1>4, <1>8 DEF Updated
<1> QED
  BY <1>1, <1>2, <1>5, <1>9, OthersKeep

\* An application carries out its action (handleAction): it was the only one on
\* its way, and its answer becomes the only one.
LEMMA CarriedOut ==
    ASSUME Answerable, NEW a \in Apps, AppAction(a)
    PROVE  Answerable'
<1>1. /\ object[a].alive /\ object[a].inbox # <<>> /\ Head(object[a].inbox) = "Action"
      /\ state' = state /\ stack' = stack /\ UNCHANGED registry /\ fault' = fault
      /\ crossings' = crossings /\ requests' = requests /\ wait' = wait
  BY DEF AppAction, Receives
<1>2. object \in Objects /\ mailbox \in Seq(Mails)
  BY World
<1>3. object[a].inbox \in Seq(AppMessages) /\ object[a].state \in AppState
  BY <1>2 DEF Objects
<1>4. PICK x \in Mails : x = Msg("ActionHandled", NoApp) /\ x.type = "ActionHandled"
  BY Members
<1>5. /\ Updated(object, object', a, object[a].state, Tail(object[a].inbox))
      /\ mailbox' = mailbox \o <<x>>
  <2>1. PICK ms : ms = <<x>>
    OBVIOUS
  <2>2. Answers(a, object[a].state, ms)
    BY <1>4, <2>1 DEF AppAction
  <2> QED
    BY <1>1, <1>2, <1>3, <2>1, <2>2, TakenAnswer
<1>6. object[a].inbox[1] = "Action" /\ 1 \in DOMAIN object[a].inbox
  BY <1>1, <1>3, TailPositions
<1>7. ~ NoAction(object)
  BY <1>6 DEF NoAction
<1>8. /\ NoAnswer(mailbox) /\ OneAction(object) /\ Signed(mailbox)
      /\ pending # 0 /\ actions[pending].kind # "Launch"
  BY <1>7 DEF Answerable, Idle
<1>9. NoAction(object')
  <2> SUFFICES ASSUME NEW b \in Apps, NEW i \in DOMAIN object'[b].inbox,
                      object'[b].inbox[i] = "Action"
               PROVE  FALSE
    BY DEF NoAction
  <2>1. CASE b # a
    <3>1. i \in DOMAIN object[b].inbox /\ object[b].inbox[i] = "Action"
      BY <1>5, <2>1 DEF Updated
    <3> QED
      BY <1>6, <1>8, <2>1, <3>1 DEF OneAction
  <2>2. CASE b = a
    <3>1. PICK q, r : q = object[a].inbox /\ r = Tail(q)
      OBVIOUS
    <3>2. i \in DOMAIN r /\ r[i] = "Action"
      BY <1>5, <2>2, <3>1 DEF Updated
    <3>3. i \in Nat /\ i > 0 /\ i + 1 \in DOMAIN q /\ q[i + 1] = "Action"
      BY <1>1, <1>3, <3>1, <3>2, TailPositions
    <3>4. i + 1 = 1
      BY <1>6, <1>8, <3>1, <3>3 DEF OneAction
    <3> QED
      BY <3>3, <3>4
  <2> QED
    BY <2>1, <2>2
<1>10. mailbox' = Append(mailbox, x)
  BY <1>2, <1>4, <1>5
<1>11. mailbox' \in Seq(Mails) /\ OneAnswer(mailbox') /\ Signed(mailbox')
  <2>1. PICK q, l : q = mailbox /\ l = Len(q) + 1
    OBVIOUS
  <2>2. /\ mailbox' \in Seq(Mails) /\ DOMAIN mailbox' = DOMAIN q \cup {l} /\ mailbox'[l] = x
        /\ \A i \in DOMAIN q : mailbox'[i] = q[i]
    BY <1>2, <1>10, <2>1, AppendPositions
  <2> QED
    BY <1>4, <1>8, <2>1, <2>2 DEF NoAnswer, OneAnswer, Signed
<1>12. OneAction(object')
  BY <1>9 DEF NoAction, OneAction
<1>13. /\ RegistryTypes(actions', pending', it') /\ Acts(actions')
       /\ it' # 0 => pending' = 0
  BY <1>1, RegistryStays
<1>14. pending' # 0 /\ actions'[pending'].kind # "Launch"
  BY <1>1, <1>8 DEF registry
<1>15. /\ state' \in ManagerState /\ stack' \in Seq([app : Apps, closeable : BOOLEAN])
       /\ wait' \in Apps \cup {NoApp} /\ fault' \subseteq {"action", "handle", "object"}
       /\ requests' \in 0 .. MaxRequests
       /\ crossings' \in 0 .. MaxCrossings /\ "action" \notin fault'
  BY <1>1 DEF Answerable, TypeOK
<1>16. object' \in Objects
  BY <1>5 DEF Updated
<1>17. TypeOK'
  BY <1>11, <1>13, <1>15, <1>16 DEF TypeOK, Objects, Mails, RegistryTypes
<1> QED
  BY <1>9, <1>11, <1>12, <1>13, <1>14, <1>15, <1>17 DEF Answerable

\* A step of an application.
LEMMA AppAnswers ==
    ASSUME Answerable, NEW a \in Apps, App(a)
    PROVE  Answerable'
<1>1. /\ object \in Objects /\ mailbox \in Seq(Mails) /\ requests \in 0 .. MaxRequests
      /\ object[a].state \in AppState /\ object[a].inbox \in Seq(AppMessages)
  BY World DEF Objects
<1>2. /\ "INITIALIZING" \in AppState /\ "ACTIVE_FORGROUND" \in AppState
      /\ "ACTIVE_BACKGROUND" \in AppState /\ "DEACTIVATING" \in AppState
      /\ "FINALIZING_CLOSE" \in AppState
  BY DEF AppState
<1>3. /\ "Initialised" \in Replies \ {"ActionHandled"}
      /\ "SwitchConfirmation" \in Replies \ {"ActionHandled"}
      /\ "CloseConfirmation" \in Replies \ {"ActionHandled"}
      /\ "FinalizingClose" \in Replies \ {"ActionHandled"}
  BY DEF Replies
<1>4. CASE AppStart(a)
  BY <1>2, <1>3, <1>4, TakenKeeps DEF AppStart
<1>5. CASE AppSwitch(a)
  BY <1>1, <1>2, <1>3, <1>5, TakenKeeps DEF AppSwitch
<1>6. CASE AppLostFocus(a)
  BY <1>1, <1>2, <1>3, <1>6, TakenKeeps DEF AppLostFocus
<1>7. CASE AppClose(a)
  BY <1>2, <1>3, <1>7, TakenKeeps DEF AppClose
<1>8. CASE CheckBlockingRequests(a)
  <2>1. /\ object' = [object EXCEPT ![a].state = "DEACTIVATING"]
        /\ mailbox' = Append(mailbox, Msg("CloseConfirmation", a))
        /\ UNCHANGED <<state, stack, registry, fault, crossings>>
        /\ wait' = wait /\ requests' = requests
    BY <1>8 DEF CheckBlockingRequests
  <2>2. PICK x \in Mails : x = Msg("CloseConfirmation", a) /\ x.type # "ActionHandled" /\ x.app \in Apps
    BY <1>3, Members
  <2>3. mailbox' \in Seq(Mails) /\ FewerAnswers(mailbox, mailbox')
    BY <1>1, <2>1, <2>2, MailFewer, AppendPositions
  <2>4. /\ object' \in Objects /\ object'[a].inbox = object[a].inbox
        /\ \A b \in Apps : b # a => object'[b] = object[b]
    BY <1>1, <1>2, <2>1 DEF Objects
  <2>5. From(object[a].inbox, object'[a].inbox, 0)
    BY <1>1, <2>4, InboxFrom
  <2> QED
    BY <1>1, <2>1, <2>3, <2>4, <2>5, OthersKeep
<1>9. CASE AppAction(a)
  BY <1>9, CarriedOut
<1>10. CASE AppExit(a)
  <2>1. /\ object' = [object EXCEPT ![a] = NoObject] /\ mailbox' = mailbox /\ wait' = NoApp
        /\ UNCHANGED <<state, stack, registry, fault, crossings>> /\ requests' = requests
    BY <1>10 DEF AppExit, Receives
  <2>2. NoObject \in [state : AppState, inbox : Seq(AppMessages), alive : BOOLEAN]
    BY DEF AppState, NoObject
  <2>3. /\ object' \in Objects /\ object'[a].inbox = <<>>
        /\ \A b \in Apps : b # a => object'[b] = object[b]
    BY <1>1, <2>1, <2>2 DEF Objects, NoObject
  <2>4. From(object[a].inbox, object'[a].inbox, 0)
    BY <1>1, <2>3, InboxFrom
  <2>5. mailbox' \in Seq(Mails) /\ FewerAnswers(mailbox, mailbox')
    BY <1>1, <2>1, MailFewer
  <2> QED
    BY <1>1, <2>1, <2>3, <2>4, <2>5, OthersKeep
<1> QED
  BY <1>4, <1>5, <1>6, <1>7, <1>8, <1>9, <1>10 DEF App

\* A request, at whatever time (sendAction, switchBack).
LEMMA RequestKeeps ==
    ASSUME Answerable, NEW y \in RequestKinds, NEW a \in Apps, Request(y, a)
    PROVE  Answerable'
<1>1. /\ object \in Objects /\ mailbox \in Seq(Mails) /\ requests \in 0 .. MaxRequests
      /\ crossings \in 0 .. MaxCrossings /\ object[a].inbox \in Seq(AppMessages)
  BY World DEF Objects
<1>2. /\ requests + crossings < MaxRequests /\ requests' = requests + 1
      /\ mailbox' = Append(mailbox, Msg(y, a)) /\ object' = object /\ wait' = wait
      /\ UNCHANGED <<state, stack, registry, fault, crossings>>
  BY DEF Request
<1>3. requests' \in 0 .. MaxRequests
  BY <1>1, <1>2, AppManagerAssumption
<1>4. PICK x \in Mails : x = Msg(y, a) /\ x.type # "ActionHandled" /\ x.app \in Apps
  BY RequestMail
<1>5. mailbox' \in Seq(Mails) /\ FewerAnswers(mailbox, mailbox')
  BY <1>1, <1>2, <1>4, MailFewer, AppendPositions
<1>6. From(object[a].inbox, object'[a].inbox, 0)
  BY <1>1, <1>2, InboxFrom
<1> QED
  BY <1>1, <1>2, <1>3, <1>5, <1>6, OthersKeep

\* This is an invariant, on both products and whatever requests come.
LEMMA AnswersInvariant == Spec => []Answerable
<1>1. Init => Answerable
  <2> SUFFICES ASSUME Init PROVE Answerable
    OBVIOUS
  <2>1. /\ state = "Running" /\ stack = <<>> /\ object = [a \in Apps |-> NoObject]
        /\ wait = NoApp /\ mailbox = <<Msg("Launch", Root)>> /\ actions = <<>>
        /\ pending = 0 /\ it = 0 /\ fault = {} /\ requests = 0 /\ crossings = 0
    BY DEF Init
  <2>2. NoObject \in [state : AppState, inbox : Seq(AppMessages), alive : BOOLEAN]
    BY DEF AppState, NoObject
  <2>3. object \in Objects /\ \A a \in Apps : object[a].inbox = <<>>
    BY <2>1, <2>2 DEF Objects, NoObject
  <2>4. PICK x \in Mails : x = Msg("Launch", Root) /\ x.type # "ActionHandled" /\ x.app \in Apps
    <3>1. "Launch" \in RequestKinds /\ Root \in Apps
      BY AppManagerAssumption DEF RequestKinds
    <3> QED
      BY <3>1, RequestMail
  <2>5. mailbox \in Seq(Mails) /\ NoAnswer(mailbox) /\ OneAnswer(mailbox) /\ Signed(mailbox)
    BY <2>1, <2>4 DEF NoAnswer, OneAnswer, Signed
  <2>6. NoAction(object) /\ OneAction(object)
    BY <2>3 DEF NoAction, OneAction
  <2>7. TypeOK
    BY <2>1, <2>3, <2>5, AppManagerAssumption DEF TypeOK, Objects, Mails, ManagerState
  <2>8. Acts(actions)
    BY <2>1 DEF Acts
  <2> QED
    BY <2>1, <2>5, <2>6, <2>7, <2>8 DEF Answerable, Idle
<1>2. ASSUME Answerable, Next PROVE Answerable'
  <2>1. CASE Manager
    BY <1>2, <2>1, TurnAnswers, RequestAnswers, SwitchesAnswer, RepliesAnswer,
       ConfirmationAnswers, HandledAnswers DEF Manager
  <2>2. CASE \E a \in Apps : App(a)
    BY <1>2, <2>2, AppAnswers
  <2>3. CASE \E y \in RequestKinds : \E a \in Apps : Request(y, a)
    BY <1>2, <2>3, RequestKeeps
  <2> QED
    BY <1>2, <2>1, <2>2, <2>3 DEF Next
<1>3. ASSUME Answerable, UNCHANGED vars PROVE Answerable'
  BY <1>3 DEF vars, Answerable, TypeOK, Acts, Idle, NoAction, NoAnswer, OneAction,
     OneAnswer, Signed
<1>4. Answerable /\ [Next]_vars => Answerable'
  BY <1>2, <1>3
<1> QED
  BY <1>1, <1>4, PTL DEF Spec

\* The state of the manager, its registry and its applications has its type: in
\* particular the positions which the registry keeps of its actions
\* (actionInProgress and the iterator of notifyAboutNextAction) stay within it
\* while actions come and leave.
THEOREM TypeCorrect == Spec => []TypeOK
<1>1. Answerable => TypeOK
  BY DEF Answerable
<1> QED
  BY <1>1, AnswersInvariant, PTL

\* An answer to an action always meets the action in progress, which the handler
\* of ActionHandledResponse looks into without a test.  Requests of every kind
\* come at any time, and switches may cross one another.
THEOREM AnswersFindTheirAction == Spec => []ActionAnswered
<1>1. Answerable => ActionAnswered
  BY DEF Answerable, ActionAnswered
<1> QED
  BY <1>1, AnswersInvariant, PTL
=============================================================================
