--------------------------- MODULE Pairing_proofs ---------------------------
(***************************************************************************)
(* Default-deny, for any number of gateways, commands, channels, users and *)
(* codes.  A code a gateway finds in its copy of the file is one that the  *)
(* operator was given, because every copy descends from a copy in which an *)
(* operator's command put it and which nobody else had seen.               *)
(***************************************************************************)
EXTENDS Pairing, TLAPS

Codes == {Unissued} \union [channel : Channel, created_at : Nat]
Users == [failures : 0..(MaxFailures - 1), locked_until : Nat,
          last_request : Nat \union {-Interval}]

\* A state whose codes are those the operator was given.
Genuine(state) == \A c \in Code : state.pending[c] \in {Unissued, issued[c]}

\* Everything but a command's copy is genuine; what a command's copy has beyond
\* what it read is a code nobody else knows.
Secret(p, c) == /\ issued[c] = Unissued
                /\ \A q \in Proc \ {p} : mem[q].pending[c] = Unissued

Inv == /\ TypeOK
       /\ \A g \in Gateway : Genuine(mem[g])
       /\ \A p \in Proc : Genuine(base[p])
       /\ file # Torn => Genuine(file)
       /\ \A p \in Cli, c \in Code :
             mem[p].pending[c] = base[p].pending[c] \/ Secret(p, c)
       /\ OnlyCodesAdmit

-----------------------------------------------------------------------------
(* Types *)

LEMMA NewUserType == NewUser \in Users
  BY PairingAssumption DEF NewUser, Users

LEMMA EmptyType == Empty \in State
  BY NewUserType DEF Empty, State, Users

LEMMA StateParts ==
  ASSUME NEW s \in State
  PROVE  /\ s.paired \subseteq Account
         /\ s.pending \in [Code -> Codes]
         /\ s.users \in [Account -> Users]
  BY DEF State, Codes, Users

\* A state stays one when an account or the pairings change.
LEMMA UserChange ==
  ASSUME NEW s \in State, NEW a \in Account, NEW u \in Users
  PROVE  [s EXCEPT !.users[a] = u] \in State
<1>1. s.users \in [Account -> Users]
  BY StateParts
<1>2. [s.users EXCEPT ![a] = u] \in [Account -> Users]
  BY <1>1
<1>3. [s EXCEPT !.users = [s.users EXCEPT ![a] = u]] \in State
  BY <1>2 DEF State, Users
<1> QED
  BY <1>3

LEMMA PairType ==
  ASSUME NEW s \in State, NEW a \in Account, NEW c \in Code
  PROVE  /\ Pair(s, a, c) \in State
         /\ Pair(s, a, c).paired = s.paired \union {a}
         /\ Pair(s, a, c).pending = [s.pending EXCEPT ![c] = Unissued]
<1>1. /\ s.paired \union {a} \subseteq Account
      /\ [s.pending EXCEPT ![c] = Unissued] \in [Code -> Codes]
      /\ [s.users EXCEPT ![a] = NewUser] \in [Account -> Users]
  BY StateParts, NewUserType DEF Codes
<1> QED
  BY <1>1 DEF Pair, State, Codes, Users

LEMMA FailType ==
  ASSUME NEW u \in Users, now \in Nat
  PROVE  Fail(u) \in Users
<1>1. /\ u.failures \in 0..(MaxFailures - 1) /\ u.locked_until \in Nat
      /\ u.last_request \in Nat \union {-Interval}
      /\ MaxFailures \in Nat /\ MaxFailures > 0 /\ now + Lockout \in Nat
  BY PairingAssumption DEF Users
<1>2. CASE u.failures + 1 >= MaxFailures
  <2>1. Fail(u) = [u EXCEPT !.failures = 0, !.locked_until = now + Lockout]
    BY <1>2 DEF Fail
  <2>2. 0 \in 0..(MaxFailures - 1)
    BY <1>1
  <2> QED
    BY <1>1, <2>1, <2>2 DEF Users
<1>3. CASE ~(u.failures + 1 >= MaxFailures)
  <2>1. Fail(u) = [u EXCEPT !.failures = u.failures + 1]
    BY <1>3 DEF Fail
  <2>2. u.failures + 1 \in 0..(MaxFailures - 1)
    BY <1>1, <1>3
  <2> QED
    BY <2>1, <2>2 DEF Users
<1> QED
  BY <1>2, <1>3

-----------------------------------------------------------------------------
(* Steps that write a copy *)

\* What Change and Down leave of the types.
LEMMA ChangeTypes ==
  ASSUME TypeOK, NEW p \in Proc, NEW s \in State,
         NEW next \in {"marking", "saving"}, Change(p, s, next)
  PROVE  /\ file' = Torn
         /\ mem' \in [Proc -> State]
         /\ mem'[p] = s
         /\ \A q \in Proc \ {p} : mem'[q] = mem[q]
         /\ pc' \in [Proc -> {"down", "ready", "marking", "redeem", "saving"}]
         /\ pc'[p] = next
         /\ \A q \in Proc \ {p} : pc'[q] = pc[q]
         /\ clobbered' \in BOOLEAN
  BY DEF TypeOK, Change

LEMMA DownTypes ==
  ASSUME TypeOK, NEW p \in Proc, Down(p)
  PROVE  /\ mem' \in [Proc -> State]
         /\ base' \in [Proc -> State]
         /\ mem'[p] = Empty /\ base'[p] = Empty
         /\ \A q \in Proc \ {p} : mem'[q] = mem[q] /\ base'[q] = base[q]
         /\ pc' \in [Proc -> {"down", "ready", "marking", "redeem", "saving"}]
         /\ pc'[p] = "down"
         /\ \A q \in Proc \ {p} : pc'[q] = pc[q]
  BY EmptyType DEF TypeOK, Down

\* Whom a gateway is talking to.
LEMMA AskedTypes ==
  ASSUME TypeOK, NEW g \in Gateway, pc[g] = "redeem"
  PROVE  /\ g \in Proc
         /\ asked[g][1] \in User
         /\ asked[g][2] \in Code \union {Wrong}
         /\ Acct(g, asked[g][1]) \in Account
         /\ StateOf(g) \in Users
<1>1. asked[g] \in User \X (Code \union {Wrong})
  BY DEF TypeOK
<1>2. Acct(g, asked[g][1]) \in Account
  BY <1>1, PairingAssumption DEF Acct, Account
<1>3. mem[g] \in State
  BY DEF TypeOK, Proc
<1>4. StateOf(g) \in Users
  BY <1>2, <1>3, StateParts DEF StateOf
<1> QED
  BY <1>1, <1>2, <1>4 DEF Proc
-----------------------------------------------------------------------------
(* Type correctness *)

LEMMA InitType == Init => TypeOK
<1> SUFFICES ASSUME Init PROVE TypeOK
  OBVIOUS
<1>1. /\ file \in State \union {Torn} /\ mem \in [Proc -> State]
      /\ base \in [Proc -> State]
  BY EmptyType DEF Init
<1>2. guesses \in [Account -> Seq([asked : Int, checked : Nat])]
  BY DEF Init
<1>3. \A g \in Gateway : pc[g] = "down"
  BY DEF Init, Proc
<1> QED
  BY <1>1, <1>2, <1>3 DEF Init, TypeOK

\* Every reachable state of the pairing processes and of their file is well
\* formed; in particular the failures counted stay below MaxFailures.
THEOREM TypeCorrect == Spec => []TypeOK
<1>1. TypeOK /\ [Next]_vars => TypeOK'
  <2> SUFFICES ASSUME TypeOK, [Next]_vars PROVE TypeOK'
    OBVIOUS
  <2>1. ASSUME NEW p \in Proc, Load(p) PROVE TypeOK'
    <3>1. (IF file = Torn THEN Empty ELSE file) \in State
      BY EmptyType DEF TypeOK
    <3> QED
      BY <2>1, <3>1 DEF TypeOK, Load
  <2>2. ASSUME NEW g \in Gateway, Write(g) PROVE TypeOK'
    BY <2>2 DEF TypeOK, Write, Proc
  <2>3. ASSUME NEW g \in Gateway, WriteFails(g) PROVE TypeOK'
    BY <2>3 DEF TypeOK, WriteFails, history, Proc
  <2>4. ASSUME NEW p \in Proc, WriteAndExit(p) PROVE TypeOK'
    <3>1. Down(p) /\ p \in Cli
      BY <2>4 DEF WriteAndExit
    <3>2. issued' \in [Code -> Codes]
      BY <2>4, StateParts DEF TypeOK, WriteAndExit, Codes
    <3> QED
      BY <2>4, <3>1, <3>2, DownTypes, PairingAssumption
      DEF TypeOK, WriteAndExit, Codes, Proc
  <2>5. ASSUME NEW p \in Proc, Exit(p) PROVE TypeOK'
    BY <2>5, DownTypes DEF TypeOK, Exit, Proc
  <2>6. ASSUME NEW p \in Cli, NEW c \in Code, NEW channel \in Channel,
               NewCode(p, c, channel)
        PROVE  TypeOK'
    <3> DEFINE s == [mem[p] EXCEPT !.pending[c] = [channel |-> channel,
                                                   created_at |-> now]]
    <3>1. p \in Proc /\ mem[p] \in State
      BY DEF TypeOK, Proc
    <3>2. [mem[p].pending EXCEPT ![c] = [channel |-> channel, created_at |-> now]]
             \in [Code -> Codes]
      BY <3>1, StateParts DEF TypeOK, Codes
    <3>3. s \in State
      BY <3>1, <3>2 DEF State, Codes
    <3>4. Change(p, s, "saving")
      BY <2>6 DEF NewCode
    <3> HIDE DEF s
    <3> QED
      BY <2>6, <3>1, <3>3, <3>4, ChangeTypes, PairingAssumption
      DEF TypeOK, NewCode, Proc
  <2>7. ASSUME NEW g \in Gateway, NEW u \in User, NEW c \in Code \union {Wrong},
               Mark(g, u, c)
        PROVE  TypeOK'
    <3> DEFINE s == [mem[g] EXCEPT !.users[Acct(g, u)].last_request = now]
    <3>1. g \in Proc /\ mem[g] \in State /\ Acct(g, u) \in Account
      BY PairingAssumption DEF TypeOK, Proc, Acct, Account
    <3>2. mem[g].users[Acct(g, u)] \in Users
      BY <3>1, StateParts
    <3>3. [mem[g].users[Acct(g, u)] EXCEPT !.last_request = now] \in Users
      BY <3>2 DEF TypeOK, Users
    <3>4. s = [mem[g] EXCEPT !.users[Acct(g, u)] =
                  [mem[g].users[Acct(g, u)] EXCEPT !.last_request = now]]
      OBVIOUS
    <3>5. s \in State
      BY <3>1, <3>3, <3>4, UserChange
    <3>6. Change(g, s, "marking")
      BY <2>7 DEF Mark
    <3>7. <<u, c>> # Nothing
      BY PairingAssumption DEF Nothing
    <3> HIDE DEF s
    <3> QED
      BY <2>7, <3>1, <3>5, <3>6, <3>7, ChangeTypes DEF TypeOK, Mark, Proc
  <2>8. ASSUME NEW g \in Gateway, RedeemLocked(g) PROVE TypeOK'
    BY <2>8 DEF TypeOK, RedeemLocked, history, Proc
  <2>9. ASSUME NEW g \in Gateway, RedeemInvalid(g) PROVE TypeOK'
    <3> DEFINE a == Acct(g, asked[g][1])
               s == [mem[g] EXCEPT !.users[a] = Fail(StateOf(g))]
               guess == [asked |-> StateOf(g).last_request, checked |-> now]
    <3>1. /\ g \in Proc /\ a \in Account /\ StateOf(g) \in Users
          /\ now \in Nat /\ mem[g] \in State
      BY <2>9, AskedTypes DEF RedeemInvalid, TypeOK
    <3>2. Fail(StateOf(g)) \in Users
      BY <3>1, FailType
    <3>3. s \in State
      BY <3>1, <3>2, UserChange
    <3>4. Change(g, s, "saving")
      BY <2>9 DEF RedeemInvalid
    <3>5. guess \in [asked : Int, checked : Nat]
      BY <3>1, PairingAssumption DEF Users
    <3>6. guesses' = [guesses EXCEPT ![a] = Append(guesses[a], guess)]
      BY <2>9 DEF RedeemInvalid
    <3> HIDE DEF a, s, guess
    <3>7. guesses' \in [Account -> Seq([asked : Int, checked : Nat])]
      BY <3>1, <3>5, <3>6 DEF TypeOK
    <3> QED
      BY <2>9, <3>1, <3>3, <3>4, <3>7, ChangeTypes DEF TypeOK, RedeemInvalid, Proc
  <2>10. ASSUME NEW g \in Gateway, RedeemValid(g) PROVE TypeOK'
    <3> DEFINE a == Acct(g, asked[g][1])
               c == asked[g][2]
    <3>1. /\ g \in Proc /\ a \in Account /\ c \in Code /\ mem[g] \in State
      BY <2>10, AskedTypes DEF RedeemValid, Valid, TypeOK
    <3>2. Pair(mem[g], a, c) \in State
      BY <3>1, PairType
    <3>3. Change(g, Pair(mem[g], a, c), "saving")
      BY <2>10 DEF RedeemValid
    <3>4. /\ admitted' \in {admitted, admitted \union {<<c, a>>}}
          /\ guesses' = [guesses EXCEPT ![a] = <<>>]
      BY <2>10 DEF RedeemValid
    <3> HIDE DEF a, c
    <3>5. /\ admitted' \subseteq Code \X Account
          /\ guesses' \in [Account -> Seq([asked : Int, checked : Nat])]
      BY <3>1, <3>4 DEF TypeOK
    <3> QED
      BY <2>10, <3>1, <3>2, <3>3, <3>5, ChangeTypes DEF TypeOK, RedeemValid, Proc
  <2>11. CASE Tick
    BY <2>11 DEF TypeOK, Tick, history
  <2>12. CASE UNCHANGED vars
    BY <2>12 DEF TypeOK, vars, history
  <2> QED
    BY <2>1, <2>2, <2>3, <2>4, <2>5, <2>6, <2>7, <2>8, <2>9, <2>10, <2>11, <2>12
    DEF Next, HandlePair
<1> QED
  BY <1>1, InitType, PTL DEF Spec

-----------------------------------------------------------------------------
(* Default-deny *)

\* What a gateway's change of its own copy has to respect: it takes its codes
\* from what the operator was given, and pairs only whom `admitted` records.
LEMMA GatewayChange ==
  ASSUME Inv, TypeOK', NEW g \in Gateway, NEW s \in State,
         NEW next \in {"marking", "saving"}, Change(g, s, next),
         UNCHANGED <<issued, base>>, admitted \subseteq admitted',
         Genuine(s), s.paired \subseteq {x[2] : x \in admitted'}
  PROVE  Inv'
<1>1. /\ g \in Proc /\ g \notin Cli /\ TypeOK
      /\ file' = Torn /\ mem'[g] = s
      /\ \A q \in Proc \ {g} : mem'[q] = mem[q]
  BY ChangeTypes, PairingAssumption DEF Inv, Proc
<1>2. \A h \in Gateway : Genuine(mem[h])'
  BY <1>1 DEF Inv, Genuine, Proc
<1>3. \A p \in Proc : Genuine(base[p])'
  BY DEF Inv, Genuine
<1>4. ASSUME NEW p \in Cli, NEW c \in Code
      PROVE  (mem[p].pending[c] = base[p].pending[c] \/ Secret(p, c))'
  <2>1. p # g /\ p \in Proc /\ mem'[p] = mem[p]
    BY <1>1 DEF Proc
  <2>2. issued[c] = Unissued => s.pending[c] = Unissued
    BY DEF Genuine
  <2> QED
    BY <1>1, <2>1, <2>2 DEF Inv, Secret
<1>5. OnlyCodesAdmit'
  <2>1. \A p \in Proc : mem'[p].paired \subseteq {x[2] : x \in admitted'}
    BY <1>1 DEF Inv, OnlyCodesAdmit, Paired
  <2> QED
    BY <1>1, <2>1 DEF OnlyCodesAdmit, Paired
<1> QED
  BY <1>1, <1>2, <1>3, <1>4, <1>5 DEF Inv

\* A process that ends, or that finds no file it can read, knows nothing.
LEMMA EmptyIsGenuine ==
  /\ \A c \in Code : Empty.pending[c] = Unissued
  /\ Empty.paired = {}
  BY DEF Empty

LEMMA LoadStep ==
  ASSUME Inv, TypeOK', NEW p \in Proc, Load(p)
  PROVE  Inv'
<1> DEFINE state == IF file = Torn THEN Empty ELSE file
<1>1. /\ mem' = [mem EXCEPT ![p] = state] /\ base' = [base EXCEPT ![p] = state]
      /\ UNCHANGED <<file, issued, admitted>>
  BY DEF Load
<1>2. Genuine(state) /\ state.paired \subseteq {x[2] : x \in admitted}
  BY EmptyIsGenuine DEF Inv, Genuine, OnlyCodesAdmit, Paired
<1> HIDE DEF state
<1>3. /\ mem'[p] = state /\ base'[p] = state
      /\ \A q \in Proc \ {p} : mem'[q] = mem[q] /\ base'[q] = base[q]
  BY <1>1 DEF Inv, TypeOK
<1>4. \A q \in Proc : Genuine(base[q])'
  BY <1>1, <1>2, <1>3 DEF Inv, Genuine
<1>5. \A g \in Gateway : Genuine(mem[g])'
  BY <1>1, <1>2, <1>3 DEF Inv, Genuine, Proc
<1>6. (file # Torn => Genuine(file))'
  BY <1>1 DEF Inv, Genuine
<1>7. ASSUME NEW q \in Cli, NEW c \in Code
      PROVE  (mem[q].pending[c] = base[q].pending[c] \/ Secret(q, c))'
  <2>1. issued[c] = Unissued => state.pending[c] = Unissued
    BY <1>2 DEF Genuine
  <2>2. q \in Proc
    BY DEF Proc
  <2> QED
    BY <1>1, <1>3, <2>1, <2>2 DEF Inv, Secret
<1>8. OnlyCodesAdmit'
  BY <1>1, <1>2, <1>3 DEF Inv, OnlyCodesAdmit, Paired
<1> QED
  BY <1>4, <1>5, <1>6, <1>7, <1>8 DEF Inv

LEMMA WriteStep ==
  ASSUME Inv, TypeOK', NEW g \in Gateway, Write(g)
  PROVE  Inv'
<1>1. /\ g \in Proc /\ g \notin Cli
      /\ file' = mem[g] /\ base' = [base EXCEPT ![g] = mem[g]]
      /\ UNCHANGED <<mem, issued, admitted>>
  BY PairingAssumption DEF Write, Proc
<1>2. /\ base'[g] = mem[g]
      /\ \A q \in Proc \ {g} : base'[q] = base[q]
  BY <1>1 DEF Inv, TypeOK
<1>3. (\A h \in Gateway : Genuine(mem[h]))' /\ Genuine(mem[g])
  BY <1>1 DEF Inv, Genuine
<1>4. (\A q \in Proc : Genuine(base[q]))' /\ (file # Torn => Genuine(file))'
  BY <1>1, <1>2, <1>3 DEF Inv, Genuine
<1>5. ASSUME NEW q \in Cli, NEW c \in Code
      PROVE  (mem[q].pending[c] = base[q].pending[c] \/ Secret(q, c))'
  <2>1. q \in Proc \ {g}
    BY <1>1 DEF Proc
  <2> QED
    BY <1>1, <1>2, <2>1 DEF Inv, Secret
<1>6. OnlyCodesAdmit'
  BY <1>1 DEF Inv, OnlyCodesAdmit, Paired
<1> QED
  BY <1>3, <1>4, <1>5, <1>6 DEF Inv

LEMMA ExitStep ==
  ASSUME Inv, TypeOK', NEW p \in Proc, Exit(p)
  PROVE  Inv'
<1>1. Down(p) /\ UNCHANGED <<file, issued, admitted>> /\ TypeOK
  BY DEF Exit, Inv
<1>2. /\ mem'[p] = Empty /\ base'[p] = Empty
      /\ \A q \in Proc \ {p} : mem'[q] = mem[q] /\ base'[q] = base[q]
  BY <1>1, DownTypes
<1>3. (\A q \in Proc : Genuine(base[q]))' /\ (file # Torn => Genuine(file))'
  BY <1>1, <1>2, EmptyIsGenuine DEF Inv, Genuine
<1>4. (\A g \in Gateway : Genuine(mem[g]))'
  BY <1>1, <1>2, EmptyIsGenuine DEF Inv, Genuine, Proc
<1>5. ASSUME NEW q \in Cli, NEW c \in Code
      PROVE  (mem[q].pending[c] = base[q].pending[c] \/ Secret(q, c))'
  <2>1. q \in Proc
    BY DEF Proc
  <2> QED
    BY <1>1, <1>2, <2>1, EmptyIsGenuine DEF Inv, Secret
<1>6. OnlyCodesAdmit'
  BY <1>1, <1>2, EmptyIsGenuine DEF Inv, OnlyCodesAdmit, Paired
<1> QED
  BY <1>3, <1>4, <1>5, <1>6 DEF Inv

\* A command's code is given out: it was in no other copy.
LEMMA WriteAndExitStep ==
  ASSUME Inv, TypeOK', NEW p \in Proc, WriteAndExit(p)
  PROVE  Inv'
<1>1. /\ Down(p) /\ p \in Cli /\ file' = mem[p] /\ UNCHANGED admitted /\ TypeOK
      /\ \A c \in Code : issued'[c] = IF mem[p].pending[c] # base[p].pending[c]
                                      THEN mem[p].pending[c] ELSE issued[c]
  BY DEF WriteAndExit, Inv
<1>2. /\ mem'[p] = Empty /\ base'[p] = Empty
      /\ \A q \in Proc \ {p} : mem'[q] = mem[q] /\ base'[q] = base[q]
  BY <1>1, DownTypes
<1>3. \A c \in Code : issued'[c] = issued[c] \/ (Secret(p, c) /\ issued'[c] = mem[p].pending[c])
  BY <1>1 DEF Inv
<1>5. (\A q \in Proc : Genuine(base[q]))'
  BY <1>2, <1>3, EmptyIsGenuine DEF Inv, Genuine, Secret
<1>6. (\A g \in Gateway : Genuine(mem[g]))'
  BY <1>1, <1>2, <1>3, PairingAssumption DEF Inv, Genuine, Secret, Proc
<1>7. (file # Torn => Genuine(file))'
  BY <1>1, <1>3 DEF Inv, Genuine
<1>8. ASSUME NEW q \in Cli, NEW c \in Code
      PROVE  (mem[q].pending[c] = base[q].pending[c] \/ Secret(q, c))'
  <2>1. q \in Proc
    BY DEF Proc
  <2>2. CASE q = p
    BY <1>2, <2>2
  <2>3. CASE q # p /\ issued'[c] = issued[c]
    BY <1>2, <2>1, <2>3, EmptyIsGenuine DEF Inv, Secret
  <2>4. CASE q # p /\ Secret(p, c)
    BY <1>2, <2>1, <2>4 DEF Inv, Genuine, Secret
  <2> QED
    BY <1>3, <2>2, <2>3, <2>4
<1>9. OnlyCodesAdmit'
  BY <1>1, <1>2, EmptyIsGenuine DEF Inv, OnlyCodesAdmit, Paired
<1> QED
  BY <1>5, <1>6, <1>7, <1>8, <1>9 DEF Inv

LEMMA NewCodeStep ==
  ASSUME Inv, TypeOK', NEW p \in Cli, NEW c \in Code, NEW channel \in Channel,
         NewCode(p, c, channel)
  PROVE  Inv'
<1> DEFINE s == [mem[p] EXCEPT !.pending[c] = [channel |-> channel,
                                               created_at |-> now]]
<1>1. /\ p \in Proc /\ p \notin Gateway /\ TypeOK /\ mem[p] \in State
      /\ UNCHANGED <<issued, admitted, base>>
      /\ issued[c] = Unissued /\ \A q \in Proc : mem[q].pending[c] = Unissued
  BY PairingAssumption DEF Inv, TypeOK, NewCode, Proc
<1>2. /\ mem' = [mem EXCEPT ![p] = s] /\ file' = Torn
  BY DEF NewCode, Change
<1>3. /\ s.paired = mem[p].paired
      /\ \A d \in Code \ {c} : s.pending[d] = mem[p].pending[d]
  BY <1>1, StateParts DEF State
<1> HIDE DEF s
<1>4. /\ mem'[p] = s
      /\ \A q \in Proc \ {p} : mem'[q] = mem[q]
  BY <1>1, <1>2 DEF TypeOK
<1>5. (\A g \in Gateway : Genuine(mem[g]))' /\ (\A q \in Proc : Genuine(base[q]))'
  BY <1>1, <1>4 DEF Inv, Genuine, Proc
<1>6. ASSUME NEW q \in Cli, NEW d \in Code
      PROVE  (mem[q].pending[d] = base[q].pending[d] \/ Secret(q, d))'
  <2>1. q \in Proc
    BY DEF Proc
  <2>2. CASE d = c /\ q = p
    BY <1>1, <1>4, <2>2 DEF Secret
  <2>3. CASE d = c /\ q # p
    BY <1>1, <1>4, <2>1, <2>3 DEF Inv, Genuine
  <2>4. CASE d # c
    BY <1>1, <1>3, <1>4, <2>1, <2>4 DEF Inv, Secret
  <2> QED
    BY <2>2, <2>3, <2>4
<1>7. OnlyCodesAdmit'
  BY <1>1, <1>2, <1>3, <1>4 DEF Inv, OnlyCodesAdmit, Paired
<1> QED
  BY <1>2, <1>5, <1>6, <1>7 DEF Inv

LEMMA Invariance == Spec => []Inv
<1>1. Init => Inv
  <2> SUFFICES ASSUME Init PROVE Inv
    OBVIOUS
  <2>1. TypeOK
    BY InitType
  <2>2. /\ file = Empty
        /\ \A p \in Proc : mem[p] = Empty /\ base[p] = Empty
    BY DEF Init
  <2> QED
    BY <2>1, <2>2, EmptyIsGenuine DEF Inv, Genuine, OnlyCodesAdmit, Paired, Proc
<1>2. Inv /\ TypeOK' /\ [Next]_vars => Inv'
  <2> SUFFICES ASSUME Inv, TypeOK', [Next]_vars PROVE Inv'
    OBVIOUS
  <2>0. TypeOK /\ OnlyCodesAdmit
    BY DEF Inv
  <2>1. ASSUME NEW g \in Gateway, WriteFails(g) PROVE Inv'
    <3>1. UNCHANGED <<file, mem, issued, admitted, base>>
      BY <2>1 DEF WriteFails, history
    <3> QED
      BY <3>1 DEF Inv, Genuine, Secret, OnlyCodesAdmit, Paired
  <2>2. ASSUME NEW g \in Gateway, NEW u \in User, NEW c \in Code \union {Wrong},
               Mark(g, u, c)
        PROVE  Inv'
    <3> DEFINE s == [mem[g] EXCEPT !.users[Acct(g, u)].last_request = now]
    <3>1. mem[g] \in State /\ mem'[g] = s /\ mem'[g] \in State
      BY <2>0, <2>2 DEF TypeOK, Mark, Change, Proc
    <3>2. s.paired = mem[g].paired /\ s.pending = mem[g].pending
      BY <3>1 DEF State
    <3>3. Change(g, s, "marking") /\ UNCHANGED <<issued, admitted, base>>
      BY <2>2 DEF Mark
    <3> HIDE DEF s
    <3>4. Genuine(s) /\ s.paired \subseteq {x[2] : x \in admitted'}
      BY <2>0, <3>2, <3>3 DEF Inv, Genuine, OnlyCodesAdmit, Paired, Proc
    <3> QED
      BY <3>1, <3>3, <3>4, GatewayChange
  <2>3. ASSUME NEW g \in Gateway, RedeemLocked(g) PROVE Inv'
    <3>1. UNCHANGED <<file, mem, issued, admitted, base>>
      BY <2>3 DEF RedeemLocked, history
    <3> QED
      BY <3>1 DEF Inv, Genuine, Secret, OnlyCodesAdmit, Paired
  <2>4. ASSUME NEW g \in Gateway, RedeemInvalid(g) PROVE Inv'
    <3> DEFINE s == [mem[g] EXCEPT !.users[Acct(g, asked[g][1])] = Fail(StateOf(g))]
    <3>1. mem[g] \in State /\ mem'[g] = s /\ mem'[g] \in State
      BY <2>0, <2>4 DEF TypeOK, RedeemInvalid, Change, Proc
    <3>2. s.paired = mem[g].paired /\ s.pending = mem[g].pending
      BY <3>1 DEF State
    <3>3. Change(g, s, "saving") /\ UNCHANGED <<issued, admitted, base>>
      BY <2>4 DEF RedeemInvalid
    <3> HIDE DEF s
    <3>4. Genuine(s) /\ s.paired \subseteq {x[2] : x \in admitted'}
      BY <2>0, <3>2, <3>3 DEF Inv, Genuine, OnlyCodesAdmit, Paired, Proc
    <3> QED
      BY <3>1, <3>3, <3>4, GatewayChange
  <2>5. ASSUME NEW g \in Gateway, RedeemValid(g) PROVE Inv'
    <3> DEFINE a == Acct(g, asked[g][1])
               c == asked[g][2]
               s == Pair(mem[g], a, c)
    <3>1. /\ g \in Proc /\ a \in Account /\ c \in Code /\ mem[g] \in State
      BY <2>0, <2>5, AskedTypes DEF RedeemValid, Valid, TypeOK
    <3>2. /\ s \in State /\ s.paired = mem[g].paired \union {a}
          /\ s.pending = [mem[g].pending EXCEPT ![c] = Unissued]
      BY <3>1, PairType
    <3>3. Change(g, s, "saving") /\ UNCHANGED <<issued, base>>
      BY <2>5 DEF RedeemValid
    \* The code in the copy is the one the operator was given.
    <3>4. Fresh(c, Serves[g])
      <4>1. /\ mem[g].pending[c].channel = Serves[g]
            /\ now - mem[g].pending[c].created_at <= TTL
        BY <2>5 DEF RedeemValid, Valid
      <4>2. mem[g].pending[c] # Unissued
        BY <4>1, PairingAssumption DEF Unissued
      <4>3. mem[g].pending[c] = issued[c]
        BY <3>1, <4>2 DEF Inv, Genuine
      <4> QED
        BY <4>1, <4>3 DEF Fresh
    <3>5. admitted' = admitted \union {<<c, a>>}
      BY <2>5, <3>4 DEF RedeemValid
    <3> HIDE DEF a, c, s
    <3>6. Genuine(s)
      BY <3>1, <3>2, StateParts DEF Inv, Genuine, Codes
    <3>7. s.paired \subseteq {x[2] : x \in admitted'}
      <4>1. mem[g].paired \subseteq {x[2] : x \in admitted}
        BY <2>0, <3>1 DEF OnlyCodesAdmit, Paired
      <4>2. <<c, a>> \in admitted' /\ <<c, a>>[2] = a
        BY <3>5
      <4> QED
        BY <3>2, <3>5, <4>1, <4>2
    <3> QED
      BY <3>2, <3>3, <3>5, <3>6, <3>7, GatewayChange
  <2>6. CASE Tick
    BY <2>6 DEF Tick, history, Inv, Genuine, Secret, OnlyCodesAdmit, Paired
  <2>7. CASE UNCHANGED vars
    BY <2>7 DEF vars, history, Inv, Genuine, Secret, OnlyCodesAdmit, Paired
  <2> QED
    BY <2>1, <2>2, <2>3, <2>4, <2>5, <2>6, <2>7, LoadStep, WriteStep, ExitStep,
       WriteAndExitStep, NewCodeStep
    DEF Next, HandlePair
<1> QED
  BY <1>1, <1>2, TypeCorrect, PTL DEF Spec

\* Who is paired, in whatever copy, has redeemed a fresh code of the channel.
THEOREM DefaultDeny == Spec => []OnlyCodesAdmit
<1>1. Inv => OnlyCodesAdmit
  BY DEF Inv
<1> QED
  BY <1>1, Invariance, PTL

-----------------------------------------------------------------------------
(* One pairing per code, and slow guessing, while no process has overwritten *)
(* what another saved.  Then one state is current: the file, or the copy of  *)
(* the process that is writing it, and every change starts from it.          *)

Writing(p) == pc[p] \in {"marking", "saving"}

\* The gateways handling a /pair: for which account, and when they marked it.
Busy(g) == pc[g] \in {"marking", "redeem"}
AcctOf(g) == Acct(g, asked[g][1])
MarkOf(g) == mem[g].users[AcctOf(g)].last_request

\* What an account's wrong codes must look like.
Slow(gs) ==
    \A k, m \in 1..Len(gs) :
        /\ m = k + 1 => gs[m].asked - gs[k].asked >= Interval
        /\ m = k + MaxFailures =>
              \E j \in k..(m - 1) : gs[j + 1].checked - gs[j].checked >= Lockout

\* An account's record u remembers enough of its wrong codes: the last request,
\* and the lockout that came before the failures it counts.
Counted(u, gs) ==
    LET n == Len(gs)
        f == u.failures
    IN  /\ n > 0 => u.last_request >= gs[n].asked
        /\ f <= n
        /\ 0 < n /\ f = 0 => u.locked_until >= gs[n].checked + Lockout
        /\ 0 < f /\ f < n => gs[n - f + 1].checked - gs[n - f].checked >= Lockout

\* The request of a busy gateway is the last that s knows of its account, an
\* Interval after the last wrong code, or s has a later one.
Marked(s, g) ==
    LET last == s.users[AcctOf(g)].last_request
        gs == guesses[AcctOf(g)]
    IN  /\ MarkOf(g) < now \/ MarkOf(g) = last
        /\ MarkOf(g) = last /\ Len(gs) > 0 => last - gs[Len(gs)].asked >= Interval

\* s is current: it has every pairing there was, and no code that was redeemed.
Redeemed(s) == \A x \in admitted : x[2] \in s.paired /\ s.pending[x[1]] = Unissued
Tallied(s) == \A a \in Account : Counted(s.users[a], guesses[a])
Current(s) == /\ Redeemed(s) /\ Tallied(s)
              /\ \A g \in Gateway : Busy(g) => Marked(s, g)

OneWriter(p) == /\ file = Torn /\ Current(mem[p])
                /\ \A q \in Proc \ {p} : mem[q] = base[q] /\ ~Writing(q)
Settled == file # Torn => Current(file) /\ \A p \in Proc : mem[p] = base[p] /\ ~Writing(p)

MarksApart ==
    /\ \A g \in Gateway : Busy(g) => MarkOf(g) <= now
    /\ \A g, h \in Gateway : g # h /\ Busy(g) /\ Busy(h) /\ AcctOf(g) = AcctOf(h) =>
                                 MarkOf(g) # MarkOf(h)

\* What the history of codes and guesses must be like.
Past == /\ \A a \in Account : Slow(guesses[a])
        /\ \A x, y \in admitted : x[1] = y[1] => x = y
        /\ \A x \in admitted : issued[x[1]] # Unissued

Orderly == ~clobbered => /\ Settled
                         /\ \A p \in Proc : Writing(p) => OneWriter(p)
                         /\ MarksApart
                         /\ Past

LEMMA BusyTypes ==
  ASSUME TypeOK, NEW g \in Gateway, Busy(g)
  PROVE  /\ g \in Proc /\ asked[g][1] \in User
         /\ AcctOf(g) \in Account
         /\ MarkOf(g) \in Int
<1>1. asked[g] \in User \X (Code \union {Wrong}) /\ g \in Proc
  BY DEF TypeOK, Busy, Proc
<1>2. AcctOf(g) \in Account
  BY <1>1, PairingAssumption DEF AcctOf, Acct, Account
<1>3. mem[g] \in State
  BY <1>1 DEF TypeOK
<1>4. mem[g].users[AcctOf(g)] \in Users
  BY <1>2, <1>3, StateParts
<1> QED
  BY <1>1, <1>2, <1>4, PairingAssumption DEF MarkOf, Users

\* A busy gateway that goes on, or ends, keeps its place while the rest stays.
LEMMA MarksKept ==
  ASSUME TypeOK, MarksApart, now' \in Nat, now <= now',
         \A g \in Gateway : Busy(g)' => /\ Busy(g) /\ asked'[g] = asked[g]
                                        /\ mem'[g] = mem[g]
  PROVE  MarksApart'
<1>1. \A g \in Gateway : Busy(g)' => /\ Busy(g) /\ AcctOf(g)' = AcctOf(g)
                                     /\ MarkOf(g)' = MarkOf(g) /\ MarkOf(g) \in Int
  BY BusyTypes DEF AcctOf, Acct, MarkOf
<1>2. now \in Nat
  BY DEF TypeOK
<1>3. \A g \in Gateway : Busy(g)' => MarkOf(g)' <= now'
  BY <1>1, <1>2 DEF MarksApart
<1> QED
  BY <1>1, <1>3 DEF MarksApart

\* The same of a state that is current.
LEMMA CurrentKept ==
  ASSUME TypeOK, NEW s, NEW t, Current(s), t = s, now' \in Nat, now <= now',
         UNCHANGED <<admitted, guesses>>,
         \A g \in Gateway : Busy(g)' => /\ Busy(g) /\ asked'[g] = asked[g]
                                        /\ mem'[g] = mem[g]
  PROVE  /\ \A x \in admitted' : x[2] \in t.paired /\ t.pending[x[1]] = Unissued
         /\ \A a \in Account : Counted(t.users[a], guesses'[a])
         /\ \A g \in Gateway : Busy(g)' =>
              LET last == t.users[AcctOf(g)'].last_request
                  gs == guesses'[AcctOf(g)']
              IN  /\ MarkOf(g)' < now' \/ MarkOf(g)' = last
                  /\ MarkOf(g)' = last /\ Len(gs) > 0 =>
                        last - gs[Len(gs)].asked >= Interval
<1>1. \A g \in Gateway : Busy(g)' => /\ Busy(g) /\ AcctOf(g)' = AcctOf(g)
                                     /\ MarkOf(g)' = MarkOf(g) /\ MarkOf(g) \in Int
  BY BusyTypes DEF AcctOf, Acct, MarkOf
<1>2. now \in Nat
  BY DEF TypeOK
<1>3. ASSUME NEW g \in Gateway, Busy(g)'
      PROVE  LET last == t.users[AcctOf(g)'].last_request
                 gs == guesses'[AcctOf(g)']
             IN  /\ MarkOf(g)' < now' \/ MarkOf(g)' = last
                 /\ MarkOf(g)' = last /\ Len(gs) > 0 =>
                       last - gs[Len(gs)].asked >= Interval
  <2>1. Marked(s, g)
    BY <1>1, <1>3 DEF Current
  <2> QED
    BY <1>1, <1>2, <1>3, <2>1 DEF Marked
<1> QED
  BY <1>3 DEF Current, Redeemed, Tallied

\* The same, of the file and of a process's copy.
LEMMA FileKept ==
  ASSUME TypeOK, NEW s, Current(s), file' = s, now' \in Nat, now <= now',
         UNCHANGED <<admitted, guesses>>,
         \A g \in Gateway : Busy(g)' => /\ Busy(g) /\ asked'[g] = asked[g]
                                        /\ mem'[g] = mem[g]
  PROVE  Current(file)'
  BY CurrentKept DEF Current, Redeemed, Tallied, Marked

LEMMA CopyKept ==
  ASSUME TypeOK, NEW p, Current(mem[p]), mem'[p] = mem[p], now' \in Nat, now <= now',
         UNCHANGED <<admitted, guesses>>,
         \A g \in Gateway : Busy(g)' => /\ Busy(g) /\ asked'[g] = asked[g]
                                        /\ mem'[g] = mem[g]
  PROVE  Current(mem[p])'
  BY CurrentKept DEF Current, Redeemed, Tallied, Marked

LEMMA PastKept ==
  ASSUME Past, UNCHANGED <<admitted, guesses>>,
         \A c \in Code : issued[c] # Unissued => issued'[c] # Unissued,
         admitted \subseteq Code \X Account
  PROVE  Past'
  BY DEF Past

\* A step that writes nothing: each process stays as it was, or forgets what it had
\* for a copy nobody changed.
LEMMA QuietStep ==
  ASSUME TypeOK, Orderly, now' \in Nat, now <= now',
         UNCHANGED <<file, issued, admitted, guesses>>,
         ~clobbered' => ~clobbered,
         \A p \in Proc : \/ /\ mem'[p] = mem[p] /\ base'[p] = base[p]
                            /\ Writing(p)' => Writing(p)
                         \/ mem'[p] = base'[p] /\ ~Writing(p)',
         \A g \in Gateway : Busy(g)' => /\ Busy(g) /\ asked'[g] = asked[g]
                                        /\ mem'[g] = mem[g]
  PROVE  Orderly'
<1> SUFFICES ASSUME ~clobbered'
             PROVE  /\ Settled'
                    /\ \A p \in Proc : Writing(p)' => OneWriter(p)'
                    /\ MarksApart'
                    /\ Past'
  BY DEF Orderly
<1>1. /\ Settled /\ MarksApart /\ Past
      /\ \A p \in Proc : Writing(p) => OneWriter(p)
  BY DEF Orderly
<1>2. Settled'
  <2>1. Current(file) => Current(file)'
    BY FileKept
  <2> QED
    BY <1>1, <2>1 DEF Settled
<1>3. ASSUME NEW p \in Proc, Writing(p)' PROVE OneWriter(p)'
  <2>1. Writing(p) /\ OneWriter(p) /\ mem'[p] = mem[p]
    BY <1>1, <1>3
  <2>2. Current(mem[p])'
    BY <2>1, CopyKept DEF OneWriter
  <2> QED
    BY <2>1, <2>2 DEF OneWriter
<1>4. MarksApart'
  BY <1>1, MarksKept
<1>5. Past'
  BY <1>1, PastKept DEF TypeOK
<1> QED
  BY <1>2, <1>3, <1>4, <1>5

\* A step that completes a save.
LEMMA SaveStep ==
  ASSUME TypeOK, Orderly, NEW p \in Proc, Writing(p),
         file' = mem[p], UNCHANGED <<now, admitted, guesses, clobbered>>,
         \A c \in Code : issued[c] # Unissued => issued'[c] # Unissued,
         mem'[p] = base'[p], ~Writing(p)',
         \A q \in Proc \ {p} : mem'[q] = mem[q] /\ base'[q] = base[q] /\ pc'[q] = pc[q],
         \A g \in Gateway : Busy(g)' => /\ Busy(g) /\ asked'[g] = asked[g]
                                        /\ mem'[g] = mem[g]
  PROVE  Orderly'
<1> SUFFICES ASSUME ~clobbered'
             PROVE  /\ Settled'
                    /\ \A q \in Proc : ~Writing(q)'
                    /\ MarksApart'
                    /\ Past'
  BY DEF Orderly
<1>1. OneWriter(p) /\ MarksApart /\ Past /\ now' \in Nat /\ now <= now'
  BY DEF Orderly, TypeOK
<1>2. \A q \in Proc : mem'[q] = base'[q] /\ ~Writing(q)'
  BY <1>1 DEF OneWriter, Writing
<1>3. Current(file)'
  BY <1>1, FileKept DEF OneWriter
<1>4. MarksApart'
  BY <1>1, MarksKept
<1>5. Past'
  BY <1>1, PastKept DEF TypeOK
<1> QED
  BY <1>2, <1>3, <1>4, <1>5 DEF Settled

\* A change that overwrites nothing starts from the current state ...
LEMMA ChangeTakes ==
  ASSUME TypeOK, Orderly, NEW p \in Proc, NEW s, NEW next, Change(p, s, next),
         ~clobbered'
  PROVE  /\ Current(mem[p])
         /\ \A q \in Proc : mem[q] = base[q] /\ ~Writing(q)
         /\ MarksApart /\ Past
<1>1. ~clobbered /\ file = base[p]
  BY DEF Change
<1>2. file # Torn
  BY <1>1, TornAssumption DEF TypeOK
<1> QED
  BY <1>1, <1>2 DEF Orderly, Settled

\* ... and has the only copy of the next one.
LEMMA ChangeMakes ==
  ASSUME TypeOK, Orderly, NEW p \in Proc, NEW s \in State,
         NEW next \in {"marking", "saving"}, Change(p, s, next), UNCHANGED base,
         ~clobbered' => Current(mem[p])' /\ MarksApart' /\ Past'
  PROVE  Orderly'
<1> SUFFICES ASSUME ~clobbered'
             PROVE  /\ Settled'
                    /\ \A q \in Proc : Writing(q)' => OneWriter(q)'
                    /\ MarksApart'
                    /\ Past'
  BY DEF Orderly
<1>1. /\ file' = Torn
      /\ \A q \in Proc \ {p} : mem'[q] = mem[q] /\ pc'[q] = pc[q]
  BY ChangeTypes
<1>2. \A q \in Proc : mem[q] = base[q] /\ ~Writing(q)
  BY ChangeTakes
<1>3. \A q \in Proc \ {p} : mem'[q] = base'[q] /\ ~Writing(q)'
  BY <1>1, <1>2 DEF Writing
<1> QED
  BY <1>1, <1>3 DEF Settled, OneWriter

\* The changes that leave every other gateway's request as it was.
LEMMA OthersStay ==
  ASSUME TypeOK, NEW p \in Proc, NEW s \in State, NEW next \in {"marking", "saving"},
         Change(p, s, next), NEW h \in Gateway, h # p, asked'[h] = asked[h], Busy(h)'
  PROVE  /\ Busy(h) /\ AcctOf(h)' = AcctOf(h) /\ AcctOf(h) \in Account
         /\ MarkOf(h)' = MarkOf(h) /\ MarkOf(h) \in Int
<1>1. h \in Proc /\ mem'[h] = mem[h] /\ pc'[h] = pc[h]
  BY ChangeTypes DEF Proc
<1>2. Busy(h) /\ AcctOf(h)' = AcctOf(h)
  BY <1>1 DEF Busy, AcctOf, Acct
<1> QED
  BY <1>1, <1>2, BusyTypes DEF MarkOf

LEMMA NewCodeOrderly ==
  ASSUME Inv, Orderly, NEW p \in Cli, NEW c \in Code, NEW channel \in Channel,
         NewCode(p, c, channel)
  PROVE  Orderly'
<1> DEFINE s == [mem[p] EXCEPT !.pending[c] = [channel |-> channel,
                                               created_at |-> now]]
<1>1. /\ TypeOK /\ p \in Proc /\ p \notin Gateway /\ mem[p] \in State
      /\ now \in Nat /\ issued[c] = Unissued
      /\ UNCHANGED <<asked, now, issued, admitted, guesses, base>>
      /\ Change(p, s, "saving")
  BY PairingAssumption DEF Inv, TypeOK, NewCode, Proc
<1>2. /\ s.paired = mem[p].paired /\ s.users = mem[p].users
      /\ \A d \in Code \ {c} : s.pending[d] = mem[p].pending[d]
  BY <1>1, StateParts DEF State
<1>3. s \in State
  <2>1. [mem[p].pending EXCEPT ![c] = [channel |-> channel, created_at |-> now]]
           \in [Code -> Codes]
    BY <1>1, StateParts DEF Codes
  <2> QED
    BY <1>1, <2>1 DEF State, Codes
<1> HIDE DEF s
<1>4. mem'[p] = s
  BY <1>1, <1>3, ChangeTypes
<1>5. ASSUME ~clobbered' PROVE Current(mem[p])' /\ MarksApart' /\ Past'
  <2>1. Current(mem[p]) /\ MarksApart /\ Past
    BY <1>1, <1>5, ChangeTakes
  <2>2. \A h \in Gateway : Busy(h)' => /\ Busy(h) /\ AcctOf(h)' = AcctOf(h)
                                       /\ MarkOf(h)' = MarkOf(h)
    BY <1>1, <1>3, OthersStay
  <2>3. MarksApart'
    BY <1>1, <2>1, <2>2 DEF MarksApart
  <2>4. Past'
    BY <1>1, <2>1 DEF Past
  <2>5. Redeemed(mem[p])'
    <3>1. \A x \in admitted : x[1] \in Code \ {c}
      BY <1>1, <2>1 DEF Past, TypeOK
    <3> QED
      BY <1>1, <1>2, <1>4, <2>1, <3>1 DEF Current, Redeemed
  <2>6. Tallied(mem[p])'
    BY <1>1, <1>2, <1>4, <2>1 DEF Current, Tallied
  <2>7. \A h \in Gateway : Busy(h)' => Marked(mem[p], h)'
    BY <1>1, <1>2, <1>4, <2>1, <2>2 DEF Current, Marked
  <2> QED
    BY <2>3, <2>4, <2>5, <2>6, <2>7 DEF Current
<1> QED
  BY <1>1, <1>3, <1>5, ChangeMakes

\* What an account's record and its wrong codes are made of.
LEMMA AccountTypes ==
  ASSUME TypeOK, NEW p \in Proc, NEW a \in Account
  PROVE  /\ mem[p].users[a] \in Users
         /\ mem[p].users[a].failures \in Nat
         /\ mem[p].users[a].failures < MaxFailures
         /\ mem[p].users[a].locked_until \in Nat
         /\ mem[p].users[a].last_request \in Int
         /\ guesses[a] \in Seq([asked : Int, checked : Nat])
<1>1. mem[p] \in State
  BY DEF TypeOK
<1>2. mem[p].users[a] \in Users
  BY <1>1, StateParts
<1> QED
  BY <1>2, PairingAssumption DEF TypeOK, Users

LEMMA ElementType ==
  ASSUME NEW S, NEW q \in Seq(S)
  PROVE  \A k \in 1..Len(q) : q[k] \in S
  OBVIOUS

LEMMA GuessTypes ==
  ASSUME NEW gs \in Seq([asked : Int, checked : Nat])
  PROVE  /\ Len(gs) \in Nat
         /\ \A k \in 1..Len(gs) : gs[k].asked \in Int /\ gs[k].checked \in Nat
<1>1. Len(gs) \in Nat
  OBVIOUS
<1>2. \A k \in 1..Len(gs) : gs[k] \in [asked : Int, checked : Nat]
  BY ElementType
<1> QED
  BY <1>1, <1>2

LEMMA MarkOrderly ==
  ASSUME Inv, Orderly, NEW g \in Gateway, NEW u \in User,
         NEW c \in Code \union {Wrong}, Mark(g, u, c)
  PROVE  Orderly'
<1> DEFINE a == Acct(g, u)
           old == mem[g].users[a]
           new == [old EXCEPT !.last_request = now]
           s == [mem[g] EXCEPT !.users[a].last_request = now]
<1>1. /\ TypeOK /\ g \in Proc /\ mem[g] \in State /\ a \in Account /\ now \in Nat
      /\ UNCHANGED <<now, issued, admitted, guesses, base>>
      /\ asked' = [asked EXCEPT ![g] = <<u, c>>]
      /\ now - old.last_request >= Interval
  BY PairingAssumption DEF Inv, TypeOK, Mark, Proc, Acct, Account
<1>2. old \in Users /\ old.last_request \in Int
  BY <1>1, AccountTypes
<1>3. s = [mem[g] EXCEPT !.users[a] = new] /\ Change(g, s, "marking")
  BY DEF Mark
<1>4. /\ new \in Users /\ new.failures = old.failures
      /\ new.locked_until = old.locked_until /\ new.last_request = now
  BY <1>1, <1>2 DEF Users
<1>5. s \in State
  BY <1>1, <1>3, <1>4, UserChange
<1>6. /\ s.paired = mem[g].paired /\ s.pending = mem[g].pending
      /\ s.users[a] = new
      /\ \A b \in Account \ {a} : s.users[b] = mem[g].users[b]
  BY <1>1, <1>3, StateParts DEF State
<1>7. mem'[g] = s /\ pc'[g] = "marking"
  BY <1>1, <1>3, <1>5, ChangeTypes
<1>8. Busy(g)' /\ AcctOf(g)' = a
  BY <1>1, <1>7 DEF Busy, AcctOf, Acct, TypeOK
<1>9. MarkOf(g)' = now
  BY <1>4, <1>6, <1>7, <1>8 DEF MarkOf
<1>10. \A h \in Gateway \ {g} : asked'[h] = asked[h]
  BY <1>1 DEF TypeOK
<1> HIDE DEF a, old, new, s
<1>11. \A h \in Gateway \ {g} : Busy(h)' =>
          /\ Busy(h) /\ AcctOf(h)' = AcctOf(h) /\ AcctOf(h) \in Account
          /\ MarkOf(h)' = MarkOf(h) /\ MarkOf(h) \in Int
  BY <1>1, <1>3, <1>5, <1>10, OthersStay
<1>12. ASSUME ~clobbered' PROVE Current(mem[g])' /\ MarksApart' /\ Past'
  <2>1. Current(mem[g]) /\ MarksApart /\ Past
    BY <1>1, <1>3, <1>12, ChangeTakes
  <2>2. Past'
    BY <1>1, <2>1 DEF Past
  <2>3. Redeemed(mem[g])'
    BY <1>1, <1>6, <1>7, <2>1 DEF Current, Redeemed
  \* The request before this one was an Interval ago.
  <2>4. old.last_request < now /\ Counted(old, guesses[a])
    BY <1>1, <1>2, <2>1, PairingAssumption DEF Current, Tallied, old
  <2>5. Len(guesses[a]) > 0 => /\ now - guesses[a][Len(guesses[a])].asked >= Interval
                               /\ now >= guesses[a][Len(guesses[a])].asked
    <3>1. /\ a \in Account /\ guesses[a] \in Seq([asked : Int, checked : Nat])
          /\ Interval \in Nat
      BY <1>1, AccountTypes, PairingAssumption DEF a
    <3>2. Len(guesses[a]) > 0 => /\ guesses[a][Len(guesses[a])].asked \in Int
                                 /\ old.last_request >= guesses[a][Len(guesses[a])].asked
      BY <2>4, <3>1, GuessTypes DEF Counted
    <3> QED
      BY <1>1, <1>2, <3>1, <3>2 DEF old
  <2>6. Counted(new, guesses[a])
    BY <1>4, <2>4, <2>5 DEF Counted
  <2>7. Tallied(mem[g])'
    BY <1>1, <1>6, <1>7, <2>1, <2>6 DEF Current, Tallied
  <2>8. \A h \in Gateway \ {g} : Busy(h)' /\ AcctOf(h) = a => MarkOf(h) < now
    BY <1>1, <1>11, <2>1, <2>4 DEF Current, Marked, old
  <2>9. ASSUME NEW h \in Gateway, Busy(h)' PROVE Marked(mem[g], h)'
    <3>1. CASE h = g
      BY <1>1, <1>4, <1>6, <1>7, <1>8, <1>9, <2>5, <3>1 DEF Marked
    <3>2. CASE h # g /\ AcctOf(h) = a
      BY <1>1, <1>4, <1>6, <1>7, <1>11, <2>8, <2>9, <3>2 DEF Marked
    <3>3. CASE h # g /\ AcctOf(h) # a
      BY <1>1, <1>6, <1>7, <1>11, <2>1, <2>9, <3>3 DEF Current, Marked
    <3> QED
      BY <3>1, <3>2, <3>3
  <2>10. MarksApart'
    <3>1. ASSUME NEW h \in Gateway, Busy(h)' PROVE MarkOf(h)' <= now'
      BY <1>1, <1>9, <1>11, <2>1, <3>1 DEF MarksApart
    <3>2. ASSUME NEW h \in Gateway, NEW i \in Gateway, h # i, Busy(h)', Busy(i)',
                 AcctOf(h)' = AcctOf(i)'
          PROVE  MarkOf(h)' # MarkOf(i)'
      <4>1. CASE h = g
        BY <1>1, <1>8, <1>9, <1>11, <2>8, <3>2, <4>1
      <4>2. CASE i = g
        BY <1>1, <1>8, <1>9, <1>11, <2>8, <3>2, <4>2
      <4>3. CASE h # g /\ i # g
        BY <1>11, <2>1, <3>2, <4>3 DEF MarksApart
      <4> QED
        BY <4>1, <4>2, <4>3
    <3> QED
      BY <3>1, <3>2 DEF MarksApart
  <2> QED
    BY <2>2, <2>3, <2>7, <2>9, <2>10 DEF Current
<1> QED
  BY <1>1, <1>3, <1>5, <1>12, ChangeMakes

\* One more wrong code, checked by a record that is not locked and whose request is
\* an Interval after the last one.
LEMMA GuessCounted ==
  ASSUME NEW u \in Users, NEW gs \in Seq([asked : Int, checked : Nat]), now \in Nat,
         Slow(gs), Counted(u, gs), u.locked_until <= now,
         Len(gs) > 0 => u.last_request - gs[Len(gs)].asked >= Interval
  PROVE  LET new == Append(gs, [asked |-> u.last_request, checked |-> now])
         IN  Slow(new) /\ Counted(Fail(u), new)
<1> DEFINE n == Len(gs)
           f == u.failures
           guess == [asked |-> u.last_request, checked |-> now]
           new == Append(gs, guess)
<1>1. /\ n \in Nat /\ f \in Nat /\ f < MaxFailures /\ MaxFailures \in Nat
      /\ u.locked_until \in Nat /\ u.last_request \in Int /\ Lockout \in Nat
      /\ Interval \in Nat /\ u.failures = f
  BY PairingAssumption DEF Users
<1>2. guess \in [asked : Int, checked : Nat]
  BY <1>1
<1>3. /\ Len(new) = n + 1 /\ new[n + 1] = guess
      /\ \A k \in 1..n : new[k] = gs[k]
      /\ \A k \in 1..n : gs[k].asked \in Int /\ gs[k].checked \in Nat
  <2>1. Len(new) = n + 1 /\ new[n + 1] = guess /\ \A k \in 1..n : new[k] = gs[k]
    BY <1>1, <1>2
  <2> QED
    BY <2>1, GuessTypes
<1>4. /\ guess.asked = u.last_request /\ guess.checked = now
      /\ n > 0 => guess.asked - gs[n].asked >= Interval
      /\ 0 < n /\ f = 0 => guess.checked - gs[n].checked >= Lockout
      /\ 0 < f /\ f < n => gs[n - f + 1].checked - gs[n - f].checked >= Lockout
      /\ f <= n
  BY <1>1, <1>3 DEF Counted
<1> HIDE DEF n, f, guess, new
<1>5. ASSUME NEW k \in 1..(n + 1), NEW m \in 1..(n + 1), m = k + 1
      PROVE  new[m].asked - new[k].asked >= Interval
  <2>1. CASE m <= n
    <3>1. k \in 1..n /\ m \in 1..n
      BY <1>1, <1>5, <2>1
    <3>2. gs[m].asked - gs[k].asked >= Interval
      BY <1>5, <3>1 DEF Slow, n
    <3> QED
      BY <1>3, <3>1, <3>2
  <2>2. CASE m = n + 1
    <3>1. k = n /\ n > 0 /\ n \in 1..n
      BY <1>1, <1>5, <2>2
    <3> QED
      BY <1>3, <1>4, <2>2, <3>1
  <2> QED
    BY <1>1, <2>1, <2>2
<1>6. ASSUME NEW k \in 1..(n + 1), NEW m \in 1..(n + 1), m = k + MaxFailures
      PROVE  \E j \in k..(m - 1) : new[j + 1].checked - new[j].checked >= Lockout
  <2>1. CASE m <= n
    <3>0. k \in 1..n /\ m \in 1..n
      BY <1>1, <1>6, <2>1
    <3>1. PICK j \in k..(m - 1) : gs[j + 1].checked - gs[j].checked >= Lockout
      BY <1>6, <3>0 DEF Slow, n
    <3>2. j \in 1..n /\ j + 1 \in 1..n
      BY <1>1, <3>0
    <3> QED
      BY <1>3, <3>1, <3>2
  <2>2. CASE m = n + 1 /\ f = 0
    <3>1. n > 0 /\ n \in k..(m - 1) /\ n \in 1..n
      BY <1>1, <1>6, <2>2
    <3> QED
      BY <1>3, <1>4, <2>2, <3>1
  <2>3. CASE m = n + 1 /\ f > 0
    <3>1. f < n /\ n - f \in k..(m - 1) /\ n - f \in 1..n /\ n - f + 1 \in 1..n
      BY <1>1, <1>6, <2>3
    <3>2. new[(n - f) + 1].checked - new[n - f].checked >= Lockout
      BY <1>3, <1>4, <2>3, <3>1
    <3> QED
      BY <3>1, <3>2
  <2> QED
    BY <1>1, <2>1, <2>2, <2>3
<1>7. Slow(new)
  BY <1>3, <1>5, <1>6 DEF Slow
<1>8. Fail(u).last_request = u.last_request
  BY <1>1 DEF Fail, Users
<1>9. Counted(Fail(u), new)
  <2>1. CASE f + 1 >= MaxFailures
    <3>1. Fail(u).failures = 0 /\ Fail(u).locked_until = now + Lockout
      BY <2>1 DEF Fail, Users, f
    <3> QED
      BY <1>1, <1>3, <1>4, <1>8, <3>1 DEF Counted
  <2>2. CASE ~(f + 1 >= MaxFailures)
    <3>1. Fail(u).failures = f + 1 /\ Fail(u).locked_until = u.locked_until
      BY <2>2 DEF Fail, Users, f
    <3>2. f < n => new[(n + 1) - (f + 1) + 1].checked - new[(n + 1) - (f + 1)].checked
                      >= Lockout
      <4>1. CASE f = 0 /\ 0 < n
        <5>1. (n + 1) - (f + 1) + 1 = n + 1 /\ (n + 1) - (f + 1) = n /\ n \in 1..n
          BY <1>1, <4>1
        <5> QED
          BY <1>3, <1>4, <4>1, <5>1
      <4>2. CASE 0 < f /\ f < n
        <5>1. /\ (n + 1) - (f + 1) + 1 = n - f + 1 /\ (n + 1) - (f + 1) = n - f
              /\ n - f \in 1..n /\ n - f + 1 \in 1..n
          BY <1>1, <4>2
        <5> QED
          BY <1>3, <1>4, <4>2, <5>1
      <4> QED
        BY <1>1, <4>1, <4>2
    <3> QED
      BY <1>1, <1>3, <1>4, <1>8, <3>1, <3>2 DEF Counted
  <2> QED
    BY <1>1, <2>1, <2>2
<1> QED
  BY <1>7, <1>9 DEF new, guess

\* A redeem attempt answers one gateway and leaves the others' requests apart from
\* the one it answers.
LEMMA RedeemOthers ==
  ASSUME TypeOK, NEW g \in Gateway, pc[g] = "redeem", NEW s \in State,
         Change(g, s, "saving"), asked' = [asked EXCEPT ![g] = Nothing]
  PROVE  /\ Busy(g) /\ ~Busy(g)'
         /\ MarkOf(g) = StateOf(g).last_request
         /\ \A h \in Gateway : Busy(h)' =>
               /\ h # g /\ Busy(h) /\ AcctOf(h)' = AcctOf(h) /\ AcctOf(h) \in Account
               /\ MarkOf(h)' = MarkOf(h) /\ MarkOf(h) \in Int
         /\ MarksApart =>
               \A h \in Gateway : Busy(h)' /\ AcctOf(h) = AcctOf(g) =>
                                     MarkOf(h) # MarkOf(g)
<1>1. g \in Proc /\ pc'[g] = "saving"
  BY ChangeTypes DEF Proc
<1>2. Busy(g) /\ ~Busy(g)'
  BY <1>1 DEF Busy
<1>3. \A h \in Gateway \ {g} : asked'[h] = asked[h]
  BY DEF TypeOK
<1>4. \A h \in Gateway : Busy(h)' =>
         /\ h # g /\ Busy(h) /\ AcctOf(h)' = AcctOf(h) /\ AcctOf(h) \in Account
         /\ MarkOf(h)' = MarkOf(h) /\ MarkOf(h) \in Int
  BY <1>1, <1>2, <1>3, OthersStay
<1> QED
  BY <1>2, <1>4 DEF MarkOf, AcctOf, StateOf, MarksApart

LEMMA RedeemInvalidOrderly ==
  ASSUME Inv, Orderly, NEW g \in Gateway, RedeemInvalid(g)
  PROVE  Orderly'
<1> DEFINE a == AcctOf(g)
           u == mem[g].users[a]
           s == [mem[g] EXCEPT !.users[a] = Fail(u)]
           gs == guesses[a]
           guess == [asked |-> u.last_request, checked |-> now]
<1>1. /\ TypeOK /\ g \in Proc /\ mem[g] \in State /\ a \in Account /\ now \in Nat
      /\ pc[g] = "redeem" /\ StateOf(g) = u /\ u \in Users
      /\ u.locked_until <= now
      /\ UNCHANGED <<now, issued, admitted, base>>
      /\ asked' = [asked EXCEPT ![g] = Nothing]
      /\ guesses' = [guesses EXCEPT ![a] = Append(gs, guess)]
      /\ Change(g, s, "saving")
  BY AskedTypes DEF Inv, TypeOK, RedeemInvalid, AcctOf, StateOf
<1>2. Fail(u) \in Users /\ Fail(u).last_request = u.last_request
  BY <1>1, FailType DEF Fail, Users
<1>3. s \in State
  BY <1>1, <1>2, UserChange
<1>4. /\ s.paired = mem[g].paired /\ s.pending = mem[g].pending
      /\ s.users[a] = Fail(u)
      /\ \A b \in Account \ {a} : s.users[b] = mem[g].users[b]
  BY <1>1, <1>2, StateParts DEF State
<1>5. gs \in Seq([asked : Int, checked : Nat])
  BY <1>1 DEF TypeOK
<1>6. /\ guesses'[a] = Append(gs, guess)
      /\ \A b \in Account \ {a} : guesses'[b] = guesses[b]
  BY <1>1 DEF TypeOK
<1>7. mem'[g] = s
  BY <1>1, <1>3, ChangeTypes
<1>8. /\ Busy(g) /\ ~Busy(g)' /\ MarkOf(g) = u.last_request
      /\ \A h \in Gateway : Busy(h)' =>
            /\ h # g /\ Busy(h) /\ AcctOf(h)' = AcctOf(h) /\ AcctOf(h) \in Account
            /\ MarkOf(h)' = MarkOf(h) /\ MarkOf(h) \in Int
      /\ MarksApart =>
            \A h \in Gateway : Busy(h)' /\ AcctOf(h) = a => MarkOf(h) # MarkOf(g)
  BY <1>1, <1>3, RedeemOthers
<1>9. Append(gs, guess)[Len(Append(gs, guess))] = guess
  BY <1>5
<1> HIDE DEF s, a
<1>10. ASSUME ~clobbered' PROVE Current(mem[g])' /\ MarksApart' /\ Past'
  <2>1. Current(mem[g]) /\ MarksApart /\ Past
    BY <1>1, <1>10, ChangeTakes
  <2>2. /\ Len(gs) > 0 => u.last_request - gs[Len(gs)].asked >= Interval
        /\ Counted(u, gs) /\ Slow(gs)
    BY <1>1, <1>8, <2>1 DEF Current, Tallied, Marked, Past, a
  <2>3. Slow(Append(gs, guess)) /\ Counted(Fail(u), Append(gs, guess))
    BY <1>1, <1>5, <2>2, GuessCounted
  <2>4. Past'
    BY <1>1, <1>6, <2>1, <2>3 DEF Past
  <2>5. Redeemed(mem[g])'
    BY <1>1, <1>4, <1>7, <2>1 DEF Current, Redeemed
  <2>6. Tallied(mem[g])'
    BY <1>1, <1>4, <1>6, <1>7, <2>1, <2>3 DEF Current, Tallied
  <2>7. ASSUME NEW h \in Gateway, Busy(h)' PROVE Marked(mem[g], h)'
    <3>1. CASE AcctOf(h) = a
      BY <1>1, <1>2, <1>4, <1>7, <1>8, <2>1, <2>7, <3>1 DEF Current, Marked
    <3>2. CASE AcctOf(h) # a
      BY <1>1, <1>4, <1>6, <1>7, <1>8, <2>1, <2>7, <3>2 DEF Current, Marked
    <3> QED
      BY <3>1, <3>2
  <2>8. MarksApart'
    BY <1>1, <1>8, <2>1 DEF MarksApart
  <2> QED
    BY <2>4, <2>5, <2>6, <2>7, <2>8 DEF Current
<1> QED
  BY <1>1, <1>3, <1>10, ChangeMakes

LEMMA RedeemValidOrderly ==
  ASSUME Inv, Orderly, NEW g \in Gateway, RedeemValid(g)
  PROVE  Orderly'
<1> DEFINE a == AcctOf(g)
           c == asked[g][2]
           s == Pair(mem[g], a, c)
<1>1. /\ TypeOK /\ g \in Proc /\ mem[g] \in State /\ a \in Account /\ now \in Nat
      /\ c \in Code /\ pc[g] = "redeem" /\ StateOf(g) = mem[g].users[a]
      /\ mem[g].users[a] \in Users /\ Valid(g, c)
      /\ UNCHANGED <<now, issued, base>>
      /\ asked' = [asked EXCEPT ![g] = Nothing]
      /\ guesses' = [guesses EXCEPT ![a] = <<>>]
      /\ admitted' \in {admitted, admitted \union {<<c, a>>}}
      /\ Change(g, s, "saving")
  BY AskedTypes DEF Inv, TypeOK, RedeemValid, Valid, AcctOf, StateOf
<1>2. /\ s \in State /\ s.paired = mem[g].paired \union {a}
      /\ s.pending = [mem[g].pending EXCEPT ![c] = Unissued]
  <2>1. mem[g] \in State /\ a \in Account /\ c \in Code
    BY <1>1
  <2> HIDE DEF a, c
  <2> QED
    BY <2>1, PairType
<1>3. /\ s.users[a] = NewUser
      /\ \A b \in Account \ {a} : s.users[b] = mem[g].users[b]
  BY <1>1, StateParts DEF Pair
\* The code is in the copy, so the operator was given it and nobody redeemed it.
<1>4. mem[g].pending[c] # Unissued
  BY <1>1, PairingAssumption DEF Valid, Unissued
<1>5. issued[c] # Unissued
  BY <1>1, <1>4 DEF Inv, Genuine
<1>6. /\ guesses'[a] = <<>>
      /\ \A b \in Account \ {a} : guesses'[b] = guesses[b]
  BY <1>1 DEF TypeOK
<1>7. mem'[g] = s
  BY <1>1, <1>2, ChangeTypes
<1>8. /\ Busy(g) /\ ~Busy(g)' /\ MarkOf(g) = mem[g].users[a].last_request
      /\ \A h \in Gateway : Busy(h)' =>
            /\ h # g /\ Busy(h) /\ AcctOf(h)' = AcctOf(h) /\ AcctOf(h) \in Account
            /\ MarkOf(h)' = MarkOf(h) /\ MarkOf(h) \in Int
      /\ MarksApart =>
            \A h \in Gateway : Busy(h)' /\ AcctOf(h) = a => MarkOf(h) # MarkOf(g)
  BY <1>1, <1>2, RedeemOthers
<1> HIDE DEF s, a, c
<1>9. ASSUME ~clobbered' PROVE Current(mem[g])' /\ MarksApart' /\ Past'
  <2>1. Current(mem[g]) /\ MarksApart /\ Past
    BY <1>1, <1>9, ChangeTakes
  <2>2. \A x \in admitted : x[1] # c /\ x[1] \in Code
    BY <1>1, <1>4, <2>1 DEF Current, Redeemed, TypeOK
  <2>3. Past'
    <3>1. Slow(<<>>)
      BY DEF Slow
    <3>2. \A b \in Account : Slow(guesses'[b])
      BY <1>6, <2>1, <3>1 DEF Past
    <3>3. \A x, y \in admitted' : x[1] = y[1] => x = y
      BY <1>1, <2>1, <2>2 DEF Past
    <3>4. \A x \in admitted' : issued'[x[1]] # Unissued
      BY <1>1, <1>5, <2>1 DEF Past
    <3> QED
      BY <3>2, <3>3, <3>4 DEF Past
  <2>4. Redeemed(mem[g])'
    <3>1. \A x \in admitted : x[2] \in s.paired /\ s.pending[x[1]] = Unissued
      BY <1>1, <1>2, <2>1, <2>2, StateParts DEF Current, Redeemed
    <3>2. a \in s.paired /\ s.pending[c] = Unissued
      BY <1>1, <1>2, StateParts
    <3> QED
      BY <1>1, <1>7, <3>1, <3>2 DEF Redeemed
  <2>5. Tallied(mem[g])'
    <3>1. Counted(NewUser, <<>>)
      BY DEF Counted, NewUser
    <3> QED
      BY <1>1, <1>3, <1>6, <1>7, <2>1, <3>1 DEF Current, Tallied
  <2>6. ASSUME NEW h \in Gateway, Busy(h)' PROVE Marked(mem[g], h)'
    <3>1. CASE AcctOf(h) = a
      <4>1. MarkOf(h) < now
        BY <1>8, <2>1, <2>6, <3>1 DEF Current, Marked
      <4> QED
        BY <1>1, <1>6, <1>7, <1>8, <2>6, <3>1, <4>1 DEF Marked
    <3>2. CASE AcctOf(h) # a
      BY <1>1, <1>3, <1>6, <1>7, <1>8, <2>1, <2>6, <3>2 DEF Current, Marked
    <3> QED
      BY <3>1, <3>2
  <2>7. MarksApart'
    BY <1>1, <1>8, <2>1 DEF MarksApart
  <2> QED
    BY <2>3, <2>4, <2>5, <2>6, <2>7 DEF Current
<1> QED
  BY <1>1, <1>2, <1>9, ChangeMakes

LEMMA OrderlyStep ==
  ASSUME Inv, TypeOK', Orderly, [Next]_vars
  PROVE  Orderly'
<1> USE DEF Writing, Busy
<1>0. TypeOK
  BY DEF Inv
<1>1. ASSUME NEW p \in Proc, Load(p) PROVE Orderly'
  <2>1. /\ UNCHANGED <<file, asked, now, issued, admitted, guesses>>
        /\ now \in Nat
        /\ ~clobbered' => ~clobbered
    BY <1>0, <1>1 DEF Load, TypeOK
  <2>2. /\ mem'[p] = base'[p] /\ pc'[p] = "ready"
        /\ \A q \in Proc \ {p} : mem'[q] = mem[q] /\ base'[q] = base[q] /\ pc'[q] = pc[q]
    BY <1>0, <1>1 DEF Load, TypeOK
  <2>3. \A g \in Gateway : Busy(g)' => Busy(g) /\ mem'[g] = mem[g]
    BY <2>2 DEF Proc
  <2> QED
    BY <1>0, <2>1, <2>2, <2>3, QuietStep
<1>2. ASSUME NEW p \in Proc, WriteAndExit(p) PROVE Orderly'
  <2>1. /\ p \in Cli /\ pc[p] = "saving" /\ file' = mem[p] /\ Down(p)
        /\ UNCHANGED <<asked, now, admitted, guesses, clobbered>>
    BY <1>2 DEF WriteAndExit
  <2>2. /\ mem'[p] = base'[p] /\ pc'[p] = "down"
        /\ \A q \in Proc \ {p} : mem'[q] = mem[q] /\ base'[q] = base[q] /\ pc'[q] = pc[q]
    BY <1>0, <2>1, DownTypes
  <2>3. \A c \in Code : issued[c] # Unissued => issued'[c] # Unissued
    BY <1>2, <2>1 DEF WriteAndExit, Inv, Secret
  <2>4. \A g \in Gateway : Busy(g)' => Busy(g) /\ mem'[g] = mem[g]
    BY <2>2 DEF Proc
  <2> QED
    BY <1>0, <2>1, <2>2, <2>3, <2>4, SaveStep
<1>3. ASSUME NEW p \in Proc, Exit(p) PROVE Orderly'
  <2>1. /\ Down(p) /\ UNCHANGED <<file, now, issued, admitted, guesses, clobbered>>
        /\ now \in Nat /\ \A g \in Gateway \ {p} : asked'[g] = asked[g]
    BY <1>0, <1>3 DEF Exit, TypeOK
  <2>2. /\ mem'[p] = base'[p] /\ pc'[p] = "down"
        /\ \A q \in Proc \ {p} : mem'[q] = mem[q] /\ base'[q] = base[q] /\ pc'[q] = pc[q]
    BY <1>0, <2>1, DownTypes
  <2>3. \A g \in Gateway : Busy(g)' => /\ Busy(g) /\ mem'[g] = mem[g]
                                       /\ asked'[g] = asked[g]
    BY <2>1, <2>2 DEF Proc
  <2> QED
    BY <1>0, <2>1, <2>2, <2>3, QuietStep
<1>4. ASSUME NEW g \in Gateway, Write(g) PROVE Orderly'
  <2>1. /\ g \in Proc /\ Writing(g) /\ file' = mem[g]
        /\ base' = [base EXCEPT ![g] = mem[g]]
        /\ UNCHANGED <<mem, asked, now, issued, admitted, guesses, clobbered>>
    BY <1>4 DEF Write, Proc
  <2>2. /\ mem'[g] = base'[g] /\ pc'[g] \in {"redeem", "ready"}
        /\ pc'[g] = "redeem" => pc[g] = "marking"
        /\ \A q \in Proc \ {g} : mem'[q] = mem[q] /\ base'[q] = base[q] /\ pc'[q] = pc[q]
    BY <1>0, <1>4, <2>1 DEF TypeOK, Write
  <2>3. \A h \in Gateway : Busy(h)' => Busy(h)
    BY <2>2 DEF Proc
  <2> QED
    BY <1>0, <2>1, <2>2, <2>3, SaveStep
<1>5. ASSUME NEW g \in Gateway, WriteFails(g) \/ RedeemLocked(g) PROVE Orderly'
  <2>1. /\ g \in Proc /\ now \in Nat
        /\ UNCHANGED <<file, mem, now, issued, admitted, guesses, base, clobbered>>
    BY <1>0, <1>5 DEF WriteFails, RedeemLocked, history, Proc, TypeOK
  <2>2. /\ pc' = [pc EXCEPT ![g] = "ready"]
        /\ asked' = [asked EXCEPT ![g] = Nothing]
    BY <1>5 DEF WriteFails, RedeemLocked
  <2>3. /\ pc'[g] = "ready"
        /\ \A q \in Proc \ {g} : pc'[q] = pc[q]
        /\ \A h \in Gateway \ {g} : asked'[h] = asked[h]
    BY <1>0, <2>1, <2>2 DEF TypeOK
  <2>4. \A h \in Gateway : Busy(h)' => Busy(h) /\ asked'[h] = asked[h]
    BY <2>3 DEF Proc
  <2> QED
    BY <1>0, <2>1, <2>3, <2>4, QuietStep
<1>6. CASE Tick
  <2>1. now' = now + 1 /\ now \in Nat /\ UNCHANGED <<file, mem, pc, asked, history>>
    BY <1>0, <1>6 DEF Tick, TypeOK
  <2>2. now' \in Nat /\ now <= now'
    BY <2>1
  <2> QED
    BY <1>0, <2>1, <2>2, QuietStep DEF history
<1>7. CASE UNCHANGED vars
  <2>1. now \in Nat /\ UNCHANGED <<file, mem, pc, asked, now, history>>
    BY <1>0, <1>7 DEF TypeOK, vars
  <2> QED
    BY <1>0, <2>1, QuietStep DEF history
<1> QED
  BY <1>1, <1>2, <1>3, <1>4, <1>5, <1>6, <1>7, NewCodeOrderly, MarkOrderly,
     RedeemInvalidOrderly, RedeemValidOrderly
  DEF Next, HandlePair

LEMMA OrderlyInvariance == Spec => []Orderly
<1>1. Init => Orderly
  <2> SUFFICES ASSUME Init PROVE Orderly
    OBVIOUS
  <2>1. /\ file = Empty /\ admitted = {} /\ \A a \in Account : guesses[a] = <<>>
        /\ \A p \in Proc : mem[p] = base[p] /\ pc[p] = "down"
    BY DEF Init
  <2>2. \A p \in Proc : ~Writing(p)
    BY <2>1 DEF Writing
  <2>3. \A g \in Gateway : ~Busy(g)
    BY <2>1 DEF Busy, Proc
  <2>4. Tallied(file)
    BY <2>1 DEF Tallied, Counted, Empty, NewUser
  <2>5. Current(file)
    BY <2>1, <2>3, <2>4 DEF Current, Redeemed
  <2>6. Slow(<<>>)
    BY DEF Slow
  <2> QED
    BY <2>1, <2>2, <2>3, <2>5, <2>6 DEF Orderly, Settled, MarksApart, Past
<1> QED
  BY <1>1, OrderlyStep, Invariance, TypeCorrect, PTL DEF Spec

\* While no process overwrites what another saved, a code pairs one account, and
\* the pairing stays in the file.
THEOREM CodesAreSpent == Spec => []CodesPairOnce
<1>1. Orderly => CodesPairOnce
  BY DEF Orderly, Settled, Current, Redeemed, Past, CodesPairOnce
<1> QED
  BY <1>1, OrderlyInvariance, PTL

\* Under the same condition wrong codes are an Interval apart, and after every
\* MaxFailures of them there is a pause of a Lockout.
THEOREM GuessesAreSlow == Spec => []GuessingIsSlow
<1>1. Orderly => GuessingIsSlow
  BY DEF Orderly, Past, Slow, GuessingIsSlow
<1> QED
  BY <1>1, OrderlyInvariance, PTL
=============================================================================
