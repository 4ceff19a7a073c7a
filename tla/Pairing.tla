------------------------------- MODULE Pairing -------------------------------
(***************************************************************************)
(* DM pairing: gateway/pairing.py, the /pair handler of gateway/server.py  *)
(* and the command `gateway pair`.  The state is one JSON file.  Every     *)
(* process reads it once, when it starts, works on its own copy and        *)
(* overwrites the whole file after each change: one gateway per channel,   *)
(* and one short process for each code the operator makes.                 *)
(***************************************************************************)
EXTENDS Integers, Sequences, FiniteSets

CONSTANTS
    Gateway,       \* gateway processes
    Cli,           \* processes of the operator's commands
    Channel,       \* messaging channels
    Serves,        \* the channel of each gateway
    User,          \* external user ids
    Code,          \* the codes there will be
    Wrong,         \* what a user types who has no code
    None,          \* no user, no code
    Torn,          \* a file cut short, which no JSON parser accepts
    TTL,           \* _CODE_TTL
    Interval,      \* _REQUEST_INTERVAL
    MaxFailures,   \* _MAX_FAILURES
    Lockout,       \* _LOCKOUT
    MaxTime,       \* bound: the clock stops here
    MaxAsks,       \* bound: /pair messages handled
    MaxStarts      \* bound: processes started

ASSUME PairingAssumption ==
    /\ Serves \in [Gateway -> Channel]
    /\ Gateway \intersect Cli = {}
    /\ Wrong \notin Code /\ None \notin Channel \union User
    /\ TTL \in Nat /\ Interval \in Nat \ {0} /\ Lockout \in Nat
    /\ MaxFailures \in Nat \ {0}
    /\ MaxTime \in Nat /\ MaxAsks \in Nat /\ MaxStarts \in Nat

Proc == Gateway \union Cli
Account == Channel \X User      \* the keys "chan:uid"
Nothing == <<None, None>>
Unissued == [channel |-> None, created_at |-> 0]

VARIABLES
    file,       \* pairing.json
    mem,        \* each process's PairingState
    pc,         \* what each process is doing
    asked,      \* the user and code of the /pair a gateway is handling
    now,        \* the clock
    asks,       \* how many /pair messages there were
    starts,     \* how many processes were started
    (* history: no code reads it; NewCode and Mark ask `issued` only which codes
       are still unmade, and which a user can have been told *)
    issued,     \* the codes the operator was given
    admitted,   \* <<code, account>>: an account paired by a fresh code of its channel
    guesses,    \* each account's wrong codes since it last paired: when it asked,
                \* and when the code was checked
    base,       \* what each process last read from or wrote to the file
    clobbered   \* a torn file was read, or a save overwrote another process's

history == <<issued, admitted, guesses, base, clobbered>>
vars == <<file, mem, pc, asked, now, asks, starts, history>>

\* UserState(); last_request = 0 is so long ago that it never matters.
NewUser == [failures |-> 0, locked_until |-> 0, last_request |-> -Interval]
Empty == [paired |-> {}, pending |-> [c \in Code |-> Unissued],
          users |-> [a \in Account |-> NewUser]]

Init ==
    /\ file = Empty
    /\ mem = [p \in Proc |-> Empty]
    /\ pc = [p \in Proc |-> "down"]
    /\ asked = [g \in Gateway |-> Nothing]
    /\ now = 0
    /\ asks = 0
    /\ starts = 0
    /\ issued = [c \in Code |-> Unissued]
    /\ admitted = {}
    /\ guesses = [a \in Account |-> <<>>]
    /\ base = [p \in Proc |-> Empty]
    /\ clobbered = FALSE
-----------------------------------------------------------------------------
(* PairingManager over the file *)

\* _load: a missing or unreadable file is an empty state.
Load(p) ==
    LET state == IF file = Torn THEN Empty ELSE file
    IN  /\ pc[p] = "down"
        /\ starts < MaxStarts
        /\ starts' = starts + 1
        /\ mem' = [mem EXCEPT ![p] = state]
        /\ pc' = [pc EXCEPT ![p] = "ready"]
        /\ base' = [base EXCEPT ![p] = state]
        /\ clobbered' = (clobbered \/ file = Torn)
        /\ UNCHANGED <<file, asked, now, asks, issued, admitted, guesses>>

\* A change of p's copy, and _save as far as write_text's truncation.
Change(p, state, next) ==
    /\ mem' = [mem EXCEPT ![p] = state]
    /\ file' = Torn
    /\ pc' = [pc EXCEPT ![p] = next]
    /\ clobbered' = (clobbered \/ file # base[p])

\* p ends, and its memory with it.
Down(p) ==
    /\ mem' = [mem EXCEPT ![p] = Empty]
    /\ base' = [base EXCEPT ![p] = Empty]
    /\ pc' = [pc EXCEPT ![p] = "down"]

\* The rest of _save.  A gateway goes on, to redeem or to its next message ...
Write(g) ==
    /\ g \in Gateway /\ pc[g] \in {"marking", "saving"}
    /\ file' = mem[g]
    /\ base' = [base EXCEPT ![g] = mem[g]]
    /\ pc' = [pc EXCEPT ![g] = IF @ = "marking" THEN "redeem" ELSE "ready"]
    /\ UNCHANGED <<mem, asked, now, asks, starts, issued, admitted, guesses, clobbered>>

\* ... unless the write raises: the handler ends, the copy stays changed ...
WriteFails(g) ==
    /\ g \in Gateway /\ pc[g] \in {"marking", "saving"}
    /\ pc' = [pc EXCEPT ![g] = "ready"]
    /\ asked' = [asked EXCEPT ![g] = Nothing]
    /\ UNCHANGED <<file, mem, now, asks, starts, history>>

\* ... and an operator's command prints the code and is over.
WriteAndExit(p) ==
    /\ p \in Cli /\ pc[p] = "saving"
    /\ file' = mem[p]
    /\ issued' = [c \in Code |-> IF mem[p].pending[c] # base[p].pending[c]
                                 THEN mem[p].pending[c] ELSE issued[c]]
    /\ Down(p)
    /\ UNCHANGED <<asked, now, asks, starts, admitted, guesses, clobbered>>

\* The process is stopped or killed, also halfway through a save.
Exit(p) ==
    /\ pc[p] # "down"
    /\ Down(p)
    /\ asked' = [g \in Gateway |-> IF g = p THEN Nothing ELSE asked[g]]
    /\ UNCHANGED <<file, now, asks, starts, issued, admitted, guesses, clobbered>>

\* new_code: a code that no process has made before.
NewCode(p, c, channel) ==
    /\ p \in Cli /\ pc[p] = "ready"
    /\ issued[c] = Unissued
    /\ \A q \in Proc : mem[q].pending[c] = Unissued
    /\ Change(p, [mem[p] EXCEPT !.pending[c] = [channel |-> channel,
                                               created_at |-> now]], "saving")
    /\ UNCHANGED <<asked, now, asks, starts, issued, admitted, guesses, base>>
-----------------------------------------------------------------------------
(* GatewayServer._handle_pair *)

Acct(g, u) == <<Serves[g], u>>
StateOf(g) == mem[g].users[Acct(g, asked[g][1])]

\* can_request, then mark_request, for a code that was given out or a wrong one.
Mark(g, u, c) ==
    /\ pc[g] = "ready"
    /\ c # Wrong => issued[c] # Unissued
    /\ now - mem[g].users[Acct(g, u)].last_request >= Interval
    /\ asks < MaxAsks
    /\ asks' = asks + 1
    /\ asked' = [asked EXCEPT ![g] = <<u, c>>]
    /\ Change(g, [mem[g] EXCEPT !.users[Acct(g, u)].last_request = now], "marking")
    /\ UNCHANGED <<now, starts, issued, admitted, guesses, base>>

\* redeem by a locked user: refused, whatever the code.
RedeemLocked(g) ==
    /\ pc[g] = "redeem"
    /\ StateOf(g).locked_until > now
    /\ pc' = [pc EXCEPT ![g] = "ready"]
    /\ asked' = [asked EXCEPT ![g] = Nothing]
    /\ UNCHANGED <<file, mem, now, asks, starts, history>>

\* Mutant: the channel of a code is not looked at.
ValidAnywhere(g, c) ==
    /\ c \in Code
    /\ mem[g].pending[c] # Unissued
    /\ now - mem[g].pending[c].created_at <= TTL

Valid(g, c) ==
    /\ c \in Code
    /\ mem[g].pending[c].channel = Serves[g]
    /\ now - mem[g].pending[c].created_at <= TTL

\* Mutant: failures are counted from zero again after any failure.
FailForgetful(u) == [u EXCEPT !.failures = IF @ + 1 >= MaxFailures THEN 0 ELSE @ + 1]

\* Mutant: the lock leaves the failures counted.
FailUncleared(u) ==
    IF u.failures + 1 >= MaxFailures
    THEN [u EXCEPT !.failures = @ + 1, !.locked_until = now + Lockout]
    ELSE [u EXCEPT !.failures = @ + 1]

\* The account after one more failure.
Fail(u) ==
    IF u.failures + 1 >= MaxFailures
    THEN [u EXCEPT !.failures = 0, !.locked_until = now + Lockout]
    ELSE [u EXCEPT !.failures = @ + 1]

RedeemInvalid(g) ==
    LET a == Acct(g, asked[g][1])
    IN  /\ pc[g] = "redeem"
        /\ StateOf(g).locked_until <= now
        /\ ~Valid(g, asked[g][2])
        /\ Change(g, [mem[g] EXCEPT !.users[a] = Fail(StateOf(g))], "saving")
        /\ guesses' = [guesses EXCEPT ![a] =
                           Append(@, [asked |-> StateOf(g).last_request, checked |-> now])]
        /\ asked' = [asked EXCEPT ![g] = Nothing]
        /\ UNCHANGED <<now, asks, starts, issued, admitted, base>>

\* Mutant: the code is not consumed.
PairKeepingCode(state, a, c) ==
    [state EXCEPT !.paired = @ \union {a}, !.users[a] = NewUser]

\* The account is paired, the code consumed, the failures forgotten.
Pair(state, a, c) ==
    [paired |-> state.paired \union {a},
     pending |-> [state.pending EXCEPT ![c] = Unissued],
     users |-> [state.users EXCEPT ![a] = NewUser]]

\* The operator's code c is for this channel and not older than TTL.
Fresh(c, channel) ==
    issued[c].channel = channel /\ now - issued[c].created_at <= TTL

RedeemValid(g) ==
    LET a == Acct(g, asked[g][1])
        c == asked[g][2]
    IN  /\ pc[g] = "redeem"
        /\ StateOf(g).locked_until <= now
        /\ Valid(g, c)
        /\ Change(g, Pair(mem[g], a, c), "saving")
        /\ admitted' = IF Fresh(c, Serves[g]) THEN admitted \union {<<c, a>>}
                                              ELSE admitted
        /\ guesses' = [guesses EXCEPT ![a] = <<>>]
        /\ asked' = [asked EXCEPT ![g] = Nothing]
        /\ UNCHANGED <<now, asks, starts, issued, base>>

Tick ==
    /\ now < MaxTime
    /\ now' = now + 1
    /\ UNCHANGED <<file, mem, pc, asked, asks, starts, history>>

-----------------------------------------------------------------------------
HandlePair(g) ==
    \/ \E u \in User, c \in Code \union {Wrong} : Mark(g, u, c)
    \/ RedeemLocked(g) \/ RedeemInvalid(g) \/ RedeemValid(g)
    \/ Write(g) \/ WriteFails(g)

Next ==
    \/ \E p \in Proc : Load(p) \/ WriteAndExit(p) \/ Exit(p)
    \/ \E p \in Cli, c \in Code, channel \in Channel : NewCode(p, c, channel)
    \/ \E g \in Gateway : HandlePair(g)
    \/ Tick

Spec == Init /\ [][Next]_vars
-----------------------------------------------------------------------------
(* Properties *)

State == [paired : SUBSET Account,
          pending : [Code -> {Unissued} \union [channel : Channel, created_at : Nat]],
          users : [Account -> [failures : 0..(MaxFailures - 1), locked_until : Nat,
                               last_request : Nat \union {-Interval}]]]

\* What no parser accepts is no state.
ASSUME TornAssumption == Torn \notin State

TypeOK ==
    /\ file \in State \union {Torn}
    /\ mem \in [Proc -> State]
    /\ pc \in [Proc -> {"down", "ready", "marking", "redeem", "saving"}]
    /\ asked \in [Gateway -> {Nothing} \union (User \X (Code \union {Wrong}))]
    /\ \A g \in Gateway : pc[g] \in {"marking", "redeem"} => asked[g] # Nothing
    /\ now \in Nat /\ asks \in Nat /\ starts \in Nat
    /\ issued \in [Code -> {Unissued} \union [channel : Channel, created_at : Nat]]
    /\ admitted \subseteq Code \X Account
    /\ guesses \in [Account -> Seq([asked : Int, checked : Nat])]
    /\ base \in [Proc -> State]
    /\ clobbered \in BOOLEAN

\* Default-deny survives everything that can happen to the file: whoever any
\* process, or the file, takes for paired has redeemed a code the operator made
\* for that channel at most TTL before, whatever stale copies were written back.
Paired(state) == state.paired \subseteq {x[2] : x \in admitted}
OnlyCodesAdmit == /\ \A p \in Proc : Paired(mem[p])
                  /\ file # Torn => Paired(file)

\* A code buys one lasting pairing: across restarts and crashes, as long as no process
\* has overwritten what another one saved, it pairs one account, and that pairing, once
\* saved, stays in the file.
CodesPairOnce ==
    ~clobbered =>
        /\ \A x, y \in admitted : x[1] = y[1] => x = y
        /\ file # Torn /\ (\A p \in Proc : pc[p] # "saving") =>
              {x[2] : x \in admitted} \subseteq file.paired

\* Guessing is slow: under the same condition an account's attempts are an
\* Interval apart, and among any MaxFailures + 1 wrong codes there is a pause of
\* a Lockout, even if the gateway is restarted in between.
GuessingIsSlow ==
    ~clobbered =>
        \A a \in Account : \A k, m \in 1..Len(guesses[a]) :
            /\ m = k + 1 =>
                  guesses[a][m].asked - guesses[a][k].asked >= Interval
            /\ m = k + MaxFailures =>
                  \E j \in k..(m - 1) :
                      guesses[a][j + 1].checked - guesses[a][j].checked >= Lockout

-----------------------------------------------------------------------------
(* What the documentation says and the code does not do (violation run) *)

\* cli/gateway_cmd.py:86 tells the operator: "Have the user send `/pair {code}` to
\* the bot. Code valid for 1 hour."  A fresh, unused code of the channel is not
\* refused as invalid or expired.
NewCodeWorks ==
    [][\A g \in Gateway :
         LET c == asked[g][2]
         IN  RedeemInvalid(g) /\ c \in Code /\ Fresh(c, Serves[g]) =>
                 \E x \in admitted : x[1] = c]_vars
=============================================================================
