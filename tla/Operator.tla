------------------------------ MODULE Operator ------------------------------
(***************************************************************************)
(* security/operator.py, memory/t0.py and cli/admin_cmd.py: the operator's *)
(* key pair and the claims it signs.  Each command is a process; between   *)
(* reading a key file, verifying and writing, others run, one of them      *)
(* perhaps a new keygen.  VerifiedMemory has what becomes of the claims    *)
(* among other memories; here is who signed them, and when.                *)
(***************************************************************************)
EXTENDS Integers, FiniteSets

CONSTANTS
    Command,    \* processes of `milyonus admin`
    Path,       \* where a private key may be
    Key,        \* key pairs: each is generated at most once
    Claim,      \* ids of staged items
    ReviewGap,  \* t0_review_seconds
    MaxTime     \* bound: the clock

NoKey == "none"

VARIABLES
    backend,    \* cryptography is installed
    private,    \* the key in the file at each path
    pub,        \* the key in operator.pub
    command,    \* what each command is at
    claims,     \* the items: state, created_at, verified_at, signature, key_fingerprint
    time,
    (* history *)
    minted,     \* keys that were generated
    installed,  \* keys that were in operator.pub
    raced,      \* claims staged while operator.pub changed
    upset       \* keygen died, overlapped with another, or a key file was lost

vars == <<backend, private, pub, command, claims, time, minted, installed, raced, upset>>

Idle == [pc |-> "idle", claim |-> {}, key |-> NoKey]
NoClaim == [state |-> "none", created |-> 0, verified |-> 0, signature |-> NoKey,
            fingerprint |-> NoKey, staged |-> NoKey]

Init ==
    /\ backend \in BOOLEAN
    /\ private = [p \in Path |-> NoKey] /\ pub = NoKey
    /\ command = [c \in Command |-> Idle]
    /\ claims = [i \in Claim |-> NoClaim]
    /\ time = 0
    /\ minted = {} /\ installed = {} /\ raced = {} /\ upset = FALSE

Ready(c) == command[c] = Idle /\ backend    \* without it every command ends at once
Goes(c, pc, i, key) == command' = [command EXCEPT ![c] = [pc |-> pc, claim |-> {i}, key |-> key]]
Ends(c) == command' = [command EXCEPT ![c] = Idle]
At(c, pc, i) == command[c].pc = pc /\ command[c].claim = {i}
-----------------------------------------------------------------------------
(* keygen *)

\* generate_keypair writes the private key over what is there ...
GenerateKeypair(c, path) ==
    /\ Ready(c)
    /\ \E key \in Key \ minted :
          /\ private' = [private EXCEPT ![path] = key]
          /\ minted' = minted \union {key}
          /\ command' = [command EXCEPT ![c] = [Idle EXCEPT !.pc = "install", !.key = key]]
    /\ upset' = (upset \/ \E d \in Command : command[d].pc = "install")
    /\ UNCHANGED <<backend, pub, claims, time, installed, raced>>

\* ... and then the public one.
Install(c) ==
    /\ command[c].pc = "install"
    /\ pub' = command[c].key
    /\ installed' = installed \union {pub'}
    /\ raced' = raced \union {i \in Claim : \E d \in Command : At(d, "stage", i)}
    /\ Ends(c)
    /\ UNCHANGED <<backend, private, claims, time, minted, upset>>

\* The operator takes a key away to another path, over what is there.
Carry(from, to) ==
    /\ private[from] # NoKey /\ from # to
    /\ upset' = (upset \/ private[to] # NoKey)
    /\ private' = [private EXCEPT ![to] = private[from], ![from] = NoKey]
    /\ UNCHANGED <<backend, pub, command, claims, time, minted, installed, raced>>
-----------------------------------------------------------------------------
(* t0 add and t0 activate: sign with the key file, verify, write *)

T0Add(c, path, i) ==
    /\ Ready(c) /\ private[path] # NoKey
    /\ claims[i] = NoClaim /\ \A d \in Command : command[d].claim # {i}
    /\ Goes(c, "sign", i, private[path])
    /\ UNCHANGED <<backend, private, pub, claims, time, minted, installed, raced, upset>>

T0Activate(c, path, i) ==
    /\ Ready(c) /\ private[path] # NoKey
    /\ claims[i] # NoClaim
    /\ Goes(c, "countersign", i, private[path])
    /\ UNCHANGED <<backend, private, pub, claims, time, minted, installed, raced, upset>>

\* verify: the signature of some key against the one installed by now.
Verify(key) == pub # NoKey /\ key = pub

\* stage_t0, up to the store's.
StageT0(c, i) ==
    /\ At(c, "sign", i)
    /\ IF Verify(command[c].key) THEN Goes(c, "stage", i, command[c].key) ELSE Ends(c)
    /\ UNCHANGED <<backend, private, pub, claims, time, minted, installed, raced, upset>>

\* The fingerprint is of the file as it is now.
Stage(c, i) ==
    /\ At(c, "stage", i)
    /\ claims' = [claims EXCEPT ![i] =
                    [NoClaim EXCEPT !.state = "t0_staged", !.created = time, !.fingerprint = pub,
                                    !.signature = command[c].key, !.staged = command[c].key]]
    /\ Ends(c)
    /\ UNCHANGED <<backend, private, pub, time, minted, installed, raced, upset>>

\* Mutant: a second signature is enough.
ActivateAtOnce(c, i) ==
    /\ At(c, "countersign", i)
    /\ IF claims[i].state = "t0_staged" /\ Verify(command[c].key)
       THEN Goes(c, "activate", i, command[c].key) ELSE Ends(c)
    /\ UNCHANGED <<backend, private, pub, claims, time, minted, installed, raced, upset>>

\* activate_t0, up to the store's: staged still, the gap over, and signed.
ActivateT0(c, i) ==
    /\ At(c, "countersign", i)
    /\ IF /\ claims[i].state = "t0_staged"
          /\ time - claims[i].created >= ReviewGap
          /\ Verify(command[c].key)
       THEN Goes(c, "activate", i, command[c].key) ELSE Ends(c)
    /\ UNCHANGED <<backend, private, pub, claims, time, minted, installed, raced, upset>>

\* By id, and over the first signature.
Activate(c, i) ==
    /\ At(c, "activate", i)
    /\ claims' = [claims EXCEPT ![i] = [@ EXCEPT !.state = "active", !.verified = time,
                                                 !.signature = command[c].key]]
    /\ Ends(c)
    /\ UNCHANGED <<backend, private, pub, time, minted, installed, raced, upset>>
-----------------------------------------------------------------------------
\* A command is broken off.
Die(c) ==
    /\ command[c] # Idle
    /\ upset' = (upset \/ command[c].pc = "install")
    /\ Ends(c)
    /\ UNCHANGED <<backend, private, pub, claims, time, minted, installed, raced>>

Pass ==
    /\ time < MaxTime
    /\ time' = time + 1
    /\ UNCHANGED <<backend, private, pub, command, claims, minted, installed, raced, upset>>

Next ==
    \/ Pass
    \/ \E from, to \in Path : Carry(from, to)
    \/ \E c \in Command :
          \/ Install(c) \/ Die(c)
          \/ \E path \in Path : GenerateKeypair(c, path)
          \/ \E i \in Claim : \/ StageT0(c, i) \/ Stage(c, i) \/ ActivateT0(c, i) \/ Activate(c, i)
                              \/ \E path \in Path : T0Add(c, path, i) \/ T0Activate(c, path, i)

Spec == Init /\ [][Next]_vars
-----------------------------------------------------------------------------
\* Whatever keys come and go between: a claim is active only if it was signed and, a
\* review gap later, signed again, both times with a key that was the installed one;
\* its fingerprint tells the first of them unless a keygen came in between.  And the
\* operator keeps a key that verifies, unless keygens died or overlapped or the key's
\* file was lost.
OperatorSigns ==
    /\ \A i \in Claim : claims[i] # NoClaim =>
          /\ {claims[i].staged, claims[i].signature} \subseteq installed
          /\ i \in raced \/ claims[i].fingerprint = claims[i].staged
          /\ claims[i].state = "active" => claims[i].verified - claims[i].created >= ReviewGap
    /\ ~upset /\ (\A c \in Command : command[c].pc # "install") /\ pub # NoKey =>
          \E path \in Path : private[path] = pub
=============================================================================
