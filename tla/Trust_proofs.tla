---------------------------- MODULE Trust_proofs ----------------------------
(***************************************************************************)
(* Two of the parts whose properties are about whose word counts, proved   *)
(* of Services.  Operator keys: whichever keys come and go between the     *)
(* steps of several commands, an active claim was signed twice by the      *)
(* operator, a review gap apart, and the operator keeps a key.  Recall:    *)
(* the prompt is packed by trust, whatever less trusted memories there     *)
(* are, and an answer tells of active memories and of one user's.          *)
(***************************************************************************)
EXTENDS Services, WellFoundedInduction, TLAPS

-----------------------------------------------------------------------------
(* Operator keys: claims are signed twice.                                 *)

NoKey == Signing!NoKey
NoClaim == Signing!NoClaim
KeyOrNone == Key \union {NoKey}

Commands == [pc : {"idle", "install", "sign", "stage", "countersign", "activate"},
             claim : SUBSET Claim, key : KeyOrNone]
Claims == [state : {"none", "t0_staged", "active"}, created : Nat, verified : Nat,
           signature : KeyOrNone, fingerprint : KeyOrNone, staged : KeyOrNone]

Installing(c) == command[c].pc = "install"
Signer(c) == command[c].pc \in {"sign", "stage"}
Kept(key) == \E path \in Path : private[path] = key

Typed == /\ private \in [Path -> KeyOrNone] /\ pub \in KeyOrNone
         /\ command \in [Command -> Commands] /\ claims \in [Claim -> Claims]
         /\ time \in Nat /\ upset \in BOOLEAN
         /\ \A c \in Command : Installing(c) => command[c].key \in Key

\* Between the checks of a new claim and its row nobody else is about it.
Alone == \A c \in Command, i \in Claim :
            Signer(c) /\ command[c].claim = {i} =>
                /\ claims[i] = NoClaim
                /\ \A d \in Command \ {c} : command[d].claim # {i}

\* What was verified was signed with a key that was installed, and still is unless a
\* keygen came in between; what is to be activated is old enough.
Verified ==
    /\ pub # NoKey => pub \in installed
    /\ \A c \in Command : command[c].pc \in {"stage", "activate"} => command[c].key \in installed
    /\ \A c \in Command, i \in Claim :
          Signing!At(c, "stage", i) => i \in raced \/ pub = command[c].key
    /\ \A c \in Command, i \in Claim : Signing!At(c, "activate", i) =>
          claims[i] # NoClaim /\ time - claims[i].created >= ReviewGap

Signed ==
    \A i \in Claim : claims[i] # NoClaim =>
        /\ {claims[i].staged, claims[i].signature} \subseteq installed
        /\ i \in raced \/ claims[i].fingerprint = claims[i].staged
        /\ claims[i].state = "active" => claims[i].verified - claims[i].created >= ReviewGap

\* Some file has the key being installed, or the one installed.
Keeps == ~upset =>
    /\ \A c, d \in Command : Installing(c) /\ Installing(d) => c = d
    /\ \A c \in Command : Installing(c) => Kept(command[c].key)
    /\ (\A c \in Command : ~Installing(c)) /\ pub # NoKey => Kept(pub)

Safe == Typed /\ Alone /\ Verified /\ Signed /\ Keeps

-----------------------------------------------------------------------------
\* A command goes on to its next step, or ends.
LEMMA CommandSet ==
  ASSUME Typed, NEW c \in Command, NEW x \in Commands, command' = [command EXCEPT ![c] = x]
  PROVE  /\ command' \in [Command -> Commands] /\ command'[c] = x
         /\ \A d \in Command \ {c} : command'[d] = command[d]
  BY DEF Typed

LEMMA IdleType ==
  /\ Signing!Idle \in Commands /\ Signing!Idle.pc = "idle" /\ Signing!Idle.claim = {}
  /\ \A key \in Key : [Signing!Idle EXCEPT !.pc = "install", !.key = key] \in Commands
  BY DEF Signing!Idle, Commands, KeyOrNone, NoKey

LEMMA SafeInit == Signing!Init => Safe
<1> SUFFICES ASSUME Signing!Init PROVE Safe
  OBVIOUS
<1>1. /\ private = [p \in Path |-> NoKey] /\ pub = NoKey
      /\ command = [c \in Command |-> Signing!Idle] /\ claims = [i \in Claim |-> NoClaim]
      /\ time = 0 /\ upset = FALSE
  BY DEF Signing!Init, NoKey, NoClaim
<1>2. NoClaim \in Claims
  BY DEF NoClaim, Signing!NoClaim, Claims, KeyOrNone, NoKey
<1>3. \A c \in Command : command[c].pc = "idle"
  BY <1>1, IdleType
<1>4. Typed
  BY <1>1, <1>2, <1>3, IdleType DEF Typed, KeyOrNone, Installing
<1> QED
  BY <1>1, <1>3, <1>4 DEF Safe, Alone, Signer, Verified, Signed, Keeps, Installing, Signing!At

\* A command is over, or broken off: nobody else is concerned.
LEMMA EndsCommand ==
  ASSUME Typed, NEW c \in Command, Signing!Ends(c)
  PROVE  /\ command' \in [Command -> Commands] /\ command'[c].pc = "idle"
         /\ command'[c].claim = {}
         /\ \A d \in Command \ {c} : command'[d] = command[d]
<1>1. command' = [command EXCEPT ![c] = Signing!Idle]
  BY DEF Signing!Ends
<1> QED
  BY <1>1, IdleType, CommandSet

LEMMA GoesCommand ==
  ASSUME Typed, NEW c \in Command, NEW i \in Claim, NEW key \in KeyOrNone,
         NEW pc \in {"sign", "stage", "countersign", "activate"}, Signing!Goes(c, pc, i, key)
  PROVE  /\ command' \in [Command -> Commands] /\ command'[c].pc = pc
         /\ command'[c].claim = {i} /\ command'[c].key = key
         /\ \A d \in Command \ {c} : command'[d] = command[d]
<1> DEFINE x == [pc |-> pc, claim |-> {i}, key |-> key]
<1>1. x \in Commands /\ command' = [command EXCEPT ![c] = x]
  BY DEF Commands, Signing!Goes
<1>2. x.pc = pc /\ x.claim = {i} /\ x.key = key
  OBVIOUS
<1> HIDE DEF x
<1> QED
  BY <1>1, <1>2, CommandSet

LEMMA CommandType ==
  ASSUME Typed, NEW c \in Command
  PROVE  command[c] \in Commands /\ command[c].key \in KeyOrNone
  BY DEF Typed, Commands

\* A command that is about no claim any more.
LEMMA AloneStays ==
  ASSUME Alone, UNCHANGED claims, NEW c \in Command, ~Signer(c)', command'[c].claim = {},
         \A d \in Command \ {c} : command'[d] = command[d]
  PROVE  Alone'
<1> SUFFICES ASSUME NEW d \in Command, NEW i \in Claim, Signer(d)', command'[d].claim = {i}
             PROVE  claims[i] = NoClaim /\ \A e \in Command \ {d} : command'[e].claim # {i}
  BY DEF Alone, NoClaim
<1>1. d # c /\ Signer(d) /\ command[d].claim = {i}
  BY DEF Signer
<1> QED
  BY <1>1 DEF Alone

\* Keys, files and claims stay, and a command that was no keygen ends.
LEMMA EndsSafe ==
  ASSUME Safe, NEW c \in Command, Signing!Ends(c), ~Installing(c),
         UNCHANGED <<private, pub, claims, time, installed, raced, upset>>
  PROVE  Safe'
<1>1. /\ command' \in [Command -> Commands] /\ command'[c].pc = "idle"
      /\ command'[c].claim = {}
      /\ \A d \in Command \ {c} : command'[d] = command[d]
  BY EndsCommand DEF Safe
<1>2. Typed'
  BY <1>1 DEF Safe, Typed, Installing
<1>3. Alone'
  BY <1>1, AloneStays DEF Signer, Safe
<1>4. Verified'
  BY <1>1 DEF Safe, Verified, Signing!At, NoKey, NoClaim
<1>5. Signed'
  BY DEF Safe, Signed, NoClaim
<1>6. Keeps'
  BY <1>1 DEF Safe, Keeps, Installing, Kept, NoKey
<1> QED
  BY <1>2, <1>3, <1>4, <1>5, <1>6 DEF Safe

LEMMA GenerateSafe ==
  ASSUME Safe, NEW c \in Command, NEW path \in Path, Signing!GenerateKeypair(c, path)
  PROVE  Safe'
<1>0. PICK key \in Key :
        /\ private' = [private EXCEPT ![path] = key]
        /\ command' = [command EXCEPT ![c] = [Signing!Idle EXCEPT !.pc = "install", !.key = key]]
  BY DEF Signing!GenerateKeypair
<1> DEFINE x == [Signing!Idle EXCEPT !.pc = "install", !.key = key]
<1>1. /\ x \in Commands /\ x.pc = "install" /\ x.claim = {} /\ x.key = key
      /\ command' = [command EXCEPT ![c] = x] /\ command[c] = Signing!Idle
      /\ upset' = (upset \/ \E d \in Command : Installing(d))
      /\ UNCHANGED <<pub, claims, time, installed, raced>>
  BY <1>0, IdleType DEF Signing!GenerateKeypair, Signing!Ready, Signing!Idle, Installing
<1> HIDE DEF x
<1>2. /\ command' \in [Command -> Commands] /\ command'[c] = x
      /\ \A d \in Command \ {c} : command'[d] = command[d]
  BY <1>1, CommandSet DEF Safe
<1>3. Typed'
  BY <1>0, <1>1, <1>2 DEF Safe, Typed, Installing, KeyOrNone, NoKey
<1>4. Alone'
  BY <1>1, <1>2, AloneStays DEF Signer, Safe
<1>5. Verified'
  BY <1>1, <1>2 DEF Safe, Verified, Signing!At, NoKey, NoClaim
<1>6. Signed'
  BY <1>1 DEF Safe, Signed, NoClaim
<1>7. Keeps'
  <2> SUFFICES ASSUME ~upset' PROVE Keeps'
    BY DEF Keeps
  <2>1. \A d \in Command : Installing(d)' => d = c
    BY <1>1, <1>2 DEF Installing
  <2>2. Installing(c)' /\ Kept(command[c].key)'
    BY <1>0, <1>1, <1>2 DEF Installing, Kept, Safe, Typed
  <2> QED
    BY <2>1, <2>2 DEF Keeps
<1> QED
  BY <1>3, <1>4, <1>5, <1>6, <1>7 DEF Safe

LEMMA InstallSafe ==
  ASSUME Safe, NEW c \in Command, Signing!Install(c)
  PROVE  Safe'
<1>1. /\ Installing(c) /\ Signing!Ends(c)
      /\ pub' = command[c].key /\ installed' = installed \union {pub'}
      /\ raced' = raced \union {i \in Claim : \E d \in Command : Signing!At(d, "stage", i)}
      /\ UNCHANGED <<private, claims, time, upset>>
  BY DEF Signing!Install, Installing
<1>2. /\ command' \in [Command -> Commands] /\ command'[c].pc = "idle"
      /\ command'[c].claim = {}
      /\ \A d \in Command \ {c} : command'[d] = command[d]
  BY <1>1, EndsCommand DEF Safe
<1>3. Typed'
  BY <1>1, <1>2, CommandType DEF Safe, Typed, Installing
<1>4. Alone'
  BY <1>1, <1>2, AloneStays DEF Signer, Safe
<1>5. Verified'
  <2>1. ASSUME NEW d \in Command, NEW i \in Claim, Signing!At(d, "stage", i)' PROVE i \in raced'
    BY <1>1, <1>2, <2>1 DEF Signing!At
  <2>2. \A d \in Command, i \in Claim : Signing!At(d, "activate", i)' =>
           claims[i] # NoClaim /\ time - claims[i].created >= ReviewGap
    BY <1>2 DEF Safe, Verified, Signing!At
  <2>3. \A d \in Command : command'[d].pc \in {"stage", "activate"} => command'[d].key \in installed
    BY <1>2 DEF Safe, Verified
  <2> QED
    BY <1>1, <2>1, <2>2, <2>3 DEF Verified, NoClaim
<1>6. Signed'
  BY <1>1 DEF Safe, Signed, NoClaim
<1>7. Keeps'
  BY <1>1, <1>2 DEF Safe, Keeps, Installing, Kept, NoKey
<1> QED
  BY <1>3, <1>4, <1>5, <1>6, <1>7 DEF Safe

LEMMA CarrySafe ==
  ASSUME Safe, NEW from \in Path, NEW to \in Path, Signing!Carry(from, to)
  PROVE  Safe'
<1>1. /\ private[from] # NoKey /\ from # to
      /\ upset' = (upset \/ private[to] # NoKey)
      /\ private' = [private EXCEPT ![to] = private[from], ![from] = NoKey]
      /\ UNCHANGED <<pub, command, claims, time, installed, raced>>
  BY DEF Signing!Carry, NoKey
<1>2. /\ private \in [Path -> KeyOrNone] /\ private' \in [Path -> KeyOrNone]
      /\ private'[to] = private[from]
      /\ \A p \in Path \ {from, to} : private'[p] = private[p]
  BY <1>1 DEF Safe, Typed, KeyOrNone
<1>3. Typed'
  BY <1>1, <1>2 DEF Safe, Typed, Installing
<1>4. Alone' /\ Verified' /\ Signed'
  BY <1>1 DEF Safe, Alone, Verified, Signed, Signer, Signing!At, NoKey, NoClaim
<1>5. Keeps'
  <2> SUFFICES ASSUME ~upset' PROVE Keeps'
    BY DEF Keeps
  <2>1. ~upset /\ private[to] = NoKey
    BY <1>1
  <2>2. ASSUME NEW key, key # NoKey, Kept(key) PROVE Kept(key)'
    BY <1>2, <2>1, <2>2 DEF Kept
  <2>3. \A c \in Command : Installing(c) => command[c].key # NoKey
    BY OperatorAssumption DEF Safe, Typed, NoKey
  <2> QED
    BY <1>1, <2>1, <2>2, <2>3 DEF Safe, Keeps, Installing, NoKey
<1> QED
  BY <1>3, <1>4, <1>5 DEF Safe

\* A command goes on, about the claim it is about or a new one nobody else is about.
LEMMA GoesSafe ==
  ASSUME Safe, NEW c \in Command, NEW i \in Claim, NEW key \in KeyOrNone,
         NEW pc \in {"sign", "stage", "countersign", "activate"},
         Signing!Goes(c, pc, i, key), ~Installing(c),
         UNCHANGED <<private, pub, claims, time, installed, raced, upset>>,
         \/ Signer(c) /\ command[c].claim = {i}
         \/ claims[i] = NoClaim /\ \A d \in Command : command[d].claim # {i}
         \/ pc \in {"countersign", "activate"} /\ claims[i] # NoClaim,
         pc \in {"stage", "activate"} => pub # NoKey /\ key = pub,
         pc = "activate" => claims[i] # NoClaim /\ time - claims[i].created >= ReviewGap
  PROVE  Safe'
<1>1. /\ command' \in [Command -> Commands] /\ command'[c].pc = pc
      /\ command'[c].claim = {i} /\ command'[c].key = key
      /\ \A d \in Command \ {c} : command'[d] = command[d]
  BY GoesCommand DEF Safe
<1>2. Typed'
  BY <1>1 DEF Safe, Typed, Installing
<1>3. Alone'
  <2> SUFFICES ASSUME NEW d \in Command, NEW j \in Claim, Signer(d)', command'[d].claim = {j}
               PROVE  claims[j] = NoClaim /\ \A e \in Command \ {d} : command'[e].claim # {j}
    BY DEF Alone, NoClaim
  <2>1. CASE d = c
    <3>1. j = i /\ pc \in {"sign", "stage"}
      BY <1>1, <2>1 DEF Signer
    <3>2. claims[i] = NoClaim /\ \A e \in Command \ {c} : command[e].claim # {i}
      BY <3>1 DEF Safe, Alone
    <3> QED
      BY <1>1, <2>1, <3>1, <3>2
  <2>2. CASE d # c
    <3>1. /\ Signer(d) /\ command[d].claim = {j} /\ claims[j] = NoClaim
          /\ \A e \in Command \ {d} : command[e].claim # {j}
      BY <1>1, <2>2 DEF Safe, Alone, Signer
    <3>2. j # i
      BY <2>2, <3>1
    <3> QED
      BY <1>1, <3>1, <3>2
  <2> QED
    BY <2>1, <2>2
<1>4. Verified'
  <2>1. pc \in {"stage", "activate"} => key \in installed
    BY DEF Safe, Verified, NoKey
  <2>2. \A d \in Command : command'[d].pc \in {"stage", "activate"} => command'[d].key \in installed
    BY <1>1, <2>1 DEF Safe, Verified
  <2>3. ASSUME NEW d \in Command, NEW j \in Claim, Signing!At(d, "stage", j)'
        PROVE  j \in raced \/ pub = command'[d].key
    BY <1>1, <2>3 DEF Safe, Verified, Signing!At
  <2>4. ASSUME NEW d \in Command, NEW j \in Claim, Signing!At(d, "activate", j)'
        PROVE  claims[j] # NoClaim /\ time - claims[j].created >= ReviewGap
    BY <1>1, <2>4 DEF Safe, Verified, Signing!At
  <2> QED
    BY <2>2, <2>3, <2>4 DEF Safe, Verified, NoKey, NoClaim
<1>5. Signed'
  BY DEF Safe, Signed, NoClaim
<1>6. Keeps'
  BY <1>1 DEF Safe, Keeps, Installing, Kept, NoKey
<1> QED
  BY <1>2, <1>3, <1>4, <1>5, <1>6 DEF Safe

LEMMA FileKey ==
  ASSUME Safe, NEW path \in Path
  PROVE  private[path] \in KeyOrNone
  BY DEF Safe, Typed

LEMMA BeginsSafe ==
  ASSUME Safe, NEW c \in Command, NEW path \in Path, NEW i \in Claim,
         Signing!T0Add(c, path, i) \/ Signing!T0Activate(c, path, i)
  PROVE  Safe'
<1>1. ~Installing(c)
  BY DEF Signing!T0Add, Signing!T0Activate, Signing!Ready, Signing!Idle, Installing
<1>2. CASE Signing!T0Add(c, path, i)
  BY <1>1, <1>2, FileKey, GoesSafe DEF Signing!T0Add, NoClaim
<1>3. CASE Signing!T0Activate(c, path, i)
  BY <1>1, <1>3, FileKey, GoesSafe DEF Signing!T0Activate, NoClaim
<1> QED
  BY <1>2, <1>3

LEMMA ChecksSafe ==
  ASSUME Safe, NEW c \in Command, NEW i \in Claim,
         Signing!StageT0(c, i) \/ Signing!ActivateT0(c, i)
  PROVE  Safe'
<1>1. ~Installing(c) /\ command[c].key \in KeyOrNone /\ command[c].claim = {i}
  BY CommandType DEF Signing!StageT0, Signing!ActivateT0, Signing!At, Installing, Safe
<1>2. UNCHANGED <<private, pub, claims, time, installed, raced, upset>>
  BY DEF Signing!StageT0, Signing!ActivateT0
<1>3. CASE Signing!Ends(c)
  BY <1>1, <1>2, <1>3, EndsSafe
<1>4. CASE /\ Signing!StageT0(c, i) /\ Signing!Verify(command[c].key)
           /\ Signing!Goes(c, "stage", i, command[c].key)
  <2>1. Signer(c) /\ pub # NoKey /\ command[c].key = pub
    BY <1>4 DEF Signing!StageT0, Signing!At, Signer, Signing!Verify, NoKey
  <2> QED
    BY <1>1, <1>2, <1>4, <2>1, GoesSafe
<1>5. CASE /\ Signing!ActivateT0(c, i) /\ claims[i].state = "t0_staged"
           /\ time - claims[i].created >= ReviewGap /\ Signing!Verify(command[c].key)
           /\ Signing!Goes(c, "activate", i, command[c].key)
  <2>1. pub # NoKey /\ command[c].key = pub
    BY <1>5 DEF Signing!Verify, NoKey
  <2>2. claims[i] # NoClaim
    BY <1>5 DEF NoClaim, Signing!NoClaim
  <2> QED
    BY <1>1, <1>2, <1>5, <2>1, <2>2, GoesSafe
<1> QED
  BY <1>3, <1>4, <1>5 DEF Signing!StageT0, Signing!ActivateT0

LEMMA StageSafe ==
  ASSUME Safe, NEW c \in Command, NEW i \in Claim, Signing!Stage(c, i)
  PROVE  Safe'
<1> DEFINE x == [Signing!NoClaim EXCEPT !.state = "t0_staged", !.created = time,
                    !.fingerprint = pub, !.signature = command[c].key, !.staged = command[c].key]
<1>1. /\ command[c].pc = "stage" /\ command[c].claim = {i} /\ Signing!Ends(c)
      /\ claims' = [claims EXCEPT ![i] = x]
      /\ UNCHANGED <<private, pub, time, installed, raced, upset>>
  BY DEF Signing!Stage, Signing!At
<1>2. /\ x.state = "t0_staged" /\ x.created = time /\ x.fingerprint = pub
      /\ x.signature = command[c].key /\ x.staged = command[c].key /\ x # NoClaim
  BY DEF Signing!NoClaim, NoClaim
<1>3. x \in Claims
  BY CommandType DEF Signing!NoClaim, Claims, Safe, Typed, KeyOrNone, NoKey
<1> HIDE DEF x
<1>4. /\ command' \in [Command -> Commands] /\ command'[c].pc = "idle"
      /\ command'[c].claim = {}
      /\ \A d \in Command \ {c} : command'[d] = command[d]
  BY <1>1, EndsCommand DEF Safe
<1>5. /\ claims' \in [Claim -> Claims] /\ claims'[i] = x
      /\ \A j \in Claim \ {i} : claims'[j] = claims[j]
  BY <1>1, <1>3 DEF Safe, Typed
<1>6. /\ claims[i] = NoClaim /\ \A d \in Command \ {c} : command[d].claim # {i}
      /\ command[c].key \in installed /\ (i \in raced \/ pub = command[c].key)
  BY <1>1 DEF Safe, Alone, Signer, Verified, Signing!At
<1>7. Typed'
  BY <1>1, <1>4, <1>5 DEF Safe, Typed, Installing
<1>8. Alone'
  <2> SUFFICES ASSUME NEW d \in Command, NEW j \in Claim, Signer(d)', command'[d].claim = {j}
               PROVE  claims'[j] = NoClaim /\ \A e \in Command \ {d} : command'[e].claim # {j}
    BY DEF Alone, NoClaim
  <2>1. d # c /\ Signer(d) /\ command[d].claim = {j} /\ j # i
    BY <1>4, <1>6 DEF Signer
  <2> QED
    BY <1>4, <1>5, <2>1 DEF Safe, Alone
<1>9. Verified'
  <2>1. \A d \in Command, j \in Claim : Signing!At(d, "activate", j)' =>
           claims'[j] # NoClaim /\ time - claims'[j].created >= ReviewGap
    BY <1>4, <1>5, <1>6 DEF Safe, Verified, Signing!At
  <2> QED
    BY <1>1, <1>4, <2>1 DEF Safe, Verified, Signing!At, NoKey, NoClaim
<1>10. Signed'
  BY <1>1, <1>2, <1>5, <1>6 DEF Safe, Signed, NoClaim
<1>11. Keeps'
  BY <1>1, <1>4 DEF Safe, Keeps, Installing, Kept, NoKey
<1> QED
  BY <1>7, <1>8, <1>9, <1>10, <1>11 DEF Safe

LEMMA ActivateSafe ==
  ASSUME Safe, NEW c \in Command, NEW i \in Claim, Signing!Activate(c, i)
  PROVE  Safe'
<1> DEFINE x == [claims[i] EXCEPT !.state = "active", !.verified = time,
                                  !.signature = command[c].key]
<1>1. /\ command[c].pc = "activate" /\ command[c].claim = {i} /\ Signing!Ends(c)
      /\ claims' = [claims EXCEPT ![i] = x]
      /\ UNCHANGED <<private, pub, time, installed, raced, upset>>
  BY DEF Signing!Activate, Signing!At
<1>2. claims[i] \in Claims
  BY DEF Safe, Typed
<1>3. /\ x \in Claims /\ x.state = "active" /\ x.created = claims[i].created
      /\ x.fingerprint = claims[i].fingerprint /\ x.staged = claims[i].staged
      /\ x.signature = command[c].key /\ x.verified = time
  BY <1>2, CommandType DEF Claims, Safe, Typed
<1>4. x # NoClaim
  BY <1>3 DEF NoClaim, Signing!NoClaim
<1> HIDE DEF x
<1>5. /\ command' \in [Command -> Commands] /\ command'[c].pc = "idle"
      /\ command'[c].claim = {}
      /\ \A d \in Command \ {c} : command'[d] = command[d]
  BY <1>1, EndsCommand DEF Safe
<1>6. /\ claims' \in [Claim -> Claims] /\ claims'[i] = x
      /\ \A j \in Claim \ {i} : claims'[j] = claims[j]
  BY <1>1, <1>3 DEF Safe, Typed
<1>7. /\ claims[i] # NoClaim /\ time - claims[i].created >= ReviewGap
      /\ command[c].key \in installed
  BY <1>1 DEF Safe, Verified, Signing!At
<1>8. Typed'
  BY <1>1, <1>5, <1>6 DEF Safe, Typed, Installing
<1>9. Alone'
  <2> SUFFICES ASSUME NEW d \in Command, NEW j \in Claim, Signer(d)', command'[d].claim = {j}
               PROVE  claims'[j] = NoClaim /\ \A e \in Command \ {d} : command'[e].claim # {j}
    BY DEF Alone, NoClaim
  <2>1. d # c /\ Signer(d) /\ command[d].claim = {j} /\ claims[j] = NoClaim
    BY <1>5 DEF Signer, Safe, Alone
  <2> QED
    BY <1>5, <1>6, <1>7, <2>1 DEF Safe, Alone
<1>10. Verified'
  <2>1. \A d \in Command, j \in Claim : Signing!At(d, "activate", j)' =>
           claims'[j] # NoClaim /\ time - claims'[j].created >= ReviewGap
    BY <1>3, <1>4, <1>5, <1>6 DEF Safe, Verified, Signing!At
  <2> QED
    BY <1>1, <1>5, <2>1 DEF Safe, Verified, Signing!At, NoKey, NoClaim
<1>11. Signed'
  BY <1>1, <1>3, <1>6, <1>7 DEF Safe, Signed, NoClaim
<1>12. Keeps'
  BY <1>1, <1>5 DEF Safe, Keeps, Installing, Kept, NoKey
<1> QED
  BY <1>8, <1>9, <1>10, <1>11, <1>12 DEF Safe

LEMMA DieSafe ==
  ASSUME Safe, NEW c \in Command, Signing!Die(c)
  PROVE  Safe'
<1>1. /\ Signing!Ends(c) /\ upset' = (upset \/ Installing(c))
      /\ UNCHANGED <<private, pub, claims, time, installed, raced>>
  BY DEF Signing!Die, Installing
<1>2. CASE ~Installing(c)
  <2>1. upset' = upset
    BY <1>1, <1>2 DEF Safe, Typed
  <2> QED
    BY <1>1, <1>2, <2>1, EndsSafe
<1>3. CASE Installing(c)
  <2>1. /\ command' \in [Command -> Commands] /\ command'[c].pc = "idle"
        /\ command'[c].claim = {}
        /\ \A d \in Command \ {c} : command'[d] = command[d]
    BY <1>1, EndsCommand DEF Safe
  <2>2. upset' = TRUE
    BY <1>1, <1>3
  <2>3. Typed'
    BY <1>1, <2>1, <2>2 DEF Safe, Typed, Installing
  <2>4. Alone'
    BY <1>1, <2>1, AloneStays DEF Signer, Safe
  <2>5. Verified'
    BY <1>1, <2>1 DEF Safe, Verified, Signing!At, NoKey, NoClaim
  <2>6. Signed' /\ Keeps'
    BY <1>1, <2>2 DEF Safe, Signed, NoClaim, Keeps
  <2> QED
    BY <2>3, <2>4, <2>5, <2>6 DEF Safe
<1> QED
  BY <1>2, <1>3

LEMMA PassSafe ==
  ASSUME Safe, Signing!Pass
  PROVE  Safe'
<1>1. time' = time + 1 /\ UNCHANGED <<private, pub, command, claims, installed, raced, upset>>
  BY DEF Signing!Pass
<1>2. Typed' /\ Alone' /\ Signed' /\ Keeps'
  BY <1>1 DEF Safe, Typed, Installing, Alone, Signer, Signed, Keeps, Kept, NoKey, NoClaim
<1>3. ASSUME NEW c \in Command, NEW i \in Claim, Signing!At(c, "activate", i)
      PROVE  claims[i] # NoClaim /\ time' - claims[i].created >= ReviewGap
  <2>1. /\ claims[i] # NoClaim /\ time - claims[i].created >= ReviewGap
        /\ claims[i].created \in Nat /\ time \in Nat
    BY <1>3 DEF Safe, Verified, Typed, Claims
  <2> QED
    BY <1>1, <2>1, OperatorAssumption
<1>4. Verified'
  BY <1>1, <1>3 DEF Safe, Verified, Signing!At, NoKey, NoClaim
<1> QED
  BY <1>2, <1>4 DEF Safe

LEMMA SafeStep == Safe /\ [Next]_vars => Safe'
<1> SUFFICES ASSUME Safe, [Next]_vars PROVE Safe'
  OBVIOUS
<1>1. Signing!Next \/ UNCHANGED operatorVars
  BY DEF Next, vars
<1>2. CASE UNCHANGED operatorVars
  BY <1>2 DEF operatorVars, Safe, Typed, Installing, Alone, Signer, Verified, Signing!At,
     Signed, Keeps, Kept, NoKey, NoClaim
<1>3. CASE Signing!Next
  BY <1>3, GenerateSafe, InstallSafe, CarrySafe, BeginsSafe, ChecksSafe, StageSafe,
     ActivateSafe, DieSafe, PassSafe
  DEF Signing!Next
<1> QED
  BY <1>1, <1>2, <1>3

\* An active claim was signed twice, a review gap apart, by keys that were the
\* operator's, and the operator keeps a key that verifies.
THEOREM ClaimsAreSigned == Spec => []OperatorSigns
<1>1. Init => Safe
  BY SafeInit DEF Init
<1>2. Safe => OperatorSigns
  BY DEF Safe, Signed, Keeps, Installing, Kept, NoKey, NoClaim, OperatorSigns,
     Signing!OperatorSigns
<1> QED
  BY <1>1, <1>2, SafeStep, PTL DEF Spec
-----------------------------------------------------------------------------
(* Recall: the sections of a prompt are packed by trust first.             *)

Vectors == {"none", "openai", "hashing"}

Stored == [memory : Memory, active : BOOLEAN, vector : Vectors]

MemoriesTyped ==
    /\ items \in Seq(Stored)
    /\ embedder \in Vectors

LEMMA MemoriesStayTyped == MemoriesTyped /\ [Next]_vars => MemoriesTyped'
<1> SUFFICES ASSUME MemoriesTyped, [Next]_vars PROVE MemoriesTyped'
  OBVIOUS
<1>0. \A i \in 1..Len(items) : items[i] \in Stored
  BY DEF MemoriesTyped
<1>1. Recalling!Next \/ UNCHANGED <<items, embedder>>
  BY DEF Next, vars, recallVars
<1>2. CASE UNCHANGED <<items, embedder>>
  BY <1>2 DEF MemoriesTyped
<1>3. CASE Recalling!SwitchEmbedder
  BY <1>3 DEF MemoriesTyped, Recalling!SwitchEmbedder, Recalling!Embedder,
     Recalling!BuildEmbedder, Vectors
<1>4. CASE Recalling!MemoryReindex
  <2>1. PICK n : items' = Recalling!Reindexed(n)
    BY <1>4 DEF Recalling!MemoryReindex
  <2>2. UNCHANGED embedder
    BY <1>4 DEF Recalling!MemoryReindex
  <2>3. ASSUME NEW i \in 1..Len(items)
        PROVE  items[i] \in Stored /\ [items[i] EXCEPT !.vector = embedder] \in Stored
    BY <1>0 DEF Stored, MemoriesTyped
  <2>4. items' \in [1..Len(items) -> Stored]
    BY <2>1, <2>3 DEF Recalling!Reindexed
  <2>5. Len(items) \in Nat
    BY DEF MemoriesTyped
  <2>6. items' \in Seq(Stored)
    BY <2>4, <2>5
  <2> QED
    BY <2>2, <2>6 DEF MemoriesTyped
<1>5. ASSUME NEW before \in Vectors, NEW vector \in Recalling!Indexed(before)
      PROVE  vector \in Vectors
  BY <1>5 DEF Recalling!Indexed, MemoriesTyped
<1>6. ASSUME NEW memory \in Memory, Recalling!Learn(memory)
      PROVE  MemoriesTyped'
  <2>1. PICK vector \in Recalling!Indexed(Recalling!NoVector) :
           items' = Append(items, [memory |-> memory, active |-> TRUE, vector |-> vector])
    BY <1>6 DEF Recalling!Learn
  <2>2. vector \in Vectors
    BY <1>5 DEF Vectors, Recalling!NoVector
  <2>3. [memory |-> memory, active |-> TRUE, vector |-> vector] \in Stored
    BY <2>2 DEF Stored
  <2> QED
    BY <1>6, <2>1, <2>3 DEF Recalling!Learn, MemoriesTyped
<1>7. ASSUME NEW i \in 1..Len(items), Recalling!Forget(i)
      PROVE  MemoriesTyped'
  <2>1. /\ items' = [items EXCEPT ![i] = [items[i] EXCEPT !.active = FALSE]]
        /\ UNCHANGED embedder
    BY <1>7 DEF Recalling!Forget
  <2>2. [items[i] EXCEPT !.active = FALSE] \in Stored
    BY <1>0 DEF Stored
  <2> QED
    BY <2>1, <2>2 DEF MemoriesTyped
<1>8. ASSUME NEW i \in 1..Len(items), Recalling!Restore(i)
      PROVE  MemoriesTyped'
  <2>1. PICK vector \in Recalling!Indexed(items[i].vector) :
           items' = [items EXCEPT ![i] = [items[i] EXCEPT !.active = TRUE, !.vector = vector]]
    BY <1>8 DEF Recalling!Restore, MemoriesTyped
  <2>2. items[i] \in Stored
    BY <1>0
  <2>3. vector \in Vectors
    BY <1>5, <2>2 DEF Stored
  <2>4. [items[i] EXCEPT !.active = TRUE, !.vector = vector] \in Stored
    BY <2>2, <2>3 DEF Stored
  <2>5. UNCHANGED embedder
    BY <1>8 DEF Recalling!Restore
  <2> QED
    BY <2>1, <2>4, <2>5 DEF MemoriesTyped
<1> QED
  BY <1>1, <1>2, <1>3, <1>4, <1>6, <1>7, <1>8 DEF Recalling!Next

\* What is told of is picked from what is listed, and that from what is active.
LEMMA AnswersPicked ==
  ASSUME NEW listed, NEW containing, containing \subseteq listed,
         NEW answer \in Recalling!Told(listed, containing)
  PROVE  answer \subseteq listed
<1>1. Recalling!Recalled(listed) \subseteq listed
  BY DEF Recalling!Recalled, Recalling!First, Recalling!Search
<1> QED
  BY <1>1 DEF Recalling!Told

LEMMA AnswersFromActive == Recalling!AnswersAreOwn
<1>1. /\ Recalling!Latest(Recalling!Active) \subseteq Recalling!Active
      /\ \A u : Recalling!Latest(Recalling!ActiveByActor(u)) \subseteq Recalling!ActiveByActor(u)
  BY DEF Recalling!Latest, Recalling!NewestOf
<1>2. \A listed : Recalling!Contain(listed) \subseteq listed
  BY DEF Recalling!Contain
<1>3. ASSUME NEW answer \in Recalling!ToolSearch
      PROVE  answer \subseteq Recalling!Active
  BY <1>1, <1>2 DEF Recalling!ToolSearch, Recalling!NewestOf
<1>4. ASSUME NEW answer \in Recalling!CommandSearch
      PROVE  answer \subseteq Recalling!Active
  BY <1>1, <1>2, AnswersPicked DEF Recalling!CommandSearch
<1>5. \A since : Recalling!MemoryDiff(since) \subseteq Recalling!Active
  BY <1>1 DEF Recalling!MemoryDiff, Recalling!MemoryList
<1>6. ASSUME NEW u, NEW answer \in Recalling!Ask(u)
      PROVE  answer \subseteq Recalling!ActiveByActor(u)
  <2> DEFINE facts == Recalling!Latest(Recalling!ActiveByActor(u))
             containing == Recalling!First(K, Recalling!Contain(facts), Recalling!Before)
  <2>1. containing \subseteq facts
    BY <1>2 DEF Recalling!First
  <2>2. answer \in Recalling!Told(facts, containing)
    BY DEF Recalling!Ask
  <2>3. answer \subseteq facts
    <3> HIDE DEF facts, containing
    <3> QED
      BY <2>1, <2>2, AnswersPicked
  <2> QED
    BY <1>1, <2>3
<1>7. \A u : Recalling!UserShow(u) \subseteq Recalling!ActiveByActor(u)
  BY <1>1 DEF Recalling!UserShow, Recalling!Digest
<1> QED
  BY <1>3, <1>4, <1>5, <1>6, <1>7 DEF Recalling!AnswersAreOwn, Recalling!UserRecall,
     Recalling!UserAsk

\* The order of the prompt is by tier and then by age, and any memories have a first
\* and a last in it.
LEMMA LeastNumber ==
  ASSUME NEW T, T \subseteq Nat, T # {}
  PROVE  \E n \in T : \A m \in T : n <= m
<1> DEFINE R == {ss \in Nat \X Nat : ss[1] < ss[2]}
<1>1. IsWellFoundedOn(R, Nat)
  BY NatLessThanWellFounded DEF OpToRel
<1>2. PICK n \in T : \A m \in T : ~ (<<m, n>> \in R)
  <2> HIDE DEF R
  <2> QED
    BY <1>1, WFMin
<1>3. ASSUME NEW m \in T PROVE n <= m
  <2>1. m \in Nat /\ n \in Nat /\ <<m, n>> \notin R
    BY <1>2
  <2>2. ~(m < n)
    BY <2>1
  <2> QED
    BY <2>1, <2>2
<1> QED
  BY <1>3

\* The same of what is bounded above.
LEMMA GreatestNumber ==
  ASSUME NEW T, NEW b \in Nat, T \subseteq 0..b, T # {}
  PROVE  \E n \in T : \A m \in T : m <= n
<1>1. PICK k \in {b - n : n \in T} : \A j \in {b - n : n \in T} : k <= j
  <2>1. \A n \in T : n \in 0..b /\ b - n \in Nat
    OBVIOUS
  <2>2. {b - n : n \in T} \subseteq Nat /\ {b - n : n \in T} # {}
    BY <2>1
  <2> QED
    BY <2>2, LeastNumber
<1>2. PICK n \in T : k = b - n
  BY <1>1
<1>3. ASSUME NEW m \in T PROVE m <= n
  <2>1. k <= b - m
    BY <1>1
  <2>2. m \in 0..b /\ n \in 0..b
    OBVIOUS
  <2> QED
    BY <1>2, <2>1, <2>2
<1> QED
  BY <1>3

Tiered(S) == S \subseteq 1..Len(items) /\ \A i \in S : Recalling!Tier(i) \in 0..4

LEMMA FirstOfAll ==
  ASSUME Len(items) \in Nat, NEW S, Tiered(S), S # {}
  PROVE  \E i \in S : \A j \in S : ~Recalling!Before(j, i)
<1>1. PICK n \in {Recalling!Tier(i) : i \in S} : \A m \in {Recalling!Tier(i) : i \in S} : n <= m
  <2>1. \A i \in S : Recalling!Tier(i) \in 0..4
    BY DEF Tiered
  <2>2. {Recalling!Tier(i) : i \in S} \subseteq Nat /\ {Recalling!Tier(i) : i \in S} # {}
    BY <2>1
  <2> QED
    BY <2>2, LeastNumber
<1> DEFINE T == {i \in S : Recalling!Tier(i) = n}
<1>2. T \subseteq 0..Len(items) /\ T # {}
  BY <1>1 DEF Tiered
<1>3. PICK i \in T : \A j \in T : j <= i
  <2> HIDE DEF T
  <2> QED
    BY <1>2, GreatestNumber
<1>4. ASSUME NEW j \in S PROVE ~Recalling!Before(j, i)
  <2>1. j \in 1..Len(items) /\ i \in 1..Len(items) /\ i \in S
    BY DEF Tiered
  <2>2. Recalling!Tier(i) = n /\ Recalling!Tier(j) \in 0..4 /\ n \in 0..4
    BY <2>1 DEF Tiered
  <2>3. n <= Recalling!Tier(j)
    BY <1>1
  <2>4. Recalling!Tier(j) = n => j <= i
    BY <1>3
  <2> QED
    BY <2>1, <2>2, <2>3, <2>4 DEF Recalling!Before
<1> QED
  BY <1>3, <1>4

LEMMA LastOfAll ==
  ASSUME Len(items) \in Nat, NEW S, Tiered(S), S # {}
  PROVE  \E i \in S : \A j \in S : ~Recalling!Before(i, j)
<1>1. PICK n \in {Recalling!Tier(i) : i \in S} : \A m \in {Recalling!Tier(i) : i \in S} : m <= n
  <2>1. {Recalling!Tier(i) : i \in S} \subseteq 0..4 /\ {Recalling!Tier(i) : i \in S} # {}
    BY DEF Tiered
  <2> QED
    BY <2>1, GreatestNumber
<1> DEFINE T == {i \in S : Recalling!Tier(i) = n}
<1>2. T \subseteq Nat /\ T # {}
  BY <1>1 DEF Tiered
<1>3. PICK i \in T : \A j \in T : i <= j
  <2> HIDE DEF T
  <2> QED
    BY <1>2, LeastNumber
<1>4. ASSUME NEW j \in S PROVE ~Recalling!Before(i, j)
  <2>1. j \in 1..Len(items) /\ i \in 1..Len(items) /\ i \in S
    BY DEF Tiered
  <2>2. Recalling!Tier(i) = n /\ Recalling!Tier(j) \in 0..4 /\ n \in 0..4
    BY <2>1 DEF Tiered
  <2>3. Recalling!Tier(j) <= n
    BY <1>1
  <2>4. Recalling!Tier(j) = n => i <= j
    BY <1>3
  <2> QED
    BY <2>1, <2>2, <2>3, <2>4 DEF Recalling!Before
<1> QED
  BY <1>3, <1>4

LEMMA BeforeIsAnOrder ==
  ASSUME NEW S, Tiered(S)
  PROVE  /\ \A i \in S : ~Recalling!Before(i, i)
         /\ \A i, j \in S : i = j \/ Recalling!Before(i, j) \/ Recalling!Before(j, i)
         /\ \A i, j, k \in S : Recalling!Before(i, j) /\ Recalling!Before(j, k)
                                 => Recalling!Before(i, k)
BY DEF Recalling!Before, Tiered

\* A section is packed in one way at most ...
LEMMA PackedOneWay ==
  ASSUME Len(items) \in Nat, NEW S, Tiered(S),
         NEW P \in SUBSET S, NEW Q \in SUBSET S,
         Recalling!Packs(P, S), Recalling!Packs(Q, S)
  PROVE  P = Q
<1> DEFINE T == {i \in S : ~(i \in P <=> i \in Q)}
<1> SUFFICES ASSUME T # {} PROVE FALSE
  OBVIOUS
<1>1. Tiered(T)
  BY DEF Tiered
<1>2. PICK i \in T : \A j \in T : ~Recalling!Before(j, i)
  <2> HIDE DEF T
  <2> QED
    BY <1>1, FirstOfAll
<1>3. Recalling!UpTo(P, i) = Recalling!UpTo(Q, i)
  BY <1>2 DEF Recalling!UpTo
<1> QED
  BY <1>2, <1>3 DEF Recalling!Packs

\* ... and in one at least: the last memory is put to the others, if there is room.
LEMMA PackedSomehow ==
  ASSUME Len(items) \in Nat, NEW S, Tiered(S)
  PROVE  \E P \in SUBSET S : Recalling!Packs(P, S)
<1> DEFINE Below(i) == {j \in S : Recalling!Before(j, i)}
           T == {i \in S : ~\E P \in SUBSET Below(i) : Recalling!Packs(P, Below(i))}
<1>1. ASSUME NEW U \in SUBSET S, NEW i \in U, \A j \in U : ~Recalling!Before(i, j),
             NEW P \in SUBSET (U \ {i}), Recalling!Packs(P, U \ {i})
      PROVE  \E Q \in SUBSET U : Recalling!Packs(Q, U)
  <2> DEFINE fits == Recalling!Length(Recalling!UpTo(P, i)) <= Budget
             Q == IF fits THEN P \union {i} ELSE P
  <2>1. \A j \in U : j # i => Recalling!UpTo(Q, j) = Recalling!UpTo(P, j)
    BY <1>1 DEF Recalling!UpTo
  <2>2. Recalling!UpTo(Q, i) = Recalling!UpTo(P, i)
    BY <1>1 DEF Recalling!UpTo
  <2>3. \A j \in U \ {i} : j \in Q <=> j \in P
    OBVIOUS
  <2>4. i \in Q <=> fits
    BY <1>1
  <2>5. Recalling!Packs(Q, U)
    <3> HIDE DEF Q
    <3> QED
      BY <1>1, <2>1, <2>2, <2>3, <2>4 DEF Recalling!Packs
  <2> QED
    BY <2>5
<1>2. \A i \in S : Below(i) \in SUBSET S /\ Tiered(Below(i))
  BY DEF Tiered
<1>3. ASSUME NEW U \in SUBSET S, \A i \in U : Below(i) \subseteq U,
             \A i \in U : i \notin T
      PROVE  \E P \in SUBSET U : Recalling!Packs(P, U)
  <2>1. CASE U = {}
    <3>1. Recalling!Packs({}, U)
      BY <2>1 DEF Recalling!Packs
    <3> QED
      BY <3>1
  <2>2. CASE U # {}
    <3>1. Tiered(U)
      BY DEF Tiered
    <3>2. PICK i \in U : \A j \in U : ~Recalling!Before(i, j)
      BY <2>2, <3>1, LastOfAll
    <3>3. Below(i) = U \ {i}
      BY <1>3, <3>1, <3>2, BeforeIsAnOrder
    <3>4. PICK P \in SUBSET (U \ {i}) : Recalling!Packs(P, U \ {i})
      BY <1>3, <3>3
    <3> QED
      BY <1>1, <3>2, <3>4
  <2> QED
    BY <2>1, <2>2
<1>4. T = {}
  <2> SUFFICES ASSUME T # {} PROVE FALSE
    OBVIOUS
  <2>1. Tiered(T)
    BY DEF Tiered
  <2>2. PICK i \in T : \A j \in T : ~Recalling!Before(j, i)
    <3> HIDE DEF T
    <3> QED
      BY <2>1, FirstOfAll
  <2>3. \A j \in Below(i) : Below(j) \subseteq Below(i) /\ j \notin T
    BY <2>2, BeforeIsAnOrder
  <2>4. Below(i) \in SUBSET S
    OBVIOUS
  <2>5. \E P \in SUBSET Below(i) : Recalling!Packs(P, Below(i))
    <3> DEFINE B == Below(i)
    <3>1. B \in SUBSET S /\ (\A j \in B : Below(j) \subseteq B) /\ \A j \in B : j \notin T
      BY <2>3, <2>4
    <3> HIDE DEF B, T
    <3>2. \E P \in SUBSET B : Recalling!Packs(P, B)
      BY <1>3, <3>1
    <3> QED
      BY <3>2 DEF B
  <2> QED
    BY <2>2, <2>5
<1> QED
  BY <1>3, <1>4

LEMMA PackPacks ==
  ASSUME Len(items) \in Nat, NEW S, Tiered(S)
  PROVE  Recalling!Pack(S) \in SUBSET S /\ Recalling!Packs(Recalling!Pack(S), S)
BY PackedSomehow DEF Recalling!Pack

\* What has room besides the more trusted has it whatever less trusted there is:
\* a section, restricted to the trusted, is the section of the trusted.
LEMMA PackedByTrust ==
  ASSUME Len(items) \in Nat, NEW S, Tiered(S), NEW tier \in 0..4
  PROVE  {i \in Recalling!Pack(S) : Recalling!Tier(i) <= tier}
           = Recalling!Pack({i \in S : Recalling!Tier(i) <= tier})
<1> DEFINE Trusted == {i \in S : Recalling!Tier(i) <= tier}
           P == Recalling!Pack(S)
           Q == {i \in P : Recalling!Tier(i) <= tier}
<1>1. P \in SUBSET S /\ Recalling!Packs(P, S)
  <2> HIDE DEF P
  <2> QED
    BY PackPacks DEF P
<1>2. Tiered(Trusted) /\ Trusted \in SUBSET S
  BY DEF Tiered
<1>3. Q \in SUBSET Trusted
  <2> HIDE DEF P
  <2> QED
    BY <1>1
<1>4. ASSUME NEW i \in Trusted
      PROVE  Recalling!UpTo(P, i) = Recalling!UpTo(Q, i)
  <2>1. \A j \in S : Recalling!Before(j, i) => Recalling!Tier(j) <= tier
    BY DEF Recalling!Before, Tiered
  <2> HIDE DEF P
  <2> QED
    BY <1>1, <2>1 DEF Recalling!UpTo
<1>5. \A i \in Trusted : i \in Q <=> i \in P
  <2> HIDE DEF P
  <2> QED
    OBVIOUS
<1>6. Recalling!Packs(Q, Trusted)
  <2> HIDE DEF P, Q
  <2> QED
    BY <1>1, <1>4, <1>5 DEF Recalling!Packs
<1>7. /\ Recalling!Pack(Trusted) \in SUBSET Trusted
      /\ Recalling!Packs(Recalling!Pack(Trusted), Trusted)
  <2> HIDE DEF Trusted
  <2> QED
    BY <1>2, PackPacks
<1> HIDE DEF Trusted, Q
<1>8. Q = Recalling!Pack(Trusted)
  BY <1>2, <1>3, <1>6, <1>7, PackedOneWay
<1> QED
  BY <1>8 DEF Trusted, Q

\* The same of a digest, which ends at the first that has none.
LEMMA DigestedByTrust ==
  ASSUME Len(items) \in Nat, NEW S, Tiered(S), NEW tier \in 0..4, NEW budget
  PROVE  {i \in Recalling!Digest(S, budget) : Recalling!Tier(i) <= tier}
           = Recalling!Digest({i \in S : Recalling!Tier(i) <= tier}, budget)
<1> DEFINE Trusted == {i \in S : Recalling!Tier(i) <= tier}
<1>1. ASSUME NEW i \in Trusted
      PROVE  /\ Recalling!UpTo(S, i) = Recalling!UpTo(Trusted, i)
             /\ Recalling!UpTo(Trusted, i) \subseteq Trusted
  <2>1. \A j \in S : Recalling!Before(j, i) => j \in Trusted
    BY DEF Recalling!Before, Tiered
  <2> QED
    BY <2>1 DEF Recalling!UpTo
<1>2. ASSUME NEW i \in Trusted
      PROVE  i \in Recalling!Digest(S, budget) <=> i \in Recalling!Digest(Trusted, budget)
  <2>1. i \in S
    OBVIOUS
  <2> HIDE DEF Trusted
  <2> QED
    BY <1>1, <2>1 DEF Recalling!Digest
<1>3. /\ Recalling!Digest(Trusted, budget) \subseteq Trusted
      /\ Recalling!Digest(S, budget) \subseteq S
  BY DEF Recalling!Digest
<1>4. \A i \in S : i \in Trusted <=> Recalling!Tier(i) <= tier
  OBVIOUS
<1>5. {i \in Recalling!Digest(S, budget) : Recalling!Tier(i) <= tier}
        = Recalling!Digest(Trusted, budget)
  <2> HIDE DEF Trusted
  <2> QED
    BY <1>2, <1>3, <1>4
<1> QED
  BY <1>5

LEMMA ListedAreTiered ==
  ASSUME MemoriesTyped
  PROVE  /\ Len(items) \in Nat
         /\ Tiered(Recalling!Notes)
         /\ \A u : Tiered(Recalling!ProfileOf(u))
         /\ \A u : Tiered(Recalling!Latest(Recalling!ActiveByActor(u)))
<1>1. Len(items) \in Nat /\ \A i \in 1..Len(items) : items[i] \in Stored
  BY DEF MemoriesTyped
<1>2. \A i \in 1..Len(items) : Recalling!Tier(i) \in 0..4
  BY <1>1, RecallAssumption DEF Stored, Recalling!Tier
<1>3. /\ Recalling!Latest(Recalling!Active) \subseteq 1..Len(items)
      /\ \A u : Recalling!Latest(Recalling!ActiveByActor(u)) \subseteq 1..Len(items)
  BY DEF Recalling!Latest, Recalling!NewestOf, Recalling!Active, Recalling!ActiveByActor
<1> QED
  BY <1>1, <1>2, <1>3 DEF Tiered, Recalling!Notes, Recalling!ProfileOf

LEMMA TypedAreTrustedFirst == MemoriesTyped => Recalling!NoCrowdingOut
<1> SUFFICES ASSUME MemoriesTyped PROVE Recalling!NoCrowdingOut
  OBVIOUS
<1> USE ListedAreTiered
<1>1. \A tier \in 0..4 :
        {i \in Recalling!Pack(Recalling!Notes) : Recalling!Tier(i) <= tier}
          = Recalling!Pack({i \in Recalling!Notes : Recalling!Tier(i) <= tier})
  BY PackedByTrust
<1>2. \A tier \in 0..4 : \A u \in Actor :
        {i \in Recalling!Pack(Recalling!ProfileOf(u)) : Recalling!Tier(i) <= tier}
          = Recalling!Pack({i \in Recalling!ProfileOf(u) : Recalling!Tier(i) <= tier})
  BY PackedByTrust
<1>3. \A tier \in 0..4 : \A u \in Actor : \A budget :
        LET facts == Recalling!Latest(Recalling!ActiveByActor(u))
        IN  {i \in Recalling!Digest(facts, budget) : Recalling!Tier(i) <= tier}
              = Recalling!Digest({i \in facts : Recalling!Tier(i) <= tier}, budget)
  BY DigestedByTrust
<1> QED
  BY <1>1, <1>2, <1>3 DEF Recalling!NoCrowdingOut

LEMMA MemoriesTypedFirst == Init => MemoriesTyped
BY DEF Init, Recalling!Init, Recalling!Embedder, Recalling!BuildEmbedder, MemoriesTyped,
   Vectors

\* What a prompt holds of one level of trust is what it would hold if there were
\* nothing less trusted.
THEOREM TrustComesFirst == Spec => []NoCrowdingOut
<1>1. MemoriesTyped => NoCrowdingOut
  BY TypedAreTrustedFirst DEF NoCrowdingOut
<1> QED
  BY <1>1, MemoriesTypedFirst, MemoriesStayTyped, PTL DEF Spec

\* Every answer tells of active memories, and one about a user of that user's: whatever
\* is stored, forgotten or left of earlier embedders.
THEOREM AnswersStayOwn == Spec => []AnswersAreOwn
<1>1. AnswersAreOwn
  BY AnswersFromActive DEF AnswersAreOwn
<1> QED
  BY <1>1, PTL
=============================================================================
