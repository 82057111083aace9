---- MODULE CareerLedger ----
(***************************************************************************)
(* The career ledger: what CareerLedger.collect leaves in the user's       *)
(* folder step by step, through failed writes and a process that dies in   *)
(* between, and what CareerVerify.run says of it (gnubg-app, career/).     *)
(*                                                                         *)
(* Nobody but the app touches the folder here.  A line of the ledger is    *)
(* known by the match whose entry ends it, and so is its hash.  A write    *)
(* that breaks off leaves a fragment without a newline, and the next entry *)
(* is appended behind it, on the same line.                                *)
(***************************************************************************)
EXTENDS Naturals, Sequences

CONSTANTS
    MaxMatches,    \* bound: matches put to collection
    MaxCrashes,    \* bound: deaths of the process
    MaxReinstalls  \* bound: reinstallations of the app

ASSUME LedgerBounds == MaxMatches \in Nat /\ MaxCrashes \in Nat /\ MaxReinstalls \in Nat

Genesis == 0
Absent  == 0
Match   == 1..MaxMatches
Key     == 1..(MaxReinstalls + 1)

VARIABLES
    pc,       \* where collect is
    match,    \* the match it collects: matches are numbered as they come
    kp,       \* the key pair in hand
    prev,     \* prevHash
    privKey,  \* career-key.p8 in filesDir, Absent or the key it holds
    pubKey,   \* career-key.p8.pub
    pem,      \* career-pubkey.pem in the folder: "absent", "empty" or "written"
    pemKey,   \* the key in it
    sgf,      \* each match's file in the folder: "absent", "partial" or "whole"
    lines,    \* the complete lines of the ledger
    tail,     \* whether a fragment follows them
    unread,   \* history: matches for which the ledger could not be read
    faults    \* history: crashes and reinstallations so far

keyVars  == <<privKey, pubKey>>
pemVars  == <<pem, pemKey>>
fileVars == <<lines, tail, unread>>
vars == <<pc, match, kp, prev, keyVars, pemVars, sgf, fileVars, faults>>

\* An entry as stored; marred when a fragment stands in front of it.
Line == [match : Match, prev : Match \cup {Genesis}, key : Key, marred : BOOLEAN]

Init ==
    /\ pc = "idle" /\ match = 0 /\ kp = Absent /\ prev = Genesis
    /\ privKey = Absent /\ pubKey = Absent
    /\ pem = "absent" /\ pemKey = Absent
    /\ sgf = [m \in Match |-> "absent"]
    /\ lines = <<>> /\ tail = FALSE /\ unread = {}
    /\ faults = [crashes |-> 0, reinstalls |-> 0]

-----------------------------------------------------------------------------
(* CareerLedger.collect.                                                   *)

\* Called for a finished match; without a folder grant it returns at once.
Collect ==
    /\ pc = "idle" /\ match < MaxMatches
    /\ match' = match + 1
    /\ pc' \in {"idle", "key"}
    /\ UNCHANGED <<kp, prev, keyVars, pemVars, sgf, fileVars, faults>>

\* loadOrCreateKey: a private key whose public half is not there is a failure.
LoadKey ==
    /\ pc = "key" /\ privKey # Absent
    /\ IF pubKey = Absent THEN pc' = "idle" /\ kp' = kp
       ELSE pc' = "pem" /\ kp' = privKey
    /\ UNCHANGED <<match, prev, keyVars, pemVars, sgf, fileVars, faults>>

\* A key is generated, one per installation; the private half is stored first.
CreateKey ==
    /\ pc = "key" /\ privKey = Absent
    /\ kp' = faults.reinstalls + 1
    /\ privKey' = kp'
    /\ pc' = "pub"
    /\ UNCHANGED <<match, prev, pubKey, pemVars, sgf, fileVars, faults>>

StorePublic ==
    /\ pc = "pub"
    /\ \/ pubKey' = kp /\ pc' = "pem"
       \/ pubKey' = pubKey /\ pc' = "idle"
    /\ UNCHANGED <<match, kp, prev, privKey, pemVars, sgf, fileVars, faults>>

\* The folder's copy of the public key: created if it is not there.  Nothing goes
\* on without career/ and the match's bytes.
FindPem ==
    /\ pc = "pem"
    /\ \/ pem = "absent" /\ pem' = "empty" /\ pc' = "writePem"
       \/ pem' = pem /\ pc' \in {"sgf", "idle"}
    /\ UNCHANGED <<match, kp, prev, keyVars, pemKey, sgf, fileVars, faults>>

\* Whether it could be written is not looked at.
WritePem ==
    /\ pc = "writePem"
    /\ \/ pem' = "written" /\ pemKey' = kp
       \/ UNCHANGED pemVars
    /\ pc' = "sgf"
    /\ UNCHANGED <<match, kp, prev, keyVars, sgf, fileVars, faults>>

CreateSgf ==
    /\ pc = "sgf"
    /\ \/ sgf' = [sgf EXCEPT ![match] = "partial"] /\ pc' = "writeSgf"
       \/ sgf' = sgf /\ pc' = "idle"
    /\ UNCHANGED <<match, kp, prev, keyVars, pemVars, fileVars, faults>>

WriteSgf_IgnoreFault ==
    /\ pc = "writeSgf"
    /\ \/ sgf' = [sgf EXCEPT ![match] = "whole"]
       \/ sgf' = sgf
    /\ pc' = "chain"
    /\ UNCHANGED <<match, kp, prev, keyVars, pemVars, fileVars, faults>>

WriteSgf ==
    /\ pc = "writeSgf"
    /\ \/ sgf' = [sgf EXCEPT ![match] = "whole"] /\ pc' = "chain"
       \/ sgf' = sgf /\ pc' = "idle"
    /\ UNCHANGED <<match, kp, prev, keyVars, pemVars, fileVars, faults>>

\* lastLineHash of what was read.
LastLineHash == IF lines = <<>> THEN Genesis ELSE lines[Len(lines)].match

\* The ledger is read for the hash of its last complete line; a failed read
\* counts as an empty ledger.
ReadLedger_TailFault ==
    /\ pc = "chain"
    /\ prev' = IF tail THEN Genesis ELSE LastLineHash
    /\ pc' = "append"
    /\ UNCHANGED <<match, kp, keyVars, pemVars, sgf, fileVars, faults>>

ReadLedger ==
    /\ pc = "chain"
    /\ \/ pc' = "append" /\ prev' = LastLineHash /\ unread' = unread
       \/ pc' = "append" /\ prev' = Genesis /\ unread' = unread \cup {match}
       \/ pc' = "idle" /\ UNCHANGED <<prev, unread>>
    /\ UNCHANGED <<match, kp, keyVars, pemVars, sgf, lines, tail, faults>>

\* The entry is signed and appended: whole, in part, or not at all.
AppendLine ==
    /\ pc = "append"
    /\ \/ /\ lines' = Append(lines, [match |-> match, prev |-> prev, key |-> kp,
                                     marred |-> tail])
          /\ tail' = FALSE
       \/ lines' = lines /\ tail' = TRUE
       \/ lines' = lines /\ tail' = tail
    /\ pc' = "idle"
    /\ UNCHANGED <<match, kp, prev, keyVars, pemVars, sgf, unread, faults>>

-----------------------------------------------------------------------------
(* The process and the installation.                                       *)

\* The process dies; what it was writing may be there or not, as above.
Crash ==
    /\ pc # "idle" /\ faults.crashes < MaxCrashes
    /\ faults' = [faults EXCEPT !.crashes = @ + 1]
    /\ pc' = "idle"
    /\ UNCHANGED <<match, kp, prev, keyVars, pemVars, sgf, fileVars>>

\* The app's private files are gone, the user's folder stays.
Reinstall ==
    /\ pc = "idle" /\ faults.reinstalls < MaxReinstalls
    /\ faults' = [faults EXCEPT !.reinstalls = @ + 1]
    /\ privKey' = Absent /\ pubKey' = Absent
    /\ UNCHANGED <<pc, match, kp, prev, pemVars, sgf, fileVars>>

Next ==
    \/ Collect \/ LoadKey \/ CreateKey \/ StorePublic \/ FindPem \/ WritePem
    \/ CreateSgf \/ WriteSgf \/ ReadLedger \/ AppendLine \/ Crash \/ Reinstall

Spec == Init /\ [][Next]_vars

-----------------------------------------------------------------------------
(* CareerVerify.run: the findings, each a line and what is said of it.     *)

\* The signature is over the bytes before the first tab: of a fragment and
\* what follows it no signature was ever made.
SignatureOk(i) == ~lines[i].marred /\ pem = "written" /\ lines[i].key = pemKey

\* The previous line's hash, or genesis; prevExpected moves on at every line.
LinkOk_StuckFault(i) == lines[i].prev = Genesis

LinkOk(i) == lines[i].prev = IF i = 1 THEN Genesis ELSE lines[i - 1].match

Said(what, Lines) == {<<i, what>> : i \in Lines}

Findings ==
    LET all == DOMAIN lines
    IN  Said("rewritten", {l \in all : ~SignatureOk(l)})
          \cup Said("order", {l \in all : ~LinkOk(l)})
          \cup Said("missing", {l \in all : sgf[lines[l].match] = "absent"})
          \cup Said("changed", {l \in all : sgf[lines[l].match] = "partial"})

-----------------------------------------------------------------------------
(* Properties.                                                             *)

\* The variables stay in their types; past the key, collect has one in hand.
TypeOK ==
    /\ pc \in {"idle", "key", "pub", "pem", "writePem", "sgf", "writeSgf", "chain", "append"}
    /\ match \in 0..MaxMatches /\ (pc # "idle" => match # 0)
    /\ kp \in Key \cup {Absent} /\ (pc \notin {"idle", "key"} => kp # Absent)
    /\ privKey \in Key \cup {Absent} /\ pubKey \in Key \cup {Absent}
    /\ pem \in {"absent", "empty", "written"} /\ pemKey \in Key \cup {Absent}
    /\ faults \in [crashes : 0..MaxCrashes, reinstalls : 0..MaxReinstalls]
    /\ prev \in Match \cup {Genesis}
    /\ sgf \in [Match -> {"absent", "partial", "whole"}]
    /\ lines \in Seq(Line) /\ tail \in BOOLEAN /\ unread \subseteq Match

\* Through broken writes and crashes each entry links to the complete line
\* before it, and a fragment never anchors the chain ("only COMPLETE lines
\* anchor the chain", lastLineHash), as long as the ledger could be read.
ChainLinks ==
    \A i \in DOMAIN lines : lines[i].match \notin unread => LinkOk(i)

\* No entry is in the ledger before its match file is in the folder, whole: a
\* process that dies leaves a file without an entry, never the reverse.
EntriesAreFiled == \A i \in DOMAIN lines : sgf[lines[i].match] = "whole"

\* The verifier says nothing against a record nobody changed, unless a write or
\* a read failed or the key is another.
CleanRecordIsIntact ==
    /\ \A i \in DOMAIN lines : ~lines[i].marred
    /\ unread = {} /\ pem = "written" /\ faults.reinstalls = 0
    => Findings = {}

-----------------------------------------------------------------------------
(* What comments and documents say of the ledger.                          *)

\* CareerVerify 69: "The last entry wasn't fully written -- likely an
\* interruption, not a change. Your next match continues the record."
InterruptionIsNoChange ==
    unread = {} /\ pem = "written" /\ faults.reinstalls = 0 => Findings = {}

\* CareerLedger 62: "keep both halves together by storing the public alongside
\* on creation": between collections both halves of the key are there, or none.
KeyHalvesTogether == pc = "idle" => (privKey = Absent <=> pubKey = Absent)

\* CareerLedger 106: "Public key: present once, written on first collect."
PublicKeyIsWritten == lines # <<>> => pem = "written"

\* CareerLedger 29: each entry carries "sha256 of the PREVIOUS full stored line
\* (bytes before the newline), or "genesis"".
EveryEntryLinks == \A i \in DOMAIN lines : LinkOk(i)

\* docs/CRYPTOGRAPHY.md, 8: "lose the key and you lose nothing you played; a new
\* key simply signs from here on": the record stays free of findings.
LostKeyIsASeam ==
    /\ \A i \in DOMAIN lines : ~lines[i].marred
    /\ unread = {} /\ pem = "written"
    => Findings = {}
====
