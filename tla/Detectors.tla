------------------------------ MODULE Detectors ------------------------------
(***************************************************************************)
(* What the session makes of an event: the behavioural detectors           *)
(* (containre/detect/detectors.py) and the verdict that folds what they    *)
(* find (containre/control/verdict.py).                                    *)
(*                                                                         *)
(* An event is its kind, its operation and the path, address, URL or       *)
(* permissions it is about.  A finding is the id of its detection and what *)
(* the detector remembers of it, which is reported once.                   *)
(***************************************************************************)
EXTENDS Integers

CONSTANTS
  Decoys,      \* paths of the planted canaries
  Secrets,     \* paths that SensitiveFileDetector knows
  Heuristics,  \* detect.heuristics
  Iocs         \* detect.iocs

ASSUME SwitchAssumption == Heuristics \in BOOLEAN /\ Iocs \in BOOLEAN

TamperOps == {"write", "unlink", "rename", "chmod", "truncate"}
AccessOps == {"open", "read"}

Finding(id, key) == [id |-> id, key |-> key, tampering |-> FALSE]

-----------------------------------------------------------------------------
(* The detectors: the findings an event is evidence of, none or one each.   *)

Decoy(e) ==
  {f \in {[Finding("decoy-access", e.key) EXCEPT !.tampering = e.op \in TamperOps]} :
     e.kind = "file" /\ e.key \in Decoys /\ e.op \in TamperOps \cup AccessOps}

\* What the sink reports has no remote address, and counts when it is HTTP.
Egress(e) ==
  {f \in {Finding(IF e.op = "http" THEN "http-request" ELSE "network-egress", e.key)} :
     e.kind = "net" /\ e.op \in {"connect", "send", "http"}}

AntiDebug(e) ==
  {f \in {Finding("anti-debug", "once")} :
     e.kind = "syscall" /\ e.op \in {"ptrace", "process_vm_writev", "process_vm_readv"}}

\* Adding execute is enough for mprotect; a mapping has to be writable as well.
InjectionDetector(e) ==
  {f \in {Finding("rwx-memory", "once")} :
     e.kind = "mem" /\ <<e.op, e.key>> \in {<<"protect", "rx">>, <<"protect", "rwx">>, <<"map", "rwx">>}}

SensitiveFile(e) ==
  {f \in {Finding("sensitive-file-access", e.key)} :
     e.kind = "file" /\ e.op \in AccessOps /\ e.key \in Secrets}

\* default_detectors.
Findings(e) ==
  (IF Heuristics THEN Decoy(e) \cup AntiDebug(e) \cup InjectionDetector(e) \cup SensitiveFile(e) ELSE {})
    \cup (IF Iocs THEN Egress(e) ELSE {})

\* Mutant: a detector does not remember what it has reported.
FeedForgetful(e, seen) == Findings(e)

\* feed: what has been reported before is left out.
Feed(e, seen) == Findings(e) \ seen

-----------------------------------------------------------------------------
(* The verdict.                                                            *)

\* The severity a detector gives; a yara rule gives its own.
Severity(f) ==
  CASE f.id = "decoy-access" -> IF f.tampering THEN 4 ELSE 3
    [] f.id = "sensitive-file-access" -> 3
    [] f.id \in {"rwx-memory", "yara-rule-error"} -> 1
    [] OTHER -> 2

\* _FLAG_MAP.
Flag(id) ==
  CASE id = "decoy-access" -> "decoy-hit"
    [] id = "network-egress" -> "egress-attempt"
    [] id = "http-request" -> "http-c2"
    [] id = "sensitive-file-access" -> "credential-access"
    [] id = "rwx-memory" -> "executable-memory"
    [] OTHER -> id

NoVerdict == [severity |-> 0, flags |-> {}]

Absorb(v, f) ==
  [severity |-> IF Severity(f) > v.severity THEN Severity(f) ELSE v.severity,
   flags |-> v.flags \cup {Flag(f.id)}]

\* The verdict that a set of findings amounts to.
VerdictOf(found) ==
  [severity |-> CHOOSE n \in 0..4 : /\ n = 0 \/ \E f \in found : Severity(f) = n
                                    /\ \A f \in found : Severity(f) <= n,
   flags |-> {Flag(f.id) : f \in found}]
=============================================================================
