------------------------------ MODULE HookScan ------------------------------
(***************************************************************************)
(* HookDetector::scanAll over the sections of one module (src/hooks): the  *)
(* inline detector decodes the first instruction of each section and       *)
(* reports a jump that leaves the module; the import and export table      *)
(* detectors are stubs that report nothing. Addresses are unsigned and     *)
(* wrap at AddressCount; displacements are signed, immediates unsigned,    *)
(* both of a smaller width, 2 * HalfWord values.                           *)
(***************************************************************************)
EXTENDS Integers

CONSTANTS
  AddressCount,   \* 2^64
  HalfWord,       \* 2^31
  ModuleBase,     \* targetModule.baseAddress
  ModuleSize,     \* targetModule.size
  Sections        \* the addresses of its code sections

ASSUME HookAssumption ==
  /\ AddressCount \in Nat \ {0} /\ HalfWord \in Nat \ {0}
  /\ 2 * HalfWord <= AddressCount
  /\ ModuleBase \in Nat /\ ModuleSize \in Nat /\ ModuleBase + ModuleSize < AddressCount
  /\ Sections \subseteq ModuleBase..(ModuleBase + ModuleSize - 1)

(* What a section begins with: E9 rel32, FF 25 disp32, 68 imm32 C3, other. *)
Words == 0..(2 * HalfWord - 1)
Prologues == [code : {"jump", "jump through", "push return"}, word : Words]
               \union [code : {"other"}, word : {0}]
JumpLength == 5
LongLength == 6

VARIABLES
  prologue,    \* per section: its first instruction
  readable,    \* per section: bytes that can be read of the prologue inspected
  toScan,      \* sections not scanned yet
  findings,    \* locations reported
  detecting    \* "no", "scanning", "done" or "failed"

hookVars == <<prologue, readable, toScan, findings, detecting>>

HookInit ==
  /\ prologue = [s \in Sections |-> [code |-> "other", word |-> 0]]
  /\ readable = [s \in Sections |-> 0]
  /\ toScan = {} /\ findings = {}
  /\ detecting = "no"

-----------------------------------------------------------------------------
Signed(word) == IF word >= HalfWord THEN word - 2 * HalfWord ELSE word
NoTarget == -1

(* Mutant: a displacement that is not sign-extended.                       *)
DecodeRedirectTarget_Unsigned(section) ==
  LET p == prologue[section]
  IN IF p.code = "jump" /\ readable[section] >= JumpLength
     THEN (section + JumpLength + p.word) % AddressCount
     ELSE IF p.code = "jump through" /\ readable[section] >= LongLength
     THEN (section + LongLength + p.word) % AddressCount
     ELSE IF p.code = "push return" /\ readable[section] >= LongLength
     THEN p.word ELSE NoTarget

(* decodeRedirectTarget(). For a jump through a pointer it answers with    *)
(* the address of the pointer.                                             *)
DecodeRedirectTarget(section) ==
  LET p == prologue[section]
  IN IF p.code = "jump" /\ readable[section] >= JumpLength
     THEN (section + JumpLength + Signed(p.word)) % AddressCount
     ELSE IF p.code = "jump through" /\ readable[section] >= LongLength
     THEN (section + LongLength + Signed(p.word)) % AddressCount
     ELSE IF p.code = "push return" /\ readable[section] >= LongLength
     THEN p.word ELSE NoTarget

ModuleEnd == (ModuleBase + ModuleSize) % AddressCount

(* detectHooks(): modules are enumerated, or it fails. A section that is   *)
(* short or cannot be read has fewer readable bytes, or none.              *)
DetectHooks ==
  /\ detecting = "no"
  /\ \/ detecting' = "failed" /\ UNCHANGED <<prologue, readable, toScan>>
     \/ /\ prologue' \in [Sections -> Prologues]
        /\ readable' \in [Sections -> {0, JumpLength, LongLength}]
        /\ \A s \in Sections : readable'[s] = 0 => prologue'[s].code = "other"
        /\ toScan' = Sections
        /\ detecting' = "scanning"
  /\ UNCHANGED findings

(* One round of the loop of InlineHookDetector::scan().                    *)
ScanSection ==
  /\ detecting = "scanning" /\ toScan # {}
  /\ LET section == CHOOSE s \in toScan : \A t \in toScan : s <= t
         target == DecodeRedirectTarget(section)
     IN /\ toScan' = toScan \ {section}
        /\ findings' = findings \union
             (IF target # NoTarget /\ (target < ModuleBase \/ target >= ModuleEnd)
              THEN {section} ELSE {})
  /\ UNCHANGED <<prologue, readable, detecting>>

ScanAllReturns ==
  /\ detecting = "scanning" /\ toScan = {}
  /\ detecting' = "done"
  /\ UNCHANGED <<prologue, readable, toScan, findings>>

HookNext == DetectHooks \/ ScanSection \/ ScanAllReturns

HookSpec == HookInit /\ [][HookNext]_hookVars

-----------------------------------------------------------------------------
(* Where the processor goes: it sign-extends displacements and immediates. *)
InModule == ModuleBase..(ModuleBase + ModuleSize - 1)
Landing(section) ==
  LET p == prologue[section]
  IN IF p.code = "jump" THEN (section + JumpLength + Signed(p.word)) % AddressCount
     ELSE Signed(p.word) % AddressCount
Decided(section) ==
  \/ prologue[section].code = "jump" /\ readable[section] >= JumpLength
  \/ /\ prologue[section].code = "push return" /\ readable[section] >= LongLength
     /\ prologue[section].word < HalfWord

(* Of the sections that begin with a jump, or a push of a lower-half word  *)
(* and a return, read in full, exactly those are reported from which the   *)
(* processor leaves the module, forwards, backwards or past address 0; no  *)
(* section without a recognised instruction is, and an unreadable section  *)
(* does not end the scan.                                                  *)
FindingsAreEscapes ==
  detecting = "done" =>
    \A s \in Sections :
      /\ Decided(s) => (s \in findings <=> Landing(s) \notin InModule)
      /\ prologue[s].code = "other" \/ readable[s] < JumpLength => s \notin findings
=============================================================================
