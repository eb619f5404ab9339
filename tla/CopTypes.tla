------------------------------ MODULE CopTypes ------------------------------
(***************************************************************************)
(* Vocabulary shared by the two ends of COP-1: the sequence numbers, the   *)
(* transfer frames that travel up and the control words (CLCW) that travel *)
(* down.  Only what the protocol looks at is kept: the frame's type and    *)
(* number, the identity of the service data unit it carries, and the four  *)
(* CLCW fields the sender reads.                                           *)
(***************************************************************************)
EXTENDS Integers, Sequences

CONSTANTS
    SeqMod,     \* modulus of V(S), V(R), N(S), N(R); 256 in the code (uint8_t)
    SDU,        \* identities of the service data units
    NoSDU       \* stands for "carries no service data unit" (control frames)

ASSUME SeqModAssumption == SeqMod \in Nat /\ SeqMod >= 2
ASSUME SDUAssumption == NoSDU \notin SDU

SeqNum == 0 .. SeqMod - 1

Inc_NoWrap(x) == x + 1

(* (x + 1) % 256, the increment the code writes for V(S) and V(R). *)
Inc(x) == (x + 1) % SeqMod

(***************************************************************************)
(* A frame's code is its bypass and ctrl_cmd bits, the control frames told *)
(* apart by their data field.  num is N(S) in an AD frame, the new V(R) in *)
(* a Set V(R) frame and 0 in the others (osdlp_tc_pack writes 0).          *)
(***************************************************************************)
Codes == {"AD", "BD", "UNLOCK", "SETVR"}

Frame == [code : Codes, num : SeqNum, sdu : SDU \cup {NoSDU}]

Clcw == [lockout : BOOLEAN, wait : BOOLEAN, rt : BOOLEAN, nr : SeqNum]
=============================================================================
