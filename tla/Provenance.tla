----------------------------- MODULE Provenance ------------------------------
(* provenance.rs and the receipts of identity/receipt.rs: an agent records   *)
(* the steps of its reasoning, a receipt takes a commitment to them, and     *)
(* later single steps are disclosed with a path to the commitment. Recording *)
(* may go on after a commitment was taken.                                   *)
(*                                                                           *)
(* Hashes are terms, as in Merkle: a step is a term that holds its index.    *)
EXTENDS Merkle

CONSTANTS
  Content,      \* positive numbers: what a step may hold
  Fingerprint,  \* chains of receipts
  MaxSteps,
  NoRoot

ASSUME ProvenanceAssumption == Content \subseteq Nat \ {0} /\ MaxSteps \in Nat

VARIABLES
  steps,        \* the trace
  receipt,      \* fingerprint -> the root its receipt carries
  covers        \* fingerprint -> the steps that root was taken of

provVars == <<steps, receipt, covers>>

(* Plausible mistake: the leaf binds the place and not what the step holds.  *)
leaf_without_content(step) == <<1, step.index, 1>>

(* ReasoningStep::leaf_hash binds the index, the kind and the content.       *)
leaf_hash(step) == <<1, step.index, step.content>>

(* p <<= 1 *)
power[k \in Nat] == IF k = 0 THEN 1 ELSE 2 * power[k - 1]

(* trailing_zeros of next_power_of_two: how often 1 is doubled.              *)
depth(n) ==
  CHOOSE k \in 0..n : power[k] >= n /\ \A j \in 0..n : power[j] >= n => k <= j

next_power_of_two(n) == power[depth(n)]

(* The leaves, the last one repeated up to a power of two, and each layer of *)
(* pairs above them.                                                         *)
padded(s) ==
  [i \in 1..next_power_of_two(Len(s)) |-> leaf_hash(s[IF i <= Len(s) THEN i ELSE Len(s)])]

pairs(below) ==
  [i \in 1..(Len(below) \div 2) |-> merkle_node(below[2 * i - 1], below[2 * i])]

layer(s) ==
  LET at[n \in Nat] == IF n = 0 THEN padded(s) ELSE pairs(at[n - 1])
  IN  at

build_merkle_root(s) == layer(s)[depth(Len(s))][1]

(* ReasoningTrace::finalize: the commitment, bound to the chain it is for.   *)
finalize(s, fp) ==
  [step_count |-> Len(s), merkle_root |-> build_merkle_root(s), chain_binding |-> fp]

(* Plausible mistake: the neighbour is always the first of its layer.        *)
step_proof_first(s, index) ==
  [step |-> s[index + 1], step_count |-> Len(s),
   siblings |-> [n \in 1..depth(Len(s)) |-> layer(s)[n - 1][1]]]

(* ReasoningTrace::step_proof; index counts from 0.                          *)
step_proof(s, index) ==
  LET ls == layer(s)
      pos == halved(index)
  IN  [step |-> s[index + 1], step_count |-> Len(s),
       siblings |-> [n \in 1..depth(Len(s)) |-> ls[n - 1][beside(pos[n - 1]) + 1]]]

(* ProvenanceStepProof::verify: on which side a sibling is follows from the  *)
(* index.                                                                    *)
sided(proof) ==
  [n \in 1..Len(proof.siblings) |->
     [hash |-> proof.siblings[n], is_left |-> halved(proof.step.index)[n - 1] % 2 = 1]]

verify_step(proof, rt) ==
  /\ proof.step.index < proof.step_count
  /\ proof.step_count = rt.step_count
  /\ Len(proof.siblings) = depth(proof.step_count)
  /\ climb(leaf_hash(proof.step), sided(proof)) = rt.merkle_root

ProvInit ==
  /\ steps = << >>
  /\ receipt = [f \in Fingerprint |-> NoRoot]
  /\ covers = [f \in Fingerprint |-> << >>]

(* record, record_tool_call, record_observation and record_hashed differ in  *)
(* what they hash.                                                           *)
Record(c) ==
  /\ Len(steps) < MaxSteps
  /\ steps' = Append(steps, [index |-> Len(steps), content |-> c])
  /\ UNCHANGED <<receipt, covers>>

(* bind_reasoning_trace: finalizes for the receipt's chain, at any time and  *)
(* more than once; an empty trace is refused.                                *)
Bind(f) ==
  /\ steps # << >>
  /\ receipt' = [receipt EXCEPT ![f] = finalize(steps, f)]
  /\ covers' = [covers EXCEPT ![f] = steps]
  /\ UNCHANGED steps

(* with_provenance takes any root, one taken for another chain too.          *)
Attach(f, g) ==
  /\ receipt[g] # NoRoot
  /\ receipt' = [receipt EXCEPT ![f] = receipt[g]]
  /\ covers' = [covers EXCEPT ![f] = covers[g]]
  /\ UNCHANGED steps

ProvNext ==
  \/ \E c \in Content : Record(c)
  \/ \E f \in Fingerprint : Bind(f)
  \/ \E f, g \in Fingerprint : Attach(f, g)

ProvSpec == ProvInit /\ [][ProvNext]_provVars

(* The steps are numbered from 0.                                            *)
ProvTypeOK ==
  /\ \A i \in 1..Len(steps) : steps[i].index = i - 1 /\ steps[i].content \in Content
  /\ \A f \in Fingerprint : receipt[f] # NoRoot => receipt[f].step_count <= Len(steps)

(* Any step, at any index, that somebody may claim.                          *)
Claim == [index : 0..MaxSteps, content : Content]

(* A step that the trace does not have, or not at that index, is never       *)
(* disclosed: with any of the paths step_proof gives, for the trace as it    *)
(* was or as it has become, and any length claimed for it, verify refuses.   *)
DisclosedWasRecorded ==
  \A f \in Fingerprint : receipt[f] # NoRoot =>
    \A s \in {steps, covers[f]}, claim \in Claim : \A i \in 0..(Len(s) - 1) :
      verify_step([step_proof(s, i) EXCEPT !.step = claim, !.step_count = receipt[f].step_count], receipt[f])
        => claim.index < Len(covers[f]) /\ covers[f][claim.index + 1] = claim

(* Every step a root was taken of can be disclosed: verify accepts what      *)
(* step_proof gave for that trace, for every length, the lengths that pad    *)
(* the tree included; and it refuses a path made after more steps were       *)
(* recorded, which is another tree.                                          *)
CoveredCanBeDisclosed ==
  \A f \in Fingerprint : receipt[f] # NoRoot =>
    /\ \A i \in 1..Len(covers[f]) : verify_step(step_proof(covers[f], i - 1), receipt[f])
    /\ steps # covers[f] =>
         \A i \in 1..Len(steps) : ~verify_step(step_proof(steps, i - 1), receipt[f])

(* A root (ProvenanceRoot) discloses exactly the steps it was taken of, each *)
(* at its own index.                                                         *)
DisclosureExact == DisclosedWasRecorded /\ CoveredCanBeDisclosed
=============================================================================
