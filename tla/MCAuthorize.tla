----------------------------- MODULE MCAuthorize -----------------------------
(* A principal delegates pay and read to bob for a short while, and bob      *)
(* delegates pay to carol.  Requests are made with either chain, alone or as *)
(* a batch, with an item out of scope, by the wrong agent, too deep for the  *)
(* policy or with no item at all.                                            *)
EXTENDS Authorize, TLC

CONSTANTS alice, bob, carol, pay, read, scan

Root == [version |-> CertVersion, delegator |-> alice, delegate |-> bob,
         scope |-> {pay, read}, nonce |-> 1, issued_at |-> 1, expiration |-> 2,
         proof |-> [intents |-> {}, from |-> {}, ragged |-> FALSE],
         max_depth |-> 2, extensions |-> {}, signed |-> TRUE]

Sub == [Root EXCEPT !.delegator = bob, !.delegate = carol, !.scope = {pay},
        !.proof = [intents |-> {pay}, from |-> {pay, read}, ragged |-> FALSE],
        !.nonce = 2, !.max_depth = 0]

ChainOf(certs) == [principal |-> alice, scope |-> {pay, read}, certs |-> certs, drift |-> 1]

AskOf(chain, agent, items, batch) ==
  [chain |-> chain, agent |-> agent, items |-> items, batch |-> batch]

ItemOf(intent, path) == [intent |-> intent, path |-> path]

Both == {pay, read}

MCDemands ==
  [sub    |-> AskOf(ChainOf(<<Root, Sub>>), carol, <<ItemOf(pay, {})>>, FALSE),
   batch  |-> AskOf(ChainOf(<<Root>>), bob, <<ItemOf(pay, Both), ItemOf(read, Both)>>, TRUE),
   mixed  |-> AskOf(ChainOf(<<Root>>), bob, <<ItemOf(pay, Both), ItemOf(scan, Both)>>, TRUE),
   deep   |-> AskOf(ChainOf(<<Root, Sub, Sub>>), bob, <<ItemOf(pay, {})>>, FALSE),
   wrong  |-> AskOf(ChainOf(<<Root>>), carol, <<ItemOf(read, Both)>>, FALSE),
   empty  |-> AskOf(ChainOf(<<Root>>), bob, <<>>, TRUE)]

FewDemands == [sub |-> MCDemands.sub, mixed |-> MCDemands.mixed]

Symmetry == Permutations(Caller)

MCPolicies == <<[trusted |-> {alice}, max_chain_depth |-> 2, max_ttl_secs |-> 1,
                 allow_sub_delegation |-> FALSE, required_extensions |-> {}]>>
=============================================================================
