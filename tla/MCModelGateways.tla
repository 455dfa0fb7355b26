---------------------------- MODULE MCModelGateways ----------------------------
(* Instances of ModelGateways for TLC.                                      *)
EXTENDS ModelGateways, TLC

Local == [provider |-> "deterministic", gateway |-> 0, model |-> "hash", dimension |-> 2,
          answers |-> 2]

East == [Local EXCEPT !.provider = "openai-compatible", !.gateway = 1, !.model = "bge"]

\* Another gateway has a model of the same name.
West == [East EXCEPT !.gateway = 2]

\* A provider name with a blank: vectors of the gateway under the local model's name.
Padded == [East EXCEPT !.provider = "padded"]

\* The key was forgotten.
Keyless == [East EXCEPT !.gateway = 0]

\* Vectors longer than the configured dimension.
Long == [East EXCEPT !.answers = 3]

MCSettings == {Local, East, West, Padded, Keyless, Long}

MCWork == {[purpose |-> "index", texts |-> <<"a", "b", "b">>],
           [purpose |-> "remember", texts |-> <<"a">>],
           [purpose |-> "recall", texts |-> <<"b">>]}

Interchangeable == Permutations(Processes)

=============================================================================
