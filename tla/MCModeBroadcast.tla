-------------------------- MODULE MCModeBroadcast --------------------------
(***************************************************************************)
(* Constants for model-checking ModeBroadcast: the flash model, a current  *)
(* and a historical OpenAI model, and a model the registry does not know.  *)
(***************************************************************************)
EXTENDS ModeBroadcast, TLC

CONSTANTS flash, sol, old, new, openai, deepseek, none

MCInferred == (flash :> deepseek) @@ (sol :> openai) @@ (old :> openai) @@ (new :> none)

\* Events as the gateway sends them, and successes attributed to another
\* provider than the model's own.
MCEvents ==
  {[model |-> m, provider |-> none, kind |-> k] :
     m \in {flash, sol, old, new}, k \in {"ok", "model", "both"}}
  \cup {[model |-> flash, provider |-> openai, kind |-> k] : k \in {"ok", "provider"}}
  \cup {[model |-> new, provider |-> openai, kind |-> k] : k \in {"ok", "other"}}
  \cup {[model |-> sol, provider |-> deepseek, kind |-> "ok"]}
=============================================================================
