----------------------------- MODULE MCLLMBudget -----------------------------
(***************************************************************************)
(* Small instances of LLMBudget: budgets with either limit, both or none.  *)
(***************************************************************************)
EXTENDS LLMBudget

Budgets ==
    {[cost |-> c, calls |-> n] : c \in {3, NoLimit}, n \in {0, 2, NoLimit}}
=============================================================================
