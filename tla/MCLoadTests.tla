----------------------------- MODULE MCLoadTests -----------------------------
EXTENDS LoadTests

MCPlans == {<<2>>, <<1, 1>>}

MCCommandLines ==
  [ramp |-> {{}, {"instance_id", "record_ledger"}},
   bench |-> {{}},
   ladder |-> {{}, {"prose"}},
   agentic |-> {{}, {"target_context"}, {"target_context", "llama.cpp"},
               {"accumulate_context", "fail_fast"}},
   pi |-> {{}, {"target_context"}, {"fail_fast"}}]
=============================================================================
