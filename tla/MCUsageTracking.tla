------------------------------ MODULE MCUsageTracking ------------------------------
(* An instance of UsageTracking for TLC: a root and one child, and answers that    *)
(* cover streams, documents, an answer without usage and one without a model.      *)
EXTENDS UsageTracking

MCParentOf == <<0, 1>>
MCVendorings == {<<"openai", "anthropic">>}
MCModels == {"claude-sonnet-5", "gpt-5.5", "unknown"}

Answer(stream, model, usage, agent) == [sse |-> stream, model |-> model, usage |-> usage, agent |-> agent]

MCAnswers ==
  [anthropic |-> {Answer(TRUE, "claude-sonnet-5", Tokens(3, 2, 1, 1), "explorer"),
                  Answer(TRUE, "", Tokens(2, 1, 0, 2), "explorer"),
                  Answer(FALSE, "claude-sonnet-5", NoUsage, "")},
   openai    |-> {Answer(TRUE, "gpt-5.5", Tokens(3, 2, 0, 1), ""),
                  Answer(FALSE, "", Tokens(2, 1, 0, 0), "")}]
===============================================================================
