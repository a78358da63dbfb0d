---------------------------- MODULE InputBudget ----------------------------
(***************************************************************************)
(* The Compressed Input Budget (image_source/compressed.rs): how much      *)
(* compressed input a decoder may consume for the output it has produced.  *)
(* Preflight and every replay keep a balance of their own and update it    *)
(* before the decoder sees more input.                                     *)
(***************************************************************************)
EXTENDS Integers

CONSTANTS Cap,  \* INPUT_BUDGET_CAP
          Rate  \* INPUT_BUDGET_RATE_DENOMINATOR

ASSUME BudgetAssumption == Cap \in Nat /\ Rate \in Nat \ {0}

VARIABLES tokens,   \* what may still be consumed
          carried,  \* credit_remainder
          credited, \* credited_logical
          charged   \* charged_consumed

budget == <<tokens, carried, credited, charged>>

Smaller(a, b) == IF a <= b THEN a ELSE b

NewBudget == tokens = Cap /\ carried = 0 /\ credited = 0 /\ charged = 0
ResetBudget == tokens' = Cap /\ carried' = 0 /\ credited' = 0 /\ charged' = 0

\* The extra tokens of `output` bytes, beyond one each; fractions are carried.
Extra(output) == (output \div Rate) + ((carried + (output % Rate)) \div Rate)

BankedTokens(output) == tokens + output + Extra(output)
CreditedTokens(output) == Smaller(BankedTokens(output), Cap)

Covers(input, output) == input - charged <= CreditedTokens(output - credited)

\* InputBudgetMeter::update, with the running totals.  A refused charge leaves the
\* credit that was given before it.
Credit(output) ==
  /\ carried' = (carried + ((output - credited) % Rate)) % Rate
  /\ credited' = output

\* Mistaken variant: past output is banked.
ChargeUncapped(input, output) ==
  /\ Credit(output)
  /\ tokens' = BankedTokens(output - credited) - (input - charged)
  /\ charged' = input

Charge(input, output) ==
  /\ Covers(input, output)
  /\ Credit(output)
  /\ tokens' = CreditedTokens(output - credited) - (input - charged)
  /\ charged' = input

Refuse(input, output) ==
  /\ ~Covers(input, output)
  /\ Credit(output)
  /\ tokens' = CreditedTokens(output - credited)
  /\ UNCHANGED charged

BudgetTypeOK ==
  /\ tokens \in 0..Cap
  /\ carried \in 0..(Rate - 1)
  /\ credited \in Nat /\ charged \in Nat
=============================================================================
