------------------------------ MODULE EvmFees ------------------------------
(***************************************************************************)
(* The fee of a deposit: the fee part of Bridge.sol with FeeCalculatorLib. *)
(***************************************************************************)
EXTENDS EvmChain

CONSTANTS
  Accounts,
  NoFee,                  \* a CustomAccountFee that is not set
  StandardFees,           \* rates the owner may ask for, for everyone
  CustomFees,             \* rates the owner may ask for, for an account
  InitialStandardFee, InitialDiscountedFee

MAX_FEE_BPS     == 100
BPS_DENOMINATOR == 10000

ASSUME FeeAssumption ==
  /\ StandardFees \cup CustomFees \subseteq Nat
  /\ InitialStandardFee \in 0..MAX_FEE_BPS /\ InitialDiscountedFee \in 0..MAX_FEE_BPS
  /\ NoFee \notin 0..MAX_FEE_BPS

VARIABLES
  feeConfig,              \* the rates, and whether cl8yToken is set
  customAccountFees       \* [account -> its own rate, or NoFee]

feeVars == <<feeConfig, customAccountFees>>

FeeInit ==
  /\ feeConfig = [standardFeeBps |-> InitialStandardFee,
                  discountedFeeBps |-> InitialDiscountedFee, cl8yToken |-> FALSE]
  /\ customAccountFees = [a \in Accounts |-> NoFee]

\* A custom rate, else the discount of a CL8Y holder, else the standard rate.
EffectiveFeeBps(a, holdsCl8y) ==
  IF customAccountFees[a] # NoFee THEN customAccountFees[a]
  ELSE IF feeConfig.cl8yToken /\ holdsCl8y THEN feeConfig.discountedFeeBps
  ELSE feeConfig.standardFeeBps

FeeFromBps(amount, bps) == (amount * bps) \div BPS_DENOMINATOR

CalculateFee(a, holdsCl8y, amount) == FeeFromBps(amount, EffectiveFeeBps(a, holdsCl8y))

SetFeeParams(standard, discounted, token) ==
  /\ OwnerMay("setFeeParams")
  /\ standard <= MAX_FEE_BPS /\ discounted <= MAX_FEE_BPS
  /\ feeConfig' = [standardFeeBps |-> standard, discountedFeeBps |-> discounted,
                   cl8yToken |-> token]
  /\ UNCHANGED customAccountFees

SetCustomAccountFee(a, bps) ==
  /\ OwnerMay("setCustomAccountFee")
  /\ bps <= MAX_FEE_BPS
  /\ customAccountFees' = [customAccountFees EXCEPT ![a] = bps]
  /\ UNCHANGED feeConfig

RemoveCustomAccountFee(a) ==
  /\ OwnerMay("removeCustomAccountFee")
  /\ customAccountFees' = [customAccountFees EXCEPT ![a] = NoFee]
  /\ UNCHANGED feeConfig

FeeAdmin ==
  \/ \E standard, discounted \in StandardFees, token \in BOOLEAN :
       SetFeeParams(standard, discounted, token)
  \/ \E a \in Accounts, bps \in CustomFees : SetCustomAccountFee(a, bps)
  \/ \E a \in Accounts : RemoveCustomAccountFee(a)

FeeTypeOK ==
  /\ feeConfig \in [standardFeeBps : 0..MAX_FEE_BPS, discountedFeeBps : 0..MAX_FEE_BPS,
                    cl8yToken : BOOLEAN]
  /\ customAccountFees \in [Accounts -> (0..MAX_FEE_BPS) \cup {NoFee}]
=============================================================================
