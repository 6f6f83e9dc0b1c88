---------------------------- MODULE GuardModules ----------------------------
(***************************************************************************)
(* The guard the bridge may consult before it takes a deposit or pays a    *)
(* withdrawal: GuardBridge.sol asks every module listed in its             *)
(* DatastoreSetAddress sets.  Two modules exist: BlacklistBasic refuses    *)
(* accounts, TokenRateLimit charges amounts to a window per token and      *)
(* direction.  A module that refuses reverts the call, charges included.   *)
(* As deployed the bridge has the guard and the guard has InitialModules.  *)
(***************************************************************************)
EXTENDS EvmChain

CONSTANTS
  Users,                         \* senders of deposits, recipients of withdrawals
  GuardLimits,                   \* limits the owner may set; 0 asks for the default
  InitialModules,                \* [direction -> the modules listed at the start]
  WINDOW_SECONDS,                \* 24 hours, in ticks
  DEFAULT_LIMIT_IF_ZERO_SUPPLY   \* 100 ether

Directions == {"deposit", "withdraw"}
Modules    == {"TokenRateLimit", "BlacklistBasic"}

ASSUME GuardAssumption ==
  /\ WINDOW_SECONDS \in Nat \ {0}
  /\ DEFAULT_LIMIT_IF_ZERO_SUPPLY \in Nat
  /\ GuardLimits \subseteq Nat
  /\ InitialModules \in [Directions -> SUBSET Modules]

VARIABLES
  guardBridge,      \* TRUE: the bridge has a guard, FALSE: address(0)
  guardModules,     \* [direction -> the modules listed for it]
  isBlacklisted,    \* the blacklisted users
  limitPerToken,    \* [direction -> [token -> limit]]
  windowPerToken,   \* [direction -> [token -> [windowStart, used]]]
  totalSupply       \* [token -> its supply, which the default limits follow]

guardVars == <<guardBridge, guardModules, isBlacklisted, limitPerToken, windowPerToken,
               totalSupply>>

GuardInit(Supplies) ==
  /\ guardBridge = TRUE
  /\ guardModules = InitialModules
  /\ isBlacklisted = {}
  /\ limitPerToken = [d \in Directions |-> [t \in Tokens |-> 0]]
  /\ windowPerToken = [d \in Directions |-> [t \in Tokens |-> [windowStart |-> 0, used |-> 0]]]
  /\ totalSupply \in [Tokens -> Supplies]

(***************************************************************************)
(* TokenRateLimit                                                          *)
(***************************************************************************)
DefaultLimit(t) ==
  IF totalSupply[t] = 0 THEN DEFAULT_LIMIT_IF_ZERO_SUPPLY ELSE totalSupply[t] \div 1000

EffectiveLimit(d, t) ==
  IF limitPerToken[d][t] = 0 THEN DefaultLimit(t) ELSE limitPerToken[d][t]

\* Plausible defect: every check opens a window.
OpensEveryTime(win) == [windowStart |-> now, used |-> 0]

\* _resetIfWindowExpired: a first use only dates the window, an expired one is emptied.
ResetIfExpired(win) ==
  IF win.windowStart = 0 THEN [win EXCEPT !.windowStart = now]
  ELSE IF win.windowStart + WINDOW_SECONDS <= now THEN [windowStart |-> now, used |-> 0]
  ELSE win

\* checkDeposit and checkWithdraw of TokenRateLimit.
ChargeWindow(d, t, amount) ==
  LET win == ResetIfExpired(windowPerToken[d][t])
  IN  /\ win.used + amount <= EffectiveLimit(d, t)
      /\ windowPerToken' = [windowPerToken EXCEPT ![d][t] = [win EXCEPT !.used = @ + amount]]

(***************************************************************************)
(* The check the bridge makes                                              *)
(***************************************************************************)
RateLimited(d) == guardBridge /\ "TokenRateLimit" \in guardModules[d]

\* Every listed module is asked; one refusal reverts them all.
CheckGuard(d, t, amount, user) ==
  /\ guardBridge /\ "BlacklistBasic" \in guardModules[d] => user \notin isBlacklisted
  /\ IF RateLimited(d) THEN ChargeWindow(d, t, amount) ELSE UNCHANGED windowPerToken
  /\ UNCHANGED <<guardBridge, guardModules, isBlacklisted, limitPerToken, totalSupply>>

(***************************************************************************)
(* Administration                                                          *)
(***************************************************************************)
SetGuardBridge(on) ==
  /\ OwnerMay("setGuardBridge")
  /\ guardBridge' = on
  /\ UNCHANGED <<guardModules, isBlacklisted, limitPerToken, windowPerToken, totalSupply>>

AddGuardModule(d, m) ==
  /\ OwnerMay("addGuardModule")
  /\ guardModules' = [guardModules EXCEPT ![d] = @ \cup {m}]
  /\ UNCHANGED <<guardBridge, isBlacklisted, limitPerToken, windowPerToken, totalSupply>>

\* The module keeps its windows while it is not listed.
RemoveGuardModule(d, m) ==
  /\ OwnerMay("removeGuardModule")
  /\ guardModules' = [guardModules EXCEPT ![d] = @ \ {m}]
  /\ UNCHANGED <<guardBridge, isBlacklisted, limitPerToken, windowPerToken, totalSupply>>

SetIsBlacklisted(users, on) ==
  /\ OwnerMay("setIsBlacklisted")
  /\ isBlacklisted' = IF on THEN isBlacklisted \cup users ELSE isBlacklisted \ users
  /\ UNCHANGED <<guardBridge, guardModules, limitPerToken, windowPerToken, totalSupply>>

\* setDepositLimit and setWithdrawLimit: the running window and its use stay.
SetLimit(d, t, limit) ==
  /\ OwnerMay("setLimit")
  /\ limitPerToken' = [limitPerToken EXCEPT ![d][t] = limit]
  /\ UNCHANGED <<guardBridge, guardModules, isBlacklisted, windowPerToken, totalSupply>>

SetLimitsBatch(tokens, deposits, withdrawals) ==
  /\ OwnerMay("setLimitsBatch")
  /\ limitPerToken' =
       [d \in Directions |-> [t \in Tokens |->
          IF t \notin tokens THEN limitPerToken[d][t]
          ELSE IF d = "deposit" THEN deposits[t] ELSE withdrawals[t]]]
  /\ UNCHANGED <<guardBridge, guardModules, isBlacklisted, windowPerToken, totalSupply>>

\* The token contract mints or burns.
SupplyBecomes(t, s) ==
  /\ OwnerMay("mintOrBurn")
  /\ totalSupply' = [totalSupply EXCEPT ![t] = s]
  /\ UNCHANGED <<guardBridge, guardModules, isBlacklisted, limitPerToken, windowPerToken>>

GuardAdmin(Supplies) ==
  \/ \E on \in BOOLEAN : SetGuardBridge(on)
  \/ \E d \in Directions, m \in Modules : AddGuardModule(d, m) \/ RemoveGuardModule(d, m)
  \/ \E users \in SUBSET Users, on \in BOOLEAN : SetIsBlacklisted(users, on)
  \/ \E d \in Directions, t \in Tokens, limit \in GuardLimits : SetLimit(d, t, limit)
  \/ \E tokens \in SUBSET Tokens : \E deposits, withdrawals \in [tokens -> GuardLimits] :
       SetLimitsBatch(tokens, deposits, withdrawals)
  \/ \E t \in Tokens, s \in Supplies : SupplyBecomes(t, s)

GuardTypeOK(Supplies) ==
  /\ guardBridge \in BOOLEAN
  /\ guardModules \in [Directions -> SUBSET Modules]
  /\ isBlacklisted \subseteq Users
  /\ limitPerToken \in [Directions -> [Tokens -> Nat]]
  /\ windowPerToken \in [Directions -> [Tokens -> [windowStart : Nat, used : Nat]]]
  /\ totalSupply \in [Tokens -> Supplies]
=============================================================================
