------------------------------- MODULE Beadz --------------------------------
(***************************************************************************)
(* The reserve token, contract/src/Beadz.sol.  One action per external     *)
(* function that changes state; a call that a require() or checked         *)
(* arithmetic reverts is a step that is not taken.  Amounts are in wei,    *)
(* UNIT wei to the bead (1e18 in the source).  Tick is the chain's clock:  *)
(* block.timestamp grows between transactions, and any number of them      *)
(* share one timestamp.                                                    *)
(***************************************************************************)
EXTENDS Integers, FiniteSets, Functions

CONSTANTS
  Users,            \* the addresses that can sign a transaction
  Contract,         \* address(this): holds the open-claim pile, signs nothing
  NoOne,            \* address(0)
  Treasury,         \* the constructor's treasury_
  FirstKeeper,      \* the constructor's keeper
  AIRDROP_BEADS,    \* the constructor's airdropBeads
  GENESIS_BEADS,
  UNIT,             \* CLAIM_AMOUNT and MIN_REDEMPTION: one whole bead in wei
  DRIP_INTERVAL, DRIP_CAP,
  WINDOW,           \* the 365 days of the first redemption window
  MAX_EXTENSION,
  GENESIS_TIME,     \* block.timestamp of the deployment
  Recounts,         \* the bead counts the keeper may attest
  MaxNow,           \* bound on the clock
  MaxDeadline       \* bound on the deadlines the keeper asks for

Addresses == Users \union {Contract}

ASSUME AddressesAssumption ==
  /\ IsFiniteSet(Users)       \* an address has 160 bits
  /\ Contract \notin Users
  /\ NoOne \notin Addresses
  /\ Treasury \in Users
  /\ FirstKeeper \in Users

ASSUME AmountsAssumption ==
  /\ GENESIS_BEADS \in Nat
  /\ AIRDROP_BEADS \in 0..GENESIS_BEADS
  /\ UNIT \in Nat \ {0}
  /\ Recounts \subseteq Nat

ASSUME TimesAssumption ==
  /\ DRIP_INTERVAL \in Nat \ {0}
  /\ DRIP_CAP \in Nat \ {0}
  /\ WINDOW \in Nat
  /\ MAX_EXTENSION \in Nat
  /\ GENESIS_TIME \in Nat
  /\ MaxNow \in Nat
  /\ MaxDeadline \in Nat

VARIABLES
  now,                 \* block.timestamp
  balance, totalSupply,
  hasClaimed, dripAnchor, claimCounter,
  redemptionDeadline, vaultKeeper, attestedBeads,
  \* History, read by no action:
  netDraw,             \* per user: wei claimed from the pile minus wei surrendered to it
  redeemedBeads        \* beads burned for shipment

tokens == <<balance, totalSupply>>
faucet == <<hasClaimed, dripAnchor, claimCounter>>
keeper == <<redemptionDeadline, vaultKeeper, attestedBeads>>
history == <<netDraw, redeemedBeads>>
vars == <<now, tokens, faucet, keeper, history>>

Larger(a, b) == IF a >= b THEN a ELSE b
Lesser(a, b) == IF a <= b THEN a ELSE b

FullFaucet == DRIP_CAP * DRIP_INTERVAL

Init ==
  /\ now = GENESIS_TIME
  /\ balance = [a \in Addresses |->
       CASE a = Treasury -> AIRDROP_BEADS * UNIT
         [] a = Contract -> (GENESIS_BEADS - AIRDROP_BEADS) * UNIT
         [] OTHER -> 0]
  /\ totalSupply = GENESIS_BEADS * UNIT
  /\ hasClaimed = [a \in Users |-> FALSE]
  /\ dripAnchor = GENESIS_TIME
  /\ claimCounter = 0
  /\ redemptionDeadline = GENESIS_TIME + WINDOW
  /\ vaultKeeper = FirstKeeper
  /\ attestedBeads = GENESIS_BEADS
  /\ netDraw = [a \in Users |-> 0]
  /\ redeemedBeads = 0

-----------------------------------------------------------------------------
(* The ERC-20 ledger under the contract (OpenZeppelin).                    *)

Move(from, to, amount) ==
  /\ balance[from] >= amount
  /\ balance' = IF from = to THEN balance
                ELSE [balance EXCEPT ![from] = @ - amount, ![to] = @ + amount]
  /\ totalSupply' = totalSupply

Burn(from, amount) ==
  /\ balance[from] >= amount
  /\ balance' = [balance EXCEPT ![from] = @ - amount]
  /\ totalSupply' = totalSupply - amount

\* transfer, and transferFrom with an allowance: a holder's wei go anywhere,
\* the contract's own address included.
Transfer(from, to, amount) ==
  /\ Move(from, to, amount)
  /\ UNCHANGED <<now, faucet, keeper, history>>

-----------------------------------------------------------------------------
(* The faucet                                                              *)

\* Mutant: the gate opens one second after the view says so.
FaucetOpenLate ==
  /\ balance[Contract] >= UNIT
  /\ now - dripAnchor > DRIP_INTERVAL
  /\ now >= FullFaucet

FaucetOpen ==
  /\ balance[Contract] >= UNIT
  /\ now - dripAnchor >= DRIP_INTERVAL
  /\ now >= FullFaucet        \* block.timestamp - DRIP_CAP * DRIP_INTERVAL is checked

\* Mutants: a claim that costs nothing; idle days banked without limit.
AnchorStays == Larger(dripAnchor, now - FullFaucet)
AnchorBanks == dripAnchor + DRIP_INTERVAL

AdvancedAnchor == Larger(dripAnchor, now - FullFaucet) + DRIP_INTERVAL

Claim(user) ==
  /\ ~hasClaimed[user]
  /\ FaucetOpen
  /\ dripAnchor' = AdvancedAnchor
  /\ hasClaimed' = [hasClaimed EXCEPT ![user] = TRUE]
  /\ claimCounter' = claimCounter + 1
  /\ Move(Contract, user, UNIT)
  /\ netDraw' = [netDraw EXCEPT ![user] = @ + UNIT]
  /\ UNCHANGED <<now, keeper, redeemedBeads>>

\* Mutant: dust reopens the door.
ReopensForDust(amount) == amount > 0

ReopensDoor(amount) == amount >= UNIT

Surrender(user, amount) ==
  /\ amount > 0
  /\ hasClaimed' = [hasClaimed EXCEPT ![user] = @ /\ ~ReopensDoor(amount)]
  /\ Move(user, Contract, amount)
  /\ netDraw' = [netDraw EXCEPT ![user] = @ - amount]
  /\ UNCHANGED <<now, dripAnchor, claimCounter, keeper, redeemedBeads>>

-----------------------------------------------------------------------------
(* Redemption                                                              *)

\* Mutant: the window closes a second late.
RedemptionOpenLate == now <= redemptionDeadline + 1

RedemptionOpen == now <= redemptionDeadline

\* Mutant: any amount of at least one bead can be shipped.
RedeemableFraction(amount) == amount >= UNIT

RedeemableLot(amount) == amount >= UNIT /\ amount % UNIT = 0

Redeem(user, amount) ==
  /\ RedemptionOpen
  /\ RedeemableLot(amount)
  /\ Burn(user, amount)
  /\ redeemedBeads' = redeemedBeads + amount \div UNIT
  /\ UNCHANGED <<now, faucet, keeper, netDraw>>

-----------------------------------------------------------------------------
(* The Vault Keeper                                                        *)

\* Mutants: the difference from the supply is kept instead of the count; anyone
\* may attest.
AttestDifference(user, beads) ==
  /\ user = vaultKeeper
  /\ attestedBeads' = beads - totalSupply \div UNIT
  /\ UNCHANGED <<now, tokens, faucet, redemptionDeadline, vaultKeeper, history>>

AttestByAnyone(user, beads) ==
  /\ attestedBeads' = beads
  /\ UNCHANGED <<now, tokens, faucet, redemptionDeadline, vaultKeeper, history>>

AttestBeadCount(user, beads) ==
  /\ user = vaultKeeper
  /\ attestedBeads' = beads
  /\ UNCHANGED <<now, tokens, faucet, redemptionDeadline, vaultKeeper, history>>

\* Mutant: an open window may be pulled in.
DeadlineMayShrink(deadline) ==
  /\ deadline > now
  /\ deadline <= (IF RedemptionOpen THEN redemptionDeadline ELSE now) + MAX_EXTENSION

\* The two branches of setRedemptionDeadline: an open window moves outward
\* only, a lapsed one is reopened from now.
AllowedDeadline(deadline) ==
  /\ deadline > now
  /\ IF RedemptionOpen
       THEN redemptionDeadline <= deadline /\ deadline <= redemptionDeadline + MAX_EXTENSION
       ELSE deadline <= now + MAX_EXTENSION

SetRedemptionDeadline(user, deadline) ==
  /\ user = vaultKeeper
  /\ AllowedDeadline(deadline)
  /\ redemptionDeadline' = deadline
  /\ UNCHANGED <<now, tokens, faucet, vaultKeeper, attestedBeads, history>>

RotateKeeper(user, newKeeper) ==
  /\ user = vaultKeeper
  /\ newKeeper # NoOne
  /\ vaultKeeper' = newKeeper
  /\ UNCHANGED <<now, tokens, faucet, redemptionDeadline, attestedBeads, history>>

FreezeKeeper(user) ==
  /\ user = vaultKeeper
  /\ vaultKeeper' = NoOne
  /\ UNCHANGED <<now, tokens, faucet, redemptionDeadline, attestedBeads, history>>

-----------------------------------------------------------------------------
Tick ==
  /\ now < MaxNow
  /\ now' = now + 1
  /\ UNCHANGED <<tokens, faucet, keeper, history>>

HolderStep(user) ==
  \/ Claim(user)
  \/ \E amount \in 1..balance[user] :
       \/ Surrender(user, amount)
       \/ Redeem(user, amount)
       \/ \E to \in Addresses : Transfer(user, to, amount)

KeeperStep(user) ==
  \/ \E beads \in Recounts : AttestBeadCount(user, beads)
  \/ \E deadline \in 0..MaxDeadline : SetRedemptionDeadline(user, deadline)
  \/ \E newKeeper \in Addresses : RotateKeeper(user, newKeeper)
  \/ FreezeKeeper(user)

Next ==
  \/ Tick
  \/ \E user \in Users : HolderStep(user) \/ KeeperStep(user)

Spec == Init /\ [][Next]_vars

-----------------------------------------------------------------------------
(* Views                                                                   *)

ClaimableBeads ==
  Lesser(Lesser((now - dripAnchor) \div DRIP_INTERVAL, DRIP_CAP),
         balance[Contract] \div UNIT)

NextBeadAt == dripAnchor + DRIP_INTERVAL

-----------------------------------------------------------------------------
(* Properties                                                              *)

\* Every variable keeps its type: balances and times are naturals, the keeper
\* is an address or address(0).
TypeOK ==
  /\ now \in Nat
  /\ balance \in [Addresses -> Nat]
  /\ totalSupply \in Int
  /\ hasClaimed \in [Users -> BOOLEAN]
  /\ dripAnchor \in Nat
  /\ claimCounter \in Nat
  /\ redemptionDeadline \in Nat
  /\ vaultKeeper \in Addresses \union {NoOne}
  /\ attestedBeads \in Nat
  /\ netDraw \in [Users -> Int]
  /\ redeemedBeads \in Nat

\* The anchor never passes the present, so neither view nor claim() can revert
\* on block.timestamp - dripAnchor, and every bead ever claimed paid for a
\* whole interval since genesis: the faucet's lifetime rate cannot be beaten
\* by any number of wallets, surrenders or idle periods.
DripNeverOutrunsClock ==
  /\ dripAnchor <= now
  /\ DRIP_INTERVAL * claimCounter <= dripAnchor - GENESIS_TIME

\* A successful claim lowers what claimableBeads() reports by exactly one, at
\* the cap, at an interval's boundary and on the pile's last bead: the gate of
\* claim() and the view compute the same faucet.
ClaimTakesOneBead ==
  [][claimCounter' # claimCounter => ClaimableBeads' = ClaimableBeads - 1]_vars

\* claimableBeads() > 0 exactly when a fresh address's claim() would succeed,
\* and nextBeadAt() is then not in the future.
ViewAgreesWithGate ==
  /\ (ClaimableBeads > 0) <=> FaucetOpen
  /\ ClaimableBeads > 0 => NextBeadAt <= now

\* The supply is the genesis mint less the whole beads redeemed.
SupplyIsWhole == totalSupply = UNIT * (GENESIS_BEADS - redeemedBeads)

\* The ledger holds exactly the supply, and the supply is the genesis mint
\* minus the whole beads redeemed, through claims, transfers and burns alike.
LedgerBalanced == SupplyIsWhole /\ SumFunction(balance) = totalSupply

\* However often an address claims and surrenders, the pile is never down more
\* than one bead on its account, and not even one while its door is open: dust
\* surrenders cannot be looped into draining the pile.
NetDrawBounded ==
  \A user \in Users : netDraw[user] <= IF hasClaimed[user] THEN UNIT ELSE 0

\* The ratchet: supply never grows, and shrinks only while the window is open.
SupplyRatchet ==
  [][/\ totalSupply' <= totalSupply
     /\ totalSupply' # totalSupply => now <= redemptionDeadline]_vars

\* A redemption deadline once announced is never taken back, open or lapsed,
\* and one step adds at most MAX_EXTENSION to the later of the deadline and
\* the present.
RenewalOnlyWidens ==
  [][/\ redemptionDeadline' >= redemptionDeadline
     /\ redemptionDeadline' <= Larger(redemptionDeadline, now) + MAX_EXTENSION]_vars

\* Once the keeper is frozen the role, the deadline and the attestation never
\* change again; if the window has lapsed too, the supply is final.
FrozenIsFinal ==
  [][vaultKeeper = NoOne =>
       /\ UNCHANGED <<vaultKeeper, redemptionDeadline, attestedBeads>>
       /\ now > redemptionDeadline => UNCHANGED totalSupply]_vars

\* The faucet is a token bucket: the credit it holds is the time since the
\* anchor, capped at a full day.
Bucket == INSTANCE TokenBucket WITH
  Interval <- DRIP_INTERVAL, Capacity <- FullFaucet,
  credit <- Lesser(now - dripAnchor, FullFaucet)

\* Every step of the contract is a drip, a dispense or a stutter of the
\* abstract bucket, so no schedule of claims gets more out of the faucet.
FaucetIsTokenBucket == Bucket!BucketSpec
=============================================================================
