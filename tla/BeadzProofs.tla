---------------------------- MODULE BeadzProofs ------------------------------
(***************************************************************************)
(* Theorems about Beadz.sol for any set of users, any supply, any drip     *)
(* rate and cap, and any length of chain.                                  *)
(***************************************************************************)
EXTENDS BeadzWatch, FiniteSetTheorems, TLAPS

\* A full faucet holds at least the price of one bead.
LEMMA FullFaucetFacts ==
  FullFaucet \in Nat /\ FullFaucet >= DRIP_INTERVAL
<1>1. \A m, n \in Nat \ {0} : m * n \in Nat /\ m * n >= n
  OBVIOUS
<1> QED BY <1>1, TimesAssumption DEF FullFaucet

\* Moving wei between accounts keeps the ledger's type.
LEMMA MoveType ==
  ASSUME TypeOK, NEW from \in Addresses, NEW to \in Addresses,
         NEW amount \in Nat, Move(from, to, amount)
  PROVE  balance' \in [Addresses -> Nat] /\ totalSupply' \in Int
<1>1. CASE from = to
  BY <1>1 DEF Move, TypeOK
<1>2. CASE from # to
  <2>1. balance[from] - amount \in Nat /\ balance[to] + amount \in Nat
    BY DEF Move, TypeOK
  <2> QED BY <1>2, <2>1 DEF Move, TypeOK
<1> QED BY <1>1, <1>2

-----------------------------------------------------------------------------
\* Every step keeps the types.
LEMMA TypeStep ==
  ASSUME TypeOK, [Next]_vars
  PROVE  TypeOK'
<1> USE DEF TypeOK, history
<1>1. CASE UNCHANGED vars
  BY <1>1 DEF vars, tokens, faucet, keeper
<1>2. CASE Tick
  BY <1>2 DEF Tick, tokens, faucet, keeper
<1>3. ASSUME NEW user \in Users, Claim(user) PROVE TypeOK'
  <2>1. UNIT \in Nat /\ user \in Addresses /\ Contract \in Addresses
    BY AmountsAssumption DEF Addresses
  <2>2. Move(Contract, user, UNIT)
    BY <1>3 DEF Claim
  <2>3. balance' \in [Addresses -> Nat] /\ totalSupply' \in Int
    BY <2>1, <2>2, MoveType
  <2>4. dripAnchor' \in Nat
    BY <1>3, TimesAssumption, FullFaucetFacts
    DEF Claim, FaucetOpen, AdvancedAnchor, Larger
  <2> QED BY <1>3, <2>1, <2>3, <2>4 DEF Claim, keeper
<1>4. ASSUME NEW user \in Users, NEW amount \in 1..balance[user],
             Surrender(user, amount) PROVE TypeOK'
  <2>1. amount \in Nat /\ user \in Addresses /\ Contract \in Addresses
    BY DEF Addresses
  <2>2. Move(user, Contract, amount)
    BY <1>4 DEF Surrender
  <2>3. balance' \in [Addresses -> Nat] /\ totalSupply' \in Int
    BY <2>1, <2>2, MoveType
  <2> QED BY <1>4, <2>1, <2>3 DEF Surrender, keeper
<1>5. ASSUME NEW user \in Users, NEW amount \in 1..balance[user],
             Redeem(user, amount) PROVE TypeOK'
  <2>1. amount \in Nat /\ user \in Addresses /\ amount \div UNIT \in Nat
    BY AmountsAssumption DEF Addresses
  <2>2. balance' \in [Addresses -> Nat] /\ totalSupply' \in Int
    BY <1>5, <2>1 DEF Redeem, Burn
  <2> QED BY <1>5, <2>1, <2>2 DEF Redeem, faucet, keeper
<1>6. ASSUME NEW user \in Users, NEW amount \in 1..balance[user],
             NEW to \in Addresses, Transfer(user, to, amount) PROVE TypeOK'
  <2>1. amount \in Nat /\ user \in Addresses
    BY DEF Addresses
  <2>2. balance' \in [Addresses -> Nat] /\ totalSupply' \in Int
    BY <1>6, <2>1, MoveType DEF Transfer
  <2> QED BY <1>6, <2>2 DEF Transfer, faucet, keeper
<1>7. ASSUME NEW user \in Users, KeeperStep(user) PROVE TypeOK'
  BY <1>7, AmountsAssumption, TimesAssumption
  DEF KeeperStep, AttestBeadCount, SetRedemptionDeadline, RotateKeeper,
      FreezeKeeper, tokens, faucet
<1> QED
  BY <1>1, <1>2, <1>3, <1>4, <1>5, <1>6, <1>7 DEF Next, HolderStep

\* The contract's variables keep their types whatever is called and whenever.
THEOREM TypeCorrect == Spec => []TypeOK
<1>1. Init => TypeOK
  <2> SUFFICES ASSUME Init PROVE TypeOK
    OBVIOUS
  <2>1. \A k, u \in Nat : k * u \in Nat
    OBVIOUS
  <2>2. /\ AIRDROP_BEADS * UNIT \in Nat
        /\ (GENESIS_BEADS - AIRDROP_BEADS) * UNIT \in Nat
        /\ GENESIS_BEADS * UNIT \in Nat
    BY <2>1, AmountsAssumption
  <2>3. balance \in [Addresses -> Nat]
    BY <2>2 DEF Init
  <2> QED
    BY <2>2, <2>3, AddressesAssumption, AmountsAssumption, TimesAssumption
    DEF Init, TypeOK, Addresses
<1> QED BY <1>1, TypeStep, PTL DEF Spec

-----------------------------------------------------------------------------
\* A step that is not a claim leaves the faucet's clockwork alone; a claim
\* moves the anchor at least one interval on and never past the present.
LEMMA FaucetStep ==
  ASSUME TypeOK, dripAnchor <= now, [Next]_vars
  PROVE  \/ /\ UNCHANGED <<dripAnchor, claimCounter>>
            /\ now' \in {now, now + 1}
         \/ /\ now - dripAnchor >= DRIP_INTERVAL
            /\ dripAnchor' = AdvancedAnchor
            /\ claimCounter' = claimCounter + 1
            /\ now' = now
<1>1. CASE UNCHANGED vars
  BY <1>1 DEF vars, faucet
<1>2. CASE Tick
  BY <1>2 DEF Tick, faucet
<1>3. ASSUME NEW user \in Users, Claim(user)
      PROVE  /\ now - dripAnchor >= DRIP_INTERVAL
             /\ dripAnchor' = AdvancedAnchor
             /\ claimCounter' = claimCounter + 1
             /\ now' = now
  BY <1>3 DEF Claim, FaucetOpen
<1>4. ASSUME NEW user \in Users, NEW amount \in 1..balance[user],
             Surrender(user, amount) \/ Redeem(user, amount)
             \/ \E to \in Addresses : Transfer(user, to, amount)
      PROVE  UNCHANGED <<dripAnchor, claimCounter, now>>
  BY <1>4 DEF Surrender, Redeem, Transfer, faucet
<1>5. ASSUME NEW user \in Users, KeeperStep(user)
      PROVE  UNCHANGED <<dripAnchor, claimCounter, now>>
  BY <1>5 DEF KeeperStep, AttestBeadCount, SetRedemptionDeadline, RotateKeeper,
              FreezeKeeper, faucet
<1> QED BY <1>1, <1>2, <1>3, <1>4, <1>5 DEF Next, HolderStep

\* Where a claim takes the anchor.
LEMMA AdvancedAnchorBounds ==
  ASSUME TypeOK, now - dripAnchor >= DRIP_INTERVAL
  PROVE  /\ AdvancedAnchor \in Int
         /\ AdvancedAnchor <= now
         /\ AdvancedAnchor >= dripAnchor + DRIP_INTERVAL
         /\ Lesser(now - AdvancedAnchor, FullFaucet)
              = Lesser(now - dripAnchor, FullFaucet) - DRIP_INTERVAL
BY FullFaucetFacts, TimesAssumption DEF TypeOK, AdvancedAnchor, Larger, Lesser

\* One more claim costs one more interval.
LEMMA OneMoreInterval ==
  ASSUME NEW i \in Nat, NEW n \in Int
  PROVE  i * (n + 1) = i * n + i /\ i * n \in Int
OBVIOUS

\* The faucet's lifetime rate: for every set of wallets and every schedule of
\* claims, the beads claimed never outnumber the intervals elapsed since
\* genesis, and the anchor never passes the present.
THEOREM DripRate == Spec => []DripNeverOutrunsClock
<1>1. Init => DripNeverOutrunsClock
  <2>1. DRIP_INTERVAL * 0 = 0
    BY TimesAssumption
  <2> QED BY <2>1, TimesAssumption DEF Init, DripNeverOutrunsClock
<1>2. TypeOK /\ DripNeverOutrunsClock /\ [Next]_vars => DripNeverOutrunsClock'
  <2> SUFFICES ASSUME TypeOK, DripNeverOutrunsClock, [Next]_vars
               PROVE  DripNeverOutrunsClock'
    OBVIOUS
  <2>1. dripAnchor <= now
    BY DEF DripNeverOutrunsClock
  <2>2. CASE UNCHANGED <<dripAnchor, claimCounter>> /\ now' \in {now, now + 1}
    BY <2>2 DEF DripNeverOutrunsClock, TypeOK
  <2>3. CASE /\ now - dripAnchor >= DRIP_INTERVAL
             /\ dripAnchor' = AdvancedAnchor
             /\ claimCounter' = claimCounter + 1
             /\ now' = now
    <3>1. DRIP_INTERVAL * claimCounter' = DRIP_INTERVAL * claimCounter + DRIP_INTERVAL
      BY <2>3, OneMoreInterval, TimesAssumption DEF TypeOK
    <3>2. DRIP_INTERVAL * claimCounter \in Int
      BY OneMoreInterval, TimesAssumption DEF TypeOK
    <3>3. AdvancedAnchor \in Int /\ AdvancedAnchor <= now
          /\ AdvancedAnchor >= dripAnchor + DRIP_INTERVAL
      BY <2>3, AdvancedAnchorBounds
    <3> QED
      BY <2>3, <3>1, <3>2, <3>3, TimesAssumption DEF DripNeverOutrunsClock, TypeOK
  <2> QED BY <2>1, <2>2, <2>3, FaucetStep
<1> QED BY <1>1, <1>2, TypeCorrect, PTL DEF Spec

-----------------------------------------------------------------------------
\* What the stopwatch shows plus what the faucet still holds.
WatchInv ==
  /\ markTime \in Int
  /\ markCount \in Int
  /\ DRIP_INTERVAL * (claimCounter - markCount) + Lesser(now - dripAnchor, FullFaucet)
       <= FullFaucet + (now - markTime)

LEMMA WatchInvStep ==
  ASSUME TypeOK, dripAnchor <= now, WatchInv, [Next]_vars, UNCHANGED watch
  PROVE  WatchInv'
<1>1. CASE UNCHANGED <<dripAnchor, claimCounter>> /\ now' \in {now, now + 1}
  <2>1. DRIP_INTERVAL * (claimCounter - markCount) \in Int
    BY TimesAssumption DEF TypeOK, WatchInv
  <2> DEFINE held(t) == Lesser(t - dripAnchor, FullFaucet)
  <2>a. \A t \in Nat : held(t) \in Int /\ held(t + 1) \in Int /\ held(t + 1) <= held(t) + 1
    BY FullFaucetFacts DEF Lesser, TypeOK
  <2>b. now' \in Nat /\ (now' = now \/ now' = now + 1)
    BY <1>1 DEF TypeOK
  <2>2. held(now') <= held(now) + (now' - now)
    BY <2>a, <2>b DEF TypeOK
  <2>3. held(now') \in Int /\ held(now) \in Int
    BY <2>a, <2>b DEF TypeOK
  <2>4. DRIP_INTERVAL * (claimCounter - markCount) + Lesser(now' - dripAnchor, FullFaucet)
          <= FullFaucet + (now' - markTime)
    BY <1>1, <2>1, <2>2, <2>3, FullFaucetFacts DEF TypeOK, WatchInv
  <2>5. FullFaucet' = FullFaucet
    BY DEF FullFaucet
  <2>6. Lesser(now - dripAnchor, FullFaucet)' = Lesser(now' - dripAnchor, FullFaucet)
    BY <1>1, <2>5 DEF Lesser
  <2> QED BY <1>1, <2>4, <2>5, <2>6 DEF WatchInv, watch
<1>2. CASE /\ now - dripAnchor >= DRIP_INTERVAL
           /\ dripAnchor' = AdvancedAnchor
           /\ claimCounter' = claimCounter + 1
           /\ now' = now
  <2> DEFINE claimed == claimCounter - markCount
  <2>1. /\ claimed \in Int
        /\ claimCounter' - markCount = claimed + 1
    BY <1>2 DEF TypeOK, WatchInv
  <2>2. /\ DRIP_INTERVAL * (claimed + 1) = DRIP_INTERVAL * claimed + DRIP_INTERVAL
        /\ DRIP_INTERVAL * claimed \in Int
    <3> HIDE DEF claimed
    <3> QED BY <2>1, OneMoreInterval, TimesAssumption
  <2>3. Lesser(now - AdvancedAnchor, FullFaucet)
          = Lesser(now - dripAnchor, FullFaucet) - DRIP_INTERVAL
    BY <1>2, AdvancedAnchorBounds
  <2>4. Lesser(now - dripAnchor, FullFaucet) \in Int
    BY FullFaucetFacts DEF Lesser, TypeOK
  <2>5. FullFaucet' = FullFaucet
    BY DEF FullFaucet
  <2>6. Lesser(now - dripAnchor, FullFaucet)' = Lesser(now - AdvancedAnchor, FullFaucet)
    BY <1>2, <2>5 DEF Lesser
  <2>7. DRIP_INTERVAL * (claimCounter' - markCount) + Lesser(now - AdvancedAnchor, FullFaucet)
          <= FullFaucet + (now - markTime)
    BY <2>1, <2>2, <2>3, <2>4, FullFaucetFacts, TimesAssumption DEF TypeOK, WatchInv
  <2> QED BY <1>2, <2>5, <2>6, <2>7 DEF WatchInv, watch
<1> QED BY <1>1, <1>2, FaucetStep

\* The faucet never bursts: over any stretch of time, whenever it begins, at
\* most one full bucket plus one bead per elapsed interval is claimed.
THEOREM NoBurst == WatchSpec => []BurstBounded
<1>1. WatchSpec => Spec
  <2>1. WatchInit => Init
    BY DEF WatchInit
  <2>2. [WatchNext]_<<vars, watch>> => [Next]_vars
    BY DEF WatchNext, StartWatch
  <2> QED BY <2>1, <2>2, PTL DEF WatchSpec, Spec
<1>2. WatchInit => WatchInv
  <2> SUFFICES ASSUME WatchInit PROVE WatchInv
    OBVIOUS
  <2>1. DRIP_INTERVAL * (0 - 0) = 0
    BY TimesAssumption
  <2> QED BY <2>1, FullFaucetFacts, TimesAssumption DEF WatchInit, Init, WatchInv, Lesser
<1>3. TypeOK /\ DripNeverOutrunsClock /\ WatchInv /\ [WatchNext]_<<vars, watch>> => WatchInv'
  <2> SUFFICES ASSUME TypeOK, DripNeverOutrunsClock, WatchInv, [WatchNext]_<<vars, watch>>
               PROVE  WatchInv'
    OBVIOUS
  <2>1. dripAnchor <= now
    BY DEF DripNeverOutrunsClock
  <2>2. CASE StartWatch
    <3>1. /\ DRIP_INTERVAL * (claimCounter - claimCounter) = 0
          /\ Lesser(now - dripAnchor, FullFaucet) <= FullFaucet
      BY <2>1, FullFaucetFacts, TimesAssumption DEF TypeOK, Lesser
    <3>2. /\ FullFaucet' = FullFaucet
          /\ UNCHANGED <<now, dripAnchor, claimCounter>>
      BY <2>2 DEF StartWatch, vars, faucet, FullFaucet
    <3>3. Lesser(now - dripAnchor, FullFaucet)' = Lesser(now - dripAnchor, FullFaucet)
      BY <3>2 DEF Lesser
    <3>4. Lesser(now - dripAnchor, FullFaucet) \in Int
      BY FullFaucetFacts DEF Lesser, TypeOK
    <3> QED
      BY <2>2, <3>1, <3>2, <3>3, <3>4, FullFaucetFacts DEF StartWatch, WatchInv, TypeOK
  <2>3. CASE [Next]_vars /\ UNCHANGED watch
    BY <2>1, <2>3, WatchInvStep
  <2> QED BY <2>2, <2>3 DEF WatchNext
<1>4. TypeOK /\ DripNeverOutrunsClock /\ WatchInv => BurstBounded
  <2> SUFFICES ASSUME TypeOK, DripNeverOutrunsClock, WatchInv PROVE BurstBounded
    OBVIOUS
  <2>1. Lesser(now - dripAnchor, FullFaucet) \in Nat
    BY FullFaucetFacts DEF Lesser, TypeOK, DripNeverOutrunsClock
  <2>2. DRIP_INTERVAL * (claimCounter - markCount) \in Int
    BY TimesAssumption DEF TypeOK, WatchInv
  <2> QED BY <2>1, <2>2, FullFaucetFacts DEF WatchInv, BurstBounded, TypeOK
<1> QED BY <1>1, <1>2, <1>3, <1>4, TypeCorrect, DripRate, PTL DEF WatchSpec

-----------------------------------------------------------------------------
\* No loop of claims and surrenders, dust or whole, draws more than one bead
\* net out of the pile on any one address's account.
THEOREM NetDraw == Spec => []NetDrawBounded
<1>1. Init => NetDrawBounded
  BY AmountsAssumption DEF Init, NetDrawBounded
<1>2. TypeOK /\ NetDrawBounded /\ [Next]_vars => NetDrawBounded'
  <2> SUFFICES ASSUME TypeOK, NetDrawBounded, [Next]_vars, NEW u \in Users
               PROVE  netDraw'[u] <= IF hasClaimed'[u] THEN UNIT ELSE 0
    BY DEF NetDrawBounded
  <2> USE DEF NetDrawBounded, history
  <2>1. CASE UNCHANGED <<netDraw, hasClaimed>>
    BY <2>1
  <2>2. ASSUME NEW user \in Users, Claim(user)
        PROVE  netDraw'[u] <= IF hasClaimed'[u] THEN UNIT ELSE 0
    BY <2>2, AmountsAssumption DEF Claim, TypeOK
  <2>3. ASSUME NEW user \in Users, NEW amount \in 1..balance[user],
               Surrender(user, amount)
        PROVE  netDraw'[u] <= IF hasClaimed'[u] THEN UNIT ELSE 0
    <3>1. amount \in Nat
      BY DEF Addresses, TypeOK
    <3>2. CASE u = user
      <4>1. netDraw'[u] = netDraw[u] - amount /\ netDraw[u] \in Int
        BY <2>3, <3>2 DEF Surrender, TypeOK
      <4>2. hasClaimed'[u] = (hasClaimed[u] /\ ~ReopensDoor(amount))
        BY <2>3, <3>2 DEF Surrender, TypeOK
      <4>3. netDraw[u] <= IF hasClaimed[u] THEN UNIT ELSE 0
        OBVIOUS
      <4>4. hasClaimed[u] \in BOOLEAN
        BY DEF TypeOK
      <4>5. CASE ReopensDoor(amount)
        BY <3>1, <4>1, <4>2, <4>3, <4>4, <4>5, AmountsAssumption DEF ReopensDoor
      <4>6. CASE ~ReopensDoor(amount)
        <5>1. hasClaimed'[u] = hasClaimed[u]
          BY <4>2, <4>4, <4>6
        <5> QED BY <3>1, <4>1, <4>3, <5>1, AmountsAssumption
      <4> QED BY <4>5, <4>6
    <3>3. CASE u # user
      BY <2>3, <3>3 DEF Surrender, TypeOK
    <3> QED BY <3>2, <3>3
  <2>4. ASSUME NEW user \in Users, NEW amount \in 1..balance[user],
               Redeem(user, amount) \/ \E to \in Addresses : Transfer(user, to, amount)
        PROVE  UNCHANGED <<netDraw, hasClaimed>>
    BY <2>4 DEF Redeem, Transfer, faucet
  <2>5. Tick \/ UNCHANGED vars => UNCHANGED <<netDraw, hasClaimed>>
    BY DEF Tick, vars, faucet
  <2>6. \A user \in Users : KeeperStep(user) => UNCHANGED <<netDraw, hasClaimed>>
    BY DEF KeeperStep, AttestBeadCount, SetRedemptionDeadline, RotateKeeper,
           FreezeKeeper, faucet
  <2> QED BY <2>1, <2>2, <2>3, <2>4, <2>5, <2>6 DEF Next, HolderStep
<1> QED BY <1>1, <1>2, TypeCorrect, PTL DEF Spec

-----------------------------------------------------------------------------
\* What each step can do to the keeper's state: nothing, or one of the
\* keeper's own actions by the user who holds the role.
LEMMA KeeperStateStep ==
  ASSUME [Next]_vars
  PROVE  \/ UNCHANGED <<vaultKeeper, redemptionDeadline, attestedBeads>>
         \/ \E user \in Users : user = vaultKeeper /\ KeeperStep(user)
<1>1. \A user \in Users : HolderStep(user) =>
        UNCHANGED <<vaultKeeper, redemptionDeadline, attestedBeads>>
  BY DEF HolderStep, Claim, Surrender, Redeem, Transfer, keeper
<1>2. Tick \/ UNCHANGED vars => UNCHANGED <<vaultKeeper, redemptionDeadline, attestedBeads>>
  BY DEF Tick, vars, keeper
<1>3. \A user \in Users : KeeperStep(user) => user = vaultKeeper
  BY DEF KeeperStep, AttestBeadCount, SetRedemptionDeadline, RotateKeeper, FreezeKeeper
<1> QED BY <1>1, <1>2, <1>3 DEF Next

\* No sequence of keys and keepers takes an announced deadline back, and no
\* single action adds more than MAX_EXTENSION.
THEOREM DeadlineOnlyWidens == Spec => RenewalOnlyWidens
<1>1. TypeOK /\ [Next]_vars =>
        /\ redemptionDeadline' >= redemptionDeadline
        /\ redemptionDeadline' <= Larger(redemptionDeadline, now) + MAX_EXTENSION
  <2> SUFFICES ASSUME TypeOK, [Next]_vars
               PROVE  /\ redemptionDeadline' >= redemptionDeadline
                      /\ redemptionDeadline' <= Larger(redemptionDeadline, now) + MAX_EXTENSION
    OBVIOUS
  <2>1. CASE UNCHANGED redemptionDeadline
    BY <2>1, TimesAssumption DEF TypeOK, Larger
  <2>2. ASSUME NEW user \in Users, NEW deadline \in 0..MaxDeadline,
               SetRedemptionDeadline(user, deadline)
        PROVE  /\ redemptionDeadline' >= redemptionDeadline
               /\ redemptionDeadline' <= Larger(redemptionDeadline, now) + MAX_EXTENSION
    BY <2>2, TimesAssumption
    DEF TypeOK, SetRedemptionDeadline, AllowedDeadline, RedemptionOpen, Larger
  <2>3. \A user \in Users : KeeperStep(user) =>
          \/ UNCHANGED redemptionDeadline
          \/ \E deadline \in 0..MaxDeadline : SetRedemptionDeadline(user, deadline)
    BY DEF KeeperStep, AttestBeadCount, RotateKeeper, FreezeKeeper
  <2> QED BY <2>1, <2>2, <2>3, KeeperStateStep
<1> QED BY <1>1, TypeCorrect, PTL DEF Spec, RenewalOnlyWidens

\* What can happen to the supply: a redemption, or nothing.
LEMMA SupplyStep ==
  ASSUME TypeOK, [Next]_vars
  PROVE  \/ UNCHANGED totalSupply
         \/ totalSupply' < totalSupply /\ now <= redemptionDeadline
<1>1. ASSUME NEW user \in Users, NEW amount \in 1..balance[user], Redeem(user, amount)
      PROVE  totalSupply' < totalSupply /\ now <= redemptionDeadline
  BY <1>1 DEF TypeOK, Redeem, Burn, RedemptionOpen, Addresses
<1>2. \A user \in Users : Claim(user) \/ KeeperStep(user) => UNCHANGED totalSupply
  BY DEF Claim, Move, KeeperStep, AttestBeadCount, SetRedemptionDeadline,
         RotateKeeper, FreezeKeeper, tokens
<1>3. ASSUME NEW user \in Users, NEW amount \in 1..balance[user],
             Surrender(user, amount) \/ \E to \in Addresses : Transfer(user, to, amount)
      PROVE  UNCHANGED totalSupply
  BY <1>3 DEF Surrender, Transfer, Move
<1>4. Tick \/ UNCHANGED vars => UNCHANGED totalSupply
  BY DEF Tick, vars, tokens
<1> QED BY <1>1, <1>2, <1>3, <1>4 DEF Next, HolderStep

\* Supply never grows, and shrinks only inside the redemption window.
THEOREM Ratchet == Spec => SupplyRatchet
<1>1. TypeOK /\ [Next]_vars =>
        /\ totalSupply' <= totalSupply
        /\ totalSupply' # totalSupply => now <= redemptionDeadline
  <2> SUFFICES ASSUME TypeOK, [Next]_vars
               PROVE  /\ totalSupply' <= totalSupply
                      /\ totalSupply' # totalSupply => now <= redemptionDeadline
    OBVIOUS
  <2>1. CASE UNCHANGED totalSupply
    BY <2>1 DEF TypeOK
  <2>2. CASE totalSupply' < totalSupply /\ now <= redemptionDeadline
    <3>1. totalSupply \in Int /\ totalSupply' \in Int
      BY TypeStep DEF TypeOK
    <3> QED BY <2>2, <3>1
  <2> QED BY <2>1, <2>2, SupplyStep
<1> QED BY <1>1, TypeCorrect, PTL DEF Spec, SupplyRatchet

\* A frozen role never comes back, and with the window lapsed nothing that the
\* token stands for can change any more.
THEOREM Frozen == Spec => FrozenIsFinal
<1>1. TypeOK /\ [Next]_vars => (vaultKeeper = NoOne =>
        /\ UNCHANGED <<vaultKeeper, redemptionDeadline, attestedBeads>>
        /\ now > redemptionDeadline => UNCHANGED totalSupply)
  <2> SUFFICES ASSUME TypeOK, [Next]_vars, vaultKeeper = NoOne
               PROVE  /\ UNCHANGED <<vaultKeeper, redemptionDeadline, attestedBeads>>
                      /\ now > redemptionDeadline => UNCHANGED totalSupply
    OBVIOUS
  <2>1. UNCHANGED <<vaultKeeper, redemptionDeadline, attestedBeads>>
    BY KeeperStateStep, AddressesAssumption DEF Addresses
  <2>2. now > redemptionDeadline => UNCHANGED totalSupply
    BY SupplyStep DEF TypeOK
  <2> QED BY <2>1, <2>2
<1> QED BY <1>1, TypeCorrect, PTL DEF Spec, FrozenIsFinal

-----------------------------------------------------------------------------
\* The contract's faucet implements the abstract token bucket.
THEOREM Refinement == Spec => FaucetIsTokenBucket
<1> DEFINE held == Lesser(now - dripAnchor, FullFaucet)
<1>1. Init => Bucket!BucketInit
  BY FullFaucetFacts, TimesAssumption DEF Init, Bucket!BucketInit, Lesser
<1>2. TypeOK /\ DripNeverOutrunsClock /\ [Next]_vars => [Bucket!BucketNext]_held
  <2> SUFFICES ASSUME TypeOK, DripNeverOutrunsClock, [Next]_vars
               PROVE  Bucket!BucketNext \/ held' = held
    OBVIOUS
  <2>1. dripAnchor <= now
    BY DEF DripNeverOutrunsClock
  <2>2. FullFaucet' = FullFaucet
    BY DEF FullFaucet
  <2>3. CASE UNCHANGED <<dripAnchor, claimCounter>> /\ now' = now
    BY <2>2, <2>3 DEF Lesser
  <2>4. CASE UNCHANGED <<dripAnchor, claimCounter>> /\ now' = now + 1
    <3>1. held' = Lesser((now + 1) - dripAnchor, FullFaucet)
      BY <2>2, <2>4 DEF Lesser
    <3>2. Lesser((now + 1) - dripAnchor, FullFaucet) = Bucket!Smaller(held + 1, FullFaucet)
      BY FullFaucetFacts DEF Lesser, Bucket!Smaller, TypeOK
    <3> QED BY <3>1, <3>2 DEF Bucket!BucketNext, Bucket!Drip
  <2>5. CASE /\ now - dripAnchor >= DRIP_INTERVAL
             /\ dripAnchor' = AdvancedAnchor
             /\ claimCounter' = claimCounter + 1
             /\ now' = now
    <3>1. held' = Lesser(now - AdvancedAnchor, FullFaucet)
      BY <2>2, <2>5 DEF Lesser
    <3>2. held' = held - DRIP_INTERVAL
      BY <2>5, <3>1, AdvancedAnchorBounds
    <3>3. held >= DRIP_INTERVAL
      BY <2>5, FullFaucetFacts DEF Lesser
    <3> QED BY <3>2, <3>3 DEF Bucket!BucketNext, Bucket!Dispense
  <2> QED BY <2>1, <2>3, <2>4, <2>5, FaucetStep
<1> QED
  BY <1>1, <1>2, TypeCorrect, DripRate, PTL
  DEF Spec, FaucetIsTokenBucket, Bucket!BucketSpec

-----------------------------------------------------------------------------
(* The views                                                               *)

\* Whole intervals in a stretch of time, and whole beads in a pile.
LEMMA Quotients ==
  ASSUME NEW a \in Nat, NEW d \in Nat \ {0}
  PROVE  /\ a \div d \in Nat
         /\ a \div d > 0 <=> a >= d
         /\ a >= d => (a - d) \div d = (a \div d) - 1
<1>1. a \div d \in Nat
  OBVIOUS
<1>2. a \div d > 0 <=> a >= d
  OBVIOUS
<1>3. a >= d => (a - d) \div d = (a \div d) - 1
  OBVIOUS
<1> QED
  BY <1>1, <1>2, <1>3

LEMMA QuotientOfMultiple ==
  ASSUME NEW k \in Nat, NEW d \in Nat \ {0}
  PROVE  (k * d) \div d = k
OBVIOUS

LEMMA QuotientBelow ==
  ASSUME NEW a \in Nat, NEW k \in Nat, NEW d \in Nat \ {0}
  PROVE  a <= k * d => a \div d <= k
OBVIOUS

LEMMA QuotientAbove ==
  ASSUME NEW a \in Nat, NEW k \in Nat, NEW d \in Nat \ {0}
  PROVE  a >= k * d => a \div d >= k
OBVIOUS

\* The checked subtraction of claim(), block.timestamp - DRIP_CAP * DRIP_INTERVAL, does not revert.
OldEnough == now >= FullFaucet

\* claimableBeads(), claim() and nextBeadAt(): the view is positive exactly when the gate is
\* open, and the next bead is then due, on a chain older than one full faucet at deployment,
\* as block.timestamp is.
THEOREM ViewIsGate ==
  ASSUME GENESIS_TIME >= FullFaucet
  PROVE  Spec => []ViewAgreesWithGate
<1>1. Init => OldEnough
  BY DEF Init, OldEnough
<1>2. TypeOK /\ DripNeverOutrunsClock /\ OldEnough /\ [Next]_vars => OldEnough'
  BY FaucetStep, FullFaucetFacts DEF TypeOK, DripNeverOutrunsClock, OldEnough
<1>3. ASSUME TypeOK, DripNeverOutrunsClock, OldEnough
      PROVE  ViewAgreesWithGate
  <2> DEFINE drips == (now - dripAnchor) \div DRIP_INTERVAL
             pile == balance[Contract] \div UNIT
  <2>1. now - dripAnchor \in Nat /\ balance[Contract] \in Nat
    BY <1>3 DEF TypeOK, DripNeverOutrunsClock, Addresses
  <2>2. drips \in Nat /\ (drips > 0 <=> now - dripAnchor >= DRIP_INTERVAL)
    BY <2>1, Quotients, TimesAssumption
  <2>3. pile \in Nat /\ (pile > 0 <=> balance[Contract] >= UNIT)
    BY <2>1, Quotients, AmountsAssumption
  <2>4. ClaimableBeads = Lesser(Lesser(drips, DRIP_CAP), pile)
    BY DEF ClaimableBeads
  <2> HIDE DEF drips, pile
  <2>5. ClaimableBeads > 0 <=> drips > 0 /\ pile > 0
    BY <2>2, <2>3, <2>4, TimesAssumption DEF Lesser
  <2>6. ClaimableBeads > 0 <=> FaucetOpen
    BY <1>3, <2>2, <2>3, <2>5 DEF FaucetOpen, OldEnough
  <2>7. ClaimableBeads > 0 => NextBeadAt <= now
    BY <1>3, <2>2, <2>5, TimesAssumption DEF NextBeadAt, TypeOK
  <2> QED
    BY <2>6, <2>7 DEF ViewAgreesWithGate
<1> QED
  BY <1>1, <1>2, <1>3, TypeCorrect, DripRate, PTL DEF Spec

\* What a claim leaves of the drips that can be claimed: one fewer, below the cap and at it.
LEMMA OneDripFewer ==
  ASSUME TypeOK, now - dripAnchor >= DRIP_INTERVAL
  PROVE  Lesser((now - AdvancedAnchor) \div DRIP_INTERVAL, DRIP_CAP)
           = Lesser((now - dripAnchor) \div DRIP_INTERVAL, DRIP_CAP) - 1
<1> DEFINE age == now - dripAnchor
<1>1. age \in Nat /\ age >= DRIP_INTERVAL /\ DRIP_INTERVAL \in Nat \ {0} /\ DRIP_CAP \in Nat \ {0}
      /\ FullFaucet \in Nat /\ FullFaucet = DRIP_CAP * DRIP_INTERVAL /\ FullFaucet >= DRIP_INTERVAL
  BY TimesAssumption, FullFaucetFacts DEF TypeOK, FullFaucet
<1>2. now - AdvancedAnchor = Lesser(age, FullFaucet) - DRIP_INTERVAL
  BY <1>1 DEF TypeOK, AdvancedAnchor, Larger, Lesser
<1> HIDE DEF age
<1>3. CASE age <= FullFaucet
  <2>1. age \div DRIP_INTERVAL <= DRIP_CAP /\ age \div DRIP_INTERVAL \in Nat
        /\ (age - DRIP_INTERVAL) \div DRIP_INTERVAL = age \div DRIP_INTERVAL - 1
    BY <1>1, <1>3, Quotients, QuotientBelow
  <2>2. now - AdvancedAnchor = age - DRIP_INTERVAL
    BY <1>2, <1>3, <1>1 DEF Lesser
  <2> DEFINE drips == age \div DRIP_INTERVAL
             left == (age - DRIP_INTERVAL) \div DRIP_INTERVAL
  <2>3. drips \in Nat /\ drips <= DRIP_CAP /\ left = drips - 1
    BY <2>1
  <2> HIDE DEF drips, left
  <2>4. Lesser(left, DRIP_CAP) = Lesser(drips, DRIP_CAP) - 1
    BY <1>1, <2>3 DEF Lesser
  <2> QED
    BY <2>2, <2>4 DEF drips, left, age
<1>4. CASE age > FullFaucet
  <2>1. age \div DRIP_INTERVAL >= DRIP_CAP /\ age \div DRIP_INTERVAL \in Nat
    BY <1>1, <1>4, Quotients, QuotientAbove
  <2>2. FullFaucet \div DRIP_INTERVAL = DRIP_CAP
    BY <1>1, QuotientOfMultiple
  <2>3. (FullFaucet - DRIP_INTERVAL) \div DRIP_INTERVAL = DRIP_CAP - 1
    BY <1>1, <2>2, Quotients
  <2>4. now - AdvancedAnchor = FullFaucet - DRIP_INTERVAL
    BY <1>1, <1>2, <1>4 DEF Lesser
  <2> DEFINE drips == age \div DRIP_INTERVAL
             left == (FullFaucet - DRIP_INTERVAL) \div DRIP_INTERVAL
  <2>5. drips \in Nat /\ drips >= DRIP_CAP /\ left = DRIP_CAP - 1
    BY <2>1, <2>3
  <2> HIDE DEF drips, left
  <2>6. Lesser(left, DRIP_CAP) = Lesser(drips, DRIP_CAP) - 1
    BY <1>1, <2>5 DEF Lesser
  <2> QED
    BY <2>4, <2>6 DEF drips, left, age
<1> QED
  BY <1>1, <1>3, <1>4

\* claim(): every successful call lowers what claimableBeads() reports by exactly one.
THEOREM ClaimLowersView == Spec => ClaimTakesOneBead
<1>1. ASSUME TypeOK, NEW user \in Users, Claim(user)
      PROVE  ClaimableBeads' = ClaimableBeads - 1
  <2>1. now' = now /\ dripAnchor' = AdvancedAnchor /\ now - dripAnchor >= DRIP_INTERVAL
        /\ balance[Contract] >= UNIT
    BY <1>1 DEF Claim, FaucetOpen
  <2>2. balance'[Contract] = balance[Contract] - UNIT /\ balance[Contract] \in Nat
    BY <1>1, AddressesAssumption DEF Claim, Move, TypeOK, Addresses
  <2> DEFINE drips == Lesser((now - dripAnchor) \div DRIP_INTERVAL, DRIP_CAP)
             dripsLeft == Lesser((now' - dripAnchor') \div DRIP_INTERVAL, DRIP_CAP)
             pile == balance[Contract] \div UNIT
             pileLeft == balance'[Contract] \div UNIT
  <2>3. dripsLeft = drips - 1
    BY <1>1, <2>1, OneDripFewer
  <2>4. pileLeft = pile - 1 /\ pile \in Nat
    BY <2>1, <2>2, Quotients, AmountsAssumption
  <2>5. drips \in Int
    <3>1. now - dripAnchor \in Nat
      BY <1>1, <2>1, TimesAssumption DEF TypeOK
    <3>2. (now - dripAnchor) \div DRIP_INTERVAL \in Nat
      BY <3>1, Quotients, TimesAssumption
    <3> QED
      BY <3>2, TimesAssumption DEF Lesser
  <2>6. ClaimableBeads = Lesser(drips, pile) /\ ClaimableBeads' = Lesser(dripsLeft, pileLeft)
    BY DEF ClaimableBeads, Lesser
  <2> HIDE DEF drips, dripsLeft, pile, pileLeft
  <2> QED
    BY <2>3, <2>4, <2>5, <2>6 DEF Lesser
<1>2. ASSUME TypeOK, [Next]_vars, claimCounter' # claimCounter
      PROVE  \E user \in Users : Claim(user)
  BY <1>2 DEF Next, Tick, HolderStep, KeeperStep, Surrender, Redeem, Transfer, AttestBeadCount,
              SetRedemptionDeadline, RotateKeeper, FreezeKeeper, vars, faucet
<1>3. TypeOK /\ [Next]_vars
        => [claimCounter' # claimCounter => ClaimableBeads' = ClaimableBeads - 1]_vars
  BY <1>1, <1>2
<1> QED
  BY <1>3, TypeCorrect, PTL DEF Spec, ClaimTakesOneBead

-----------------------------------------------------------------------------
\* A lot of whole beads is its beads' wei.
LEMMA WholeBeads ==
  ASSUME NEW amount \in Nat, NEW unit \in Nat \ {0}, amount % unit = 0, NEW beads \in Int
  PROVE  /\ amount \div unit \in Nat
         /\ unit * (beads - amount \div unit) = unit * beads - amount
<1>1. amount \div unit \in Nat
  OBVIOUS
<1>2. amount = unit * (amount \div unit)
  OBVIOUS
<1>3. \A q \in Int : unit * (beads - q) = unit * beads - unit * q
  OBVIOUS
<1> QED
  BY <1>1, <1>2, <1>3

\* The constructor and redeem(): the supply is always the genesis mint less the whole beads
\* shipped; nothing else mints or burns a wei.
LEMMA SupplyAccounted == Spec => []SupplyIsWhole
<1>1. Init => SupplyIsWhole
  <2>1. UNIT * GENESIS_BEADS = GENESIS_BEADS * UNIT /\ GENESIS_BEADS - 0 = GENESIS_BEADS
    BY AmountsAssumption
  <2> QED
    BY <2>1 DEF Init, SupplyIsWhole
<1>2. ASSUME TypeOK, SupplyIsWhole, NEW user \in Users, NEW amount \in 1..balance[user], Redeem(user, amount)
      PROVE  SupplyIsWhole'
  <2>1. /\ amount \in Nat /\ amount % UNIT = 0 /\ totalSupply' = totalSupply - amount
        /\ redeemedBeads' = redeemedBeads + amount \div UNIT
    BY <1>2 DEF Redeem, RedeemableLot, Burn, TypeOK, Addresses
  <2> DEFINE beads == GENESIS_BEADS - redeemedBeads
             shipped == amount \div UNIT
  <2>2. beads \in Int
    BY <1>2, AmountsAssumption DEF TypeOK
  <2>3. shipped \in Nat /\ UNIT * (beads - shipped) = UNIT * beads - amount
    BY <2>1, <2>2, WholeBeads, AmountsAssumption
  <2>4. totalSupply' = UNIT * (beads - shipped)
    BY <1>2, <2>1, <2>3 DEF SupplyIsWhole
  <2>5. GENESIS_BEADS - redeemedBeads' = beads - shipped
    BY <1>2, <2>1, <2>3, AmountsAssumption DEF TypeOK
  <2> QED
    BY <2>4, <2>5 DEF SupplyIsWhole
<1>3. ASSUME TypeOK, SupplyIsWhole, [Next]_vars,
             ~ \E user \in Users : \E amount \in 1..balance[user] : Redeem(user, amount)
      PROVE  SupplyIsWhole'
  <2>1. UNCHANGED <<totalSupply, redeemedBeads>>
    BY <1>3 DEF Next, Tick, HolderStep, KeeperStep, Claim, Move, Surrender, Transfer, AttestBeadCount,
                SetRedemptionDeadline, RotateKeeper, FreezeKeeper, vars, tokens, history
  <2> QED
    BY <1>3, <2>1 DEF SupplyIsWhole
<1>4. TypeOK /\ SupplyIsWhole /\ [Next]_vars => SupplyIsWhole'
  BY <1>2, <1>3
<1> QED
  BY <1>1, <1>4, TypeCorrect, PTL DEF Spec
-----------------------------------------------------------------------------
(* Sums.  SumFunction is defined by recursion over the subsets of a        *)
(* domain; what it computes is proved by smallest counterexamples, which   *)
(* the library's theorems about well-founded orders provide.               *)

\* Some number of a set of numbers has none below it.
LEMMA SmallestNumber ==
  ASSUME NEW T \in SUBSET Nat, T # {}
  PROVE  \E n \in T : \A m \in T : ~(m < n)
<1>1. PICK n \in T : \A m \in T : <<m, n>> \notin OpToRel(<, Nat)
  <2>1. IsWellFoundedOn(OpToRel(<, Nat), Nat)
    BY NatLessThanWellFounded
  <2> QED BY <2>1, WFMin
<1> QED
  BY <1>1 DEF OpToRel

\* Some set of a set of subsets has none inside it.
LEMMA SmallestSubset ==
  ASSUME NEW S, IsFiniteSet(S), NEW T \in SUBSET (SUBSET S), T # {}
  PROVE  \E s \in T : \A t \in T : ~(t \subseteq s /\ t # s)
<1>1. FiniteSubsetsOf(S) = SUBSET S
  BY FS_FiniteSubsetsOfFinite
<1>2. IsWellFoundedOn(StrictSubsetOrdering(S), SUBSET S)
  BY <1>1, FS_StrictSubsetOrderingWellFounded
<1>3. PICK s \in T : \A t \in T : <<t, s>> \notin StrictSubsetOrdering(S)
  BY <1>2, WFMin
<1> QED
  BY <1>3 DEF StrictSubsetOrdering

\* The element SumFunction takes next, and the recursion it is defined by.
Chosen(s) == CHOOSE x \in s : TRUE
SumsUp(f, sums, s) == IF s = {} THEN 0 ELSE f[Chosen(s)] + sums[s \ {Chosen(s)}]
Sums(f) == CHOOSE sums : sums = [s \in SUBSET DOMAIN f |-> SumsUp(f, sums, s)]

\* SumFunction is the sum over the whole domain.
LEMMA SumOfSums ==
  ASSUME NEW f
  PROVE  SumFunction(f) = Sums(f)[DOMAIN f]
BY DEF SumFunction, SumFunctionOnSet, FoldFunctionOnSet, MapThenFoldSet, Chosen, SumsUp, Sums

\* The subsets of up to n elements, and that they can be summed up.
UpTo(S, n) == {s \in SUBSET S : Cardinality(s) <= n}

Summable(S, f, n) ==
  \E sums \in [UpTo(S, n) -> Int] : \A s \in UpTo(S, n) : sums[s] = SumsUp(f, sums, s)

\* They can: one more element is chosen, and the rest has been summed up.
LEMMA SumsUpTo ==
  ASSUME NEW S, IsFiniteSet(S), NEW f \in [S -> Int], NEW n \in Nat
  PROVE  Summable(S, f, n)
<1> DEFINE Small(k) == UpTo(S, k)
           Summed(k) == Summable(S, f, k)
           Unsummed == {k \in Nat : ~Summed(k)}
<1> SUFFICES ASSUME Unsummed # {} PROVE FALSE
  OBVIOUS
<1>1. PICK k \in Nat : ~Summed(k) /\ \A m \in Nat : m < k => Summed(m)
  <2>1. PICK k \in Unsummed : \A m \in Unsummed : ~(m < k)
    BY SmallestNumber
  <2> QED
    BY <2>1
<1>2. \A s \in SUBSET S : IsFiniteSet(s) /\ Cardinality(s) \in Nat /\ (Cardinality(s) = 0 <=> s = {})
  BY FS_Subset, FS_CardinalityType, FS_EmptySet
<1>3. \A s \in SUBSET S : s # {} => Chosen(s) \in s /\ Cardinality(s \ {Chosen(s)}) = Cardinality(s) - 1
  BY <1>2, FS_RemoveElement DEF Chosen
<1>4. k # 0
  <2> SUFFICES Summed(0)
    BY <1>1
  <2>2. Small(0) = {{}}
    BY <1>2 DEF UpTo
  <2> DEFINE none == [s \in Small(0) |-> 0]
  <2>3. none \in [Small(0) -> Int] /\ \A s \in Small(0) : none[s] = SumsUp(f, none, s)
    BY <2>2 DEF SumsUp
  <2> QED
    BY <2>3 DEF Summable
<1>5. k - 1 \in Nat /\ Summed(k - 1)
  <2>1. k - 1 \in Nat /\ k - 1 < k
    BY <1>1, <1>4
  <2> QED
    BY <1>1, <2>1
<1>6. PICK sums \in [Small(k - 1) -> Int] : \A s \in Small(k - 1) : sums[s] = SumsUp(f, sums, s)
  BY <1>5 DEF Summable
<1> DEFINE more == [s \in Small(k) |-> SumsUp(f, sums, s)]
<1>7. \A s \in Small(k) : s # {} => s \ {Chosen(s)} \in Small(k - 1)
  BY <1>1, <1>2, <1>3, <1>5 DEF UpTo
<1>8. \A s \in Small(k - 1) : s \in Small(k) /\ more[s] = sums[s]
  BY <1>1, <1>2, <1>5, <1>6 DEF UpTo
<1>9. \A s \in Small(k) : SumsUp(f, sums, s) \in Int /\ SumsUp(f, more, s) = SumsUp(f, sums, s)
  <2> TAKE s \in Small(k)
  <2>0. CASE s = {}
    BY <2>0 DEF SumsUp
  <2> SUFFICES ASSUME s # {} PROVE SumsUp(f, sums, s) \in Int /\ SumsUp(f, more, s) = SumsUp(f, sums, s)
    BY <2>0
  <2> DEFINE t == s \ {Chosen(s)}
  <2>1. t \in Small(k - 1) /\ f[Chosen(s)] \in Int
    BY <1>3, <1>7 DEF UpTo
  <2>2. sums[t] \in Int /\ more[t] = sums[t]
    BY <1>6, <1>8, <2>1
  <2> HIDE DEF more
  <2> QED
    BY <2>1, <2>2 DEF SumsUp
<1>10. more \in [Small(k) -> Int] /\ \A s \in Small(k) : more[s] = SumsUp(f, more, s)
  BY <1>9
<1>11. Summed(k)
  BY <1>10 DEF Summable
<1> QED
  BY <1>1, <1>11

\* SumFunction's recursion has a solution, in integers.
LEMMA SumsRecur ==
  ASSUME NEW S, IsFiniteSet(S), NEW f \in [S -> Int]
  PROVE  /\ Sums(f) \in [SUBSET S -> Int]
         /\ \A s \in SUBSET S : Sums(f)[s] = SumsUp(f, Sums(f), s)
<1>1. Cardinality(S) \in Nat /\ \A s \in SUBSET S : Cardinality(s) <= Cardinality(S)
  BY FS_CardinalityType, FS_Subset
<1>2. PICK sums \in [UpTo(S, Cardinality(S)) -> Int] :
             \A s \in UpTo(S, Cardinality(S)) : sums[s] = SumsUp(f, sums, s)
  BY <1>1, SumsUpTo DEF Summable
<1>3. sums \in [SUBSET S -> Int] /\ \A s \in SUBSET S : sums[s] = SumsUp(f, sums, s)
  BY <1>1, <1>2 DEF UpTo
<1>4. sums = [s \in SUBSET DOMAIN f |-> SumsUp(f, sums, s)]
  BY <1>3
<1>5. Sums(f) = [s \in SUBSET DOMAIN f |-> SumsUp(f, Sums(f), s)]
  BY <1>4 DEF Sums
<1>6. \A s \in SUBSET S : Sums(f)[s] = SumsUp(f, Sums(f), s)
  BY <1>5
<1> DEFINE Differ == {s \in SUBSET S : Sums(f)[s] # sums[s]}
<1>7. ASSUME Differ # {} PROVE FALSE
  <2>1. PICK s \in Differ : \A t \in Differ : ~(t \subseteq s /\ t # s)
    <3>1. Differ \in SUBSET (SUBSET S)
      OBVIOUS
    <3> HIDE DEF Differ
    <3> QED
      BY <1>7, <3>1, SmallestSubset
  <2>2. s # {} => s \ {Chosen(s)} \notin Differ
    BY <2>1 DEF Chosen
  <2> QED
    BY <1>3, <1>6, <2>1, <2>2 DEF SumsUp
<1>8. Sums(f) \in [SUBSET S -> Int]
  BY <1>3, <1>5, <1>7
<1> QED
  BY <1>6, <1>8

LEMMA SumType ==
  ASSUME NEW S, IsFiniteSet(S), NEW f \in [S -> Int]
  PROVE  SumFunction(f) \in Int
<1>1. SumFunction(f) = Sums(f)[S] /\ S \in SUBSET S
  BY SumOfSums
<1>2. Sums(f) \in [SUBSET S -> Int]
  BY SumsRecur
<1> QED
  BY <1>1, <1>2

\* Nothing sums up to nothing.
LEMMA SumOfZeros ==
  ASSUME NEW S, IsFiniteSet(S)
  PROVE  SumFunction([a \in S |-> 0]) = 0
<1> DEFINE f == [a \in S |-> 0]
           Differ == {s \in SUBSET S : Sums(f)[s] # 0}
<1>1. f \in [S -> Int]
  OBVIOUS
<1>2. ASSUME Differ # {} PROVE FALSE
  <2>1. PICK s \in Differ : \A t \in Differ : ~(t \subseteq s /\ t # s)
    <3>1. Differ \in SUBSET (SUBSET S)
      OBVIOUS
    <3> HIDE DEF Differ
    <3> QED
      BY <1>2, <3>1, SmallestSubset
  <2>2. s # {} => Chosen(s) \in s /\ s \ {Chosen(s)} \notin Differ
    BY <2>1 DEF Chosen
  <2> HIDE DEF f
  <2>3. \A a \in S : f[a] = 0
    BY DEF f
  <2>4. Sums(f)[s] = SumsUp(f, Sums(f), s)
    BY <1>1, <2>1, SumsRecur
  <2> QED
    BY <2>1, <2>2, <2>3, <2>4 DEF SumsUp
<1> QED
  BY <1>1, <1>2, SumOfSums

Added(f, a, d) == [f EXCEPT ![a] = @ + d]

\* To add to one term is to add to the sum.
LEMMA SumOfChange ==
  ASSUME NEW S, IsFiniteSet(S), NEW f \in [S -> Int], NEW a \in S, NEW d \in Int
  PROVE  /\ Added(f, a, d) \in [S -> Int]
         /\ SumFunction(Added(f, a, d)) = SumFunction(f) + d
<1> DEFINE g == Added(f, a, d)
           Shift(s) == IF a \in s THEN d ELSE 0
           Differ == {s \in SUBSET S : Sums(g)[s] # Sums(f)[s] + Shift(s)}
<1>1. g \in [S -> Int] /\ g[a] = f[a] + d /\ \A b \in S \ {a} : g[b] = f[b]
  BY DEF Added
<1> HIDE DEF g
<1>2. /\ Sums(f) \in [SUBSET S -> Int] /\ Sums(g) \in [SUBSET S -> Int]
      /\ \A s \in SUBSET S : Sums(f)[s] = SumsUp(f, Sums(f), s)
      /\ \A s \in SUBSET S : Sums(g)[s] = SumsUp(g, Sums(g), s)
  BY <1>1, SumsRecur
<1>3. ASSUME Differ # {} PROVE FALSE
  <2>1. PICK s \in Differ : \A t \in Differ : ~(t \subseteq s /\ t # s)
    <3>1. Differ \in SUBSET (SUBSET S)
      OBVIOUS
    <3> HIDE DEF Differ
    <3> QED
      BY <1>3, <3>1, SmallestSubset
  <2>2. CASE s = {}
    <3>1. Sums(f)[s] = 0 /\ Sums(g)[s] = 0 /\ Shift(s) = 0
      BY <1>2, <2>1, <2>2 DEF SumsUp
    <3> QED
      BY <2>1, <3>1
  <2>3. CASE s # {}
    <3> DEFINE b == Chosen(s)
               t == s \ {b}
    <3>1. b \in s /\ b \in S /\ t \in SUBSET S /\ t \notin Differ
      BY <2>1, <2>3 DEF Chosen
    <3>2. Sums(f)[s] = f[b] + Sums(f)[t] /\ Sums(g)[s] = g[b] + Sums(g)[t]
      BY <1>2, <2>1, <2>3 DEF SumsUp
    <3>3. Sums(g)[t] = Sums(f)[t] + Shift(t)
      BY <3>1
    <3>4. g[b] + Shift(t) = f[b] + Shift(s)
      BY <1>1, <3>1
    <3>5. Sums(f)[t] \in Int /\ f[b] \in Int /\ g[b] \in Int /\ Shift(t) \in Int /\ Shift(s) \in Int
      BY <1>1, <1>2, <3>1
    <3>6. Sums(g)[s] = Sums(f)[s] + Shift(s)
      <4> HIDE DEF b, t, Shift
      <4> QED
        BY <3>2, <3>3, <3>4, <3>5
    <3> QED
      BY <2>1, <3>6
  <2> QED
    BY <2>2, <2>3
<1>4. Sums(g)[S] = Sums(f)[S] + d
  BY <1>3
<1>5. SumFunction(g) = Sums(g)[S] /\ SumFunction(f) = Sums(f)[S]
  BY <1>1, SumOfSums
<1> QED
  BY <1>1, <1>4, <1>5 DEF g

-----------------------------------------------------------------------------
(* The ledger                                                              *)

BalancesAddUp == SumFunction(balance) = totalSupply

LEMMA AddressesFinite == IsFiniteSet(Addresses)
<1>1. IsFiniteSet(Users \union {Contract})
  BY AddressesAssumption, FS_AddElement
<1> QED
  BY <1>1 DEF Addresses

\* Wei that move stay in the ledger.
LEMMA MoveKeepsSum ==
  ASSUME TypeOK, NEW from \in Addresses, NEW to \in Addresses, NEW amount \in Nat, Move(from, to, amount),
         BalancesAddUp
  PROVE  BalancesAddUp'
<1>1. CASE from = to
  BY <1>1 DEF Move, BalancesAddUp
<1>2. CASE from # to
  <2> DEFINE taken == Added(balance, from, -amount)
  <2>1. balance \in [Addresses -> Int]
    BY DEF TypeOK
  <2>2. taken \in [Addresses -> Int] /\ SumFunction(taken) = SumFunction(balance) + (-amount)
    BY <2>1, AddressesFinite, SumOfChange
  <2>3. balance' = Added(taken, to, amount)
    BY <1>2, <2>1 DEF Move, Added
  <2>4. SumFunction(Added(taken, to, amount)) = SumFunction(taken) + amount
    <3> HIDE DEF taken
    <3> QED
      BY <2>2, AddressesFinite, SumOfChange
  <2>5. SumFunction(balance) \in Int
    BY <2>1, AddressesFinite, SumType
  <2> HIDE DEF taken
  <2> QED
    BY <2>2, <2>3, <2>4, <2>5 DEF Move, BalancesAddUp
<1> QED
  BY <1>1, <1>2

\* Burned wei leave the ledger and the supply alike.
LEMMA BurnKeepsSum ==
  ASSUME TypeOK, NEW from \in Addresses, NEW amount \in Nat, Burn(from, amount), BalancesAddUp
  PROVE  BalancesAddUp'
<1>1. balance \in [Addresses -> Int] /\ totalSupply \in Int
  BY DEF TypeOK
<1>2. balance' = Added(balance, from, -amount)
  BY <1>1 DEF Burn, Added
<1>3. SumFunction(Added(balance, from, -amount)) = SumFunction(balance) + (-amount)
  BY <1>1, AddressesFinite, SumOfChange
<1> QED
  BY <1>1, <1>2, <1>3 DEF Burn, BalancesAddUp

\* The constructor gives the airdrop to the treasury and keeps the rest.
LEMMA MintAddsUp ==
  ASSUME Init
  PROVE  BalancesAddUp
<1> DEFINE toTreasury == AIRDROP_BEADS * UNIT
           toPile == (GENESIS_BEADS - AIRDROP_BEADS) * UNIT
           none == [a \in Addresses |-> 0]
           airdrop == Added(none, Treasury, toTreasury)
<1>1. toTreasury \in Int /\ toPile \in Int /\ toTreasury + toPile = totalSupply
  BY AmountsAssumption DEF Init
<1>2. Treasury \in Addresses /\ Contract \in Addresses /\ Treasury # Contract
  BY AddressesAssumption DEF Addresses
<1>3. balance = Added(airdrop, Contract, toPile)
  <2>1. balance = [a \in Addresses |-> IF a = Treasury THEN toTreasury
                                       ELSE IF a = Contract THEN toPile ELSE 0]
    BY <1>2 DEF Init
  <2> HIDE DEF toTreasury, toPile
  <2> QED
    BY <1>1, <1>2, <2>1 DEF Added
<1>4. none \in [Addresses -> Int] /\ SumFunction(none) = 0
  BY AddressesFinite, SumOfZeros
<1> HIDE DEF toTreasury, toPile, none
<1>5. airdrop \in [Addresses -> Int] /\ SumFunction(airdrop) = SumFunction(none) + toTreasury
  BY <1>1, <1>2, <1>4, AddressesFinite, SumOfChange
<1> HIDE DEF airdrop
<1>6. SumFunction(Added(airdrop, Contract, toPile)) = SumFunction(airdrop) + toPile
  BY <1>1, <1>2, <1>5, AddressesFinite, SumOfChange
<1> QED
  BY <1>1, <1>3, <1>4, <1>5, <1>6 DEF BalancesAddUp

\* Beadz.sol over OpenZeppelin's ledger: the constructor mints the supply into two accounts, and
\* whatever is claimed, sent, surrendered or redeemed, the balances of all addresses add up to it.
THEOREM Ledger == Spec => []LedgerBalanced
<1>1. ASSUME TypeOK, BalancesAddUp, [Next]_vars
      PROVE  BalancesAddUp'
  <2>1. CASE UNCHANGED tokens
    BY <1>1, <2>1 DEF tokens, BalancesAddUp
  <2>2. ASSUME NEW user \in Users, Claim(user) PROVE BalancesAddUp'
    BY <1>1, <2>2, MoveKeepsSum, AmountsAssumption DEF Claim, Addresses
  <2>3. ASSUME NEW user \in Users, NEW amount \in 1..balance[user], Surrender(user, amount)
        PROVE  BalancesAddUp'
    BY <1>1, <2>3, MoveKeepsSum DEF Surrender, Addresses
  <2>4. ASSUME NEW user \in Users, NEW amount \in 1..balance[user], Redeem(user, amount)
        PROVE  BalancesAddUp'
    BY <1>1, <2>4, BurnKeepsSum DEF Redeem, Addresses
  <2>5. ASSUME NEW user \in Users, NEW amount \in 1..balance[user], NEW to \in Addresses,
               Transfer(user, to, amount)
        PROVE  BalancesAddUp'
    BY <1>1, <2>5, MoveKeepsSum DEF Transfer, Addresses
  <2> QED
    BY <1>1, <2>1, <2>2, <2>3, <2>4, <2>5
    DEF Next, Tick, HolderStep, KeeperStep, AttestBeadCount, SetRedemptionDeadline, RotateKeeper,
        FreezeKeeper, vars
<1>2. SupplyIsWhole /\ BalancesAddUp => LedgerBalanced
  BY DEF LedgerBalanced, BalancesAddUp
<1> QED
  BY <1>1, <1>2, MintAddsUp, TypeCorrect, SupplyAccounted, PTL DEF Spec
=============================================================================
