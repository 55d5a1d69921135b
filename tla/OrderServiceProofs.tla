-------------------------- MODULE OrderServiceProofs --------------------------
(***************************************************************************)
(* Theorems about OrderService, for every slippage and commission, every   *)
(* set of keys and every account the engine can call it with.              *)
(*                                                                         *)
(* The arithmetic of one order comes first: what the whole shares of a     *)
(* target are worth at either side's price, and what the cash pays for.    *)
(* The orders listed so far are then tied to the deltas they came from     *)
(* (QueueInv), and the keys that are gone without an order to the cash     *)
(* that is left (DroppedInv).                                              *)
(***************************************************************************)
EXTENDS OrderService, Sums

------------------------------------------------------------------------------
(* Arithmetic.                                                              *)

LEMMA Division ==
    ASSUME NEW a \in Nat, NEW d \in Nat \ {0}
    PROVE  /\ a \div d \in Nat
           /\ (a \div d) * d <= a /\ a < (a \div d + 1) * d
  OBVIOUS

LEMMA ProductGrows ==
    ASSUME NEW x \in Nat, NEW y \in Nat, NEW z \in Nat, x <= y
    PROVE  x * z <= y * z /\ z * x <= z * y /\ x * z \in Nat
  OBVIOUS

LEMMA ProductIsPositive ==
    ASSUME NEW x \in Nat \ {0}, NEW y \in Nat \ {0}
    PROVE  x * y \in Nat \ {0}
  OBVIOUS

LEMMA DivisionGrows ==
    ASSUME NEW a \in Nat, NEW b \in Nat, NEW d \in Nat \ {0}, a <= b
    PROVE  a \div d <= b \div d
  <1>1. (a \div d) * d <= a /\ b < (b \div d + 1) * d /\ a \div d \in Nat /\ b \div d \in Nat
    BY Division
  <1>2. SUFFICES ASSUME b \div d + 1 <= a \div d PROVE FALSE
    BY <1>1
  <1>3. (b \div d + 1) * d <= (a \div d) * d
    BY <1>1, <1>2, ProductGrows
  <1> QED
    BY <1>1, <1>3

------------------------------------------------------------------------------
(* One slot.                                                                *)

Called(call) ==
    /\ cash = call.cash /\ positions = call.positions
    /\ target = call.target /\ opens = call.opens
CallInv == \E call \in Accounts : Called(call)

BuyTicks(slot) == ApplySlippage("BUY", opens[slot.symbol])
SellTicks(slot) == ApplySlippage("SELL", opens[slot.symbol])

LEMMA ExecutionNumbers ==
    /\ BpsDivisor \in Nat \ {0} /\ RateDivisor \in Nat \ {0}
    /\ SlippageBps \in Nat /\ SlippageBps <= BpsDivisor
    /\ CommissionRate \in Nat /\ CommissionRate <= RateDivisor
    /\ RateDivisor + CommissionRate \in Nat \ {0} /\ RateDivisor - CommissionRate \in Nat
    /\ MinTradeValue \in Nat
  BY ExecutionAssumption, OrderServiceAssumption DEF ExecutionAssumption, OrderServiceAssumption

\* What an account is worth is what its positions add up to.
LEMMA EquityOf ==
    ASSUME CallInv
    PROVE  Equity(cash, positions) \in Nat
  <1> DEFINE value == [k \in DOMAIN positions |-> MarketValue(positions[k])]
             S == DOMAIN positions
             it == CHOOSE it : it = [s \in SUBSET S |->
                        IF s = {} THEN 0
                        ELSE MarketValue(positions[Pick(s)]) + it[s \ {Pick(s)}]]
  <1>1. cash \in Nat /\ IsFiniteSet(S) /\ \A k \in S : value[k] \in Nat
    <2>1. PICK call \in Accounts : Called(call)
      BY DEF CallInv
    <2>2. cash \in Nat /\ IsFiniteSet(S)
      BY <2>1, AccountAssumption DEF Called, AccountAssumption
    <2>3. ASSUME NEW k \in S PROVE MarketValue(positions[k]) \in Nat
      <3>1. /\ positions[k].quantity \in Nat /\ positions[k].price \in Nat
            /\ positions[k].valued \in BOOLEAN
        BY <2>1, AccountAssumption DEF Called, AccountAssumption
      <3>2. positions[k].quantity * positions[k].price * RateDivisor \in Nat
        BY <3>1, ExecutionNumbers, ProductGrows
      <3> QED
        BY <3>1, <3>2 DEF MarketValue, TradeValue
    <2> QED
      BY <2>2, <2>3
  <1>2. Equity(cash, positions) = cash + it[S]
    BY DEF Equity, MapThenSumSet, MapThenFoldSet, Pick
  <1>3. Adds(it, value, S)
    <2>1. \A jt : Adds(jt, value, S) <=> jt = [s \in SUBSET S |->
                        IF s = {} THEN 0
                        ELSE MarketValue(positions[Pick(s)]) + jt[s \ {Pick(s)}]]
      BY DEF Adds, Pick
    <2>2. \E jt : Adds(jt, value, S)
      <3> HIDE DEF value, S
      <3>1. \A k \in S : value[k] \in Int
        BY <1>1
      <3> QED
        BY <1>1, <3>1, AddsExists
    <2> QED
      BY <2>1, <2>2
  <1> HIDE DEF it, value, S
  <1>4. Total(value, S) = it[S] /\ Total(value, S) \in Nat
    BY <1>1, <1>3, TotalIs, TotalIsNat
  <1> QED
    BY <1>1, <1>2, <1>4

LEMMA SlotOf ==
    ASSUME CallInv, NEW k \in BookedKeys
    PROVE  LET slot == Slot(k) IN
           /\ k \in Nat /\ slot.quantity \in Nat /\ slot.value \in Nat
           /\ Aim(slot) \in Nat /\ Parts(slot) \in Nat \ {0}
           /\ slot.symbol \in DOMAIN opens => opens[slot.symbol] \in Nat
  <1>1. PICK call \in Accounts : Called(call)
    BY DEF CallInv
  <1> DEFINE held == positions[k]
  <1>2. k \in DOMAIN positions => /\ held.quantity \in Nat /\ held.price \in Nat
                                  /\ held.valued \in BOOLEAN /\ k \in Nat
    BY <1>1, AccountAssumption, OrderServiceAssumption
       DEF Called, AccountAssumption, OrderServiceAssumption
  <1>3. k \in DOMAIN target.listing => target.count \in Nat \ {0} /\ k \in Nat
    BY <1>1, AccountAssumption, OrderServiceAssumption
       DEF Called, AccountAssumption, OrderServiceAssumption
  <1>4. Equity(cash, positions) \in Nat /\ \A s \in DOMAIN opens : opens[s] \in Nat
    BY <1>1, EquityOf, AccountAssumption DEF Called, AccountAssumption
  <1>5. k \in DOMAIN positions => MarketValue(held) \in Nat
    <2> SUFFICES ASSUME held.quantity \in Nat, held.price \in Nat, held.valued \in BOOLEAN
                 PROVE  MarketValue(held) \in Nat
      BY <1>2
    <2>1. held.quantity * held.price * RateDivisor \in Nat
      BY ExecutionNumbers, ProductGrows
    <2> QED
      BY <2>1 DEF MarketValue, TradeValue
  <1>6. k \in DOMAIN positions \/ k \in DOMAIN target.listing
    BY DEF BookedKeys
  <1>7. /\ Slot(k).quantity = IF k \in DOMAIN positions THEN held.quantity ELSE 0
        /\ Slot(k).value = IF k \in DOMAIN positions THEN MarketValue(held) ELSE 0
        /\ Slot(k).wanted <=> k \in DOMAIN target.listing
    BY DEF Slot
  <1> HIDE DEF held
  <1>8. k \in Nat /\ Slot(k).quantity \in Nat /\ Slot(k).value \in Nat
    BY <1>2, <1>3, <1>5, <1>6, <1>7
  <1>9. Aim(Slot(k)) \in Nat /\ Parts(Slot(k)) \in Nat \ {0}
    BY <1>3, <1>4, <1>7 DEF Aim, Parts
  <1> QED
    BY <1>4, <1>8, <1>9

\* A slot that is traded is priced, and sized at one of the two sides' prices.
LEMMA SizedAt ==
    ASSUME CallInv, NEW k \in BookedKeys, Delta(Slot(k)) # 0
    PROVE  LET slot == Slot(k) IN
           /\ ~ LeftAlone(slot)
           /\ opens[slot.symbol] \in Nat \ {0}
           /\ SellTicks(slot) \in Nat /\ BuyTicks(slot) \in Nat \ {0}
           /\ \E t \in Nat \ {0} :
                 /\ t = IF Aim(slot) >= Parts(slot) * slot.value THEN BuyTicks(slot)
                        ELSE SellTicks(slot)
                 /\ SellTicks(slot) <= t /\ t <= BuyTicks(slot)
                 /\ Parts(slot) * t * RateDivisor \in Nat \ {0}
                 /\ Delta(slot) = Aim(slot) \div (Parts(slot) * t * RateDivisor) - slot.quantity
  <1> DEFINE slot == Slot(k)
             open == opens[slot.symbol]
             side == IF Aim(slot) >= Parts(slot) * slot.value THEN "BUY" ELSE "SELL"
             t == ApplySlippage(side, open)
  <1>1. /\ ~ LeftAlone(slot) /\ ~ (t <= 0)
        /\ Delta(slot) = Aim(slot) \div (Parts(slot) * t * RateDivisor) - slot.quantity
    BY DEF Delta
  <1>2. open \in Nat \ {0}
    BY <1>1, SlotOf DEF LeftAlone
  <1>3. Parts(slot) \in Nat \ {0}
    BY SlotOf
  <1>4. t = IF Aim(slot) >= Parts(slot) * slot.value THEN BuyTicks(slot) ELSE SellTicks(slot)
    BY DEF BuyTicks, SellTicks
  <1>5. BuyTicks(slot) = open * (BpsDivisor + SlippageBps) /\
        SellTicks(slot) = open * (BpsDivisor - SlippageBps)
    BY DEF BuyTicks, SellTicks, ApplySlippage
  <1> HIDE DEF slot, open, t
  <1>6. SellTicks(slot) \in Nat /\ BuyTicks(slot) \in Nat \ {0} /\ SellTicks(slot) <= BuyTicks(slot)
    <2>1. BpsDivisor - SlippageBps \in Nat /\ BpsDivisor + SlippageBps \in Nat \ {0}
      BY ExecutionNumbers
    <2>2. BpsDivisor - SlippageBps <= BpsDivisor + SlippageBps
      BY ExecutionNumbers
    <2> QED
      BY <1>2, <1>5, <2>1, <2>2, ProductGrows, ProductIsPositive
  <1>7. t \in Nat \ {0} /\ SellTicks(slot) <= t /\ t <= BuyTicks(slot)
    BY <1>1, <1>4, <1>6
  <1>8. Parts(slot) * t * RateDivisor \in Nat \ {0}
    BY <1>3, <1>7, ExecutionNumbers, ProductIsPositive
  <1> QED
    BY <1>1, <1>2, <1>4, <1>6, <1>7, <1>8 DEF slot, open

------------------------------------------------------------------------------
(* One order.                                                               *)

Worth(slot, quantity, side) ==
    Parts(slot) * TradeValue(quantity, ApplySlippage(side, opens[slot.symbol]))

LEMMA Regroup ==
    ASSUME NEW a \in Nat, NEW x \in Nat, NEW t \in Nat, NEW r \in Nat
    PROVE  a * (x * t * r) = x * (a * t * r) /\ a * t * r \in Nat
  OBVIOUS

LEMMA PriceGrows ==
    ASSUME NEW a \in Nat, NEW x \in Nat, NEW r \in Nat, NEW s \in Nat, NEW t \in Nat, s <= t
    PROVE  x * (a * s * r) <= x * (a * t * r)
  <1>1. a * s <= a * t /\ a * s \in Nat /\ a * t \in Nat
    BY ProductGrows
  <1>2. a * s * r <= a * t * r /\ a * s * r \in Nat /\ a * t * r \in Nat
    BY <1>1, ProductGrows
  <1> QED
    BY <1>2, ProductGrows

\* Up to the shares a target is sized to, a slot is worth at most its target at the
\* price of a sale; with one share more, it is worth more at the price of a buy.
LEMMA SizedWorth ==
    ASSUME CallInv, NEW k \in BookedKeys, Delta(Slot(k)) # 0
    PROVE  LET slot == Slot(k)
               shares == slot.quantity + Delta(slot)
           IN  /\ shares \in Nat
               /\ \A x \in 0 .. shares : Worth(slot, x, "SELL") <= Aim(slot)
               /\ Worth(slot, shares + 1, "BUY") > Aim(slot)
  <1> DEFINE slot == Slot(k)
             shares == slot.quantity + Delta(slot)
             aim == Aim(slot)
             parts == Parts(slot)
             sell == SellTicks(slot)
             buy == BuyTicks(slot)
  <1>1. slot.quantity \in Nat /\ aim \in Nat /\ parts \in Nat \ {0} /\ RateDivisor \in Nat
    BY SlotOf, ExecutionNumbers
  <1>2. PICK t \in Nat \ {0} :
            /\ sell \in Nat /\ buy \in Nat /\ sell <= t /\ t <= buy
            /\ parts * t * RateDivisor \in Nat \ {0}
            /\ Delta(slot) = aim \div (parts * t * RateDivisor) - slot.quantity
    BY SizedAt
  <1>3. \A x : /\ Worth(slot, x, "SELL") = parts * (x * sell * RateDivisor)
               /\ Worth(slot, x, "BUY") = parts * (x * buy * RateDivisor)
    BY DEF Worth, TradeValue, SellTicks, BuyTicks
  <1> HIDE DEF slot, aim, parts, sell, buy
  <1> DEFINE d == parts * t * RateDivisor
  <1>4. /\ shares = aim \div d /\ shares \in Nat
        /\ shares * d <= aim /\ aim < (shares + 1) * d
    <2>1. shares = aim \div d
      BY <1>1, <1>2, Division
    <2> HIDE DEF d, shares
    <2> QED
      BY <1>1, <1>2, <2>1, Division DEF d
  <1>5. ASSUME NEW x \in 0 .. shares
        PROVE  Worth(slot, x, "SELL") <= aim
    <2>1. x \in Nat /\ x <= shares
      BY <1>4
    <2>2. parts * (x * sell * RateDivisor) = x * (parts * sell * RateDivisor)
      BY <1>1, <1>2, <2>1, Regroup
    <2>3. x * (parts * sell * RateDivisor) <= x * d
      BY <1>1, <1>2, <2>1, PriceGrows
    <2>4. x * d <= shares * d /\ x * d \in Nat /\ shares * d \in Nat
      BY <1>2, <1>4, <2>1, ProductGrows
    <2>5. x * (parts * sell * RateDivisor) \in Nat
      BY <1>1, <1>2, <2>1, Regroup, ProductGrows
    <2> HIDE DEF d, shares
    <2> QED
      BY <1>1, <1>3, <1>4, <2>2, <2>3, <2>4, <2>5
  <1>6. Worth(slot, shares + 1, "BUY") > aim
    <2>1. shares + 1 \in Nat
      BY <1>4
    <2>2. parts * ((shares + 1) * buy * RateDivisor) = (shares + 1) * (parts * buy * RateDivisor)
      BY <1>1, <1>2, <2>1, Regroup
    <2>3. (shares + 1) * d <= (shares + 1) * (parts * buy * RateDivisor)
      BY <1>1, <1>2, <2>1, PriceGrows
    <2>4. /\ (shares + 1) * (parts * buy * RateDivisor) \in Nat
          /\ (shares + 1) * d \in Nat
      BY <1>1, <1>2, <2>1, Regroup, ProductGrows
    <2> HIDE DEF d, shares
    <2> QED
      BY <1>1, <1>3, <1>4, <2>2, <2>3, <2>4
  <1> QED
    BY <1>4, <1>5, <1>6 DEF slot, aim

LEMMA SpreadOut ==
    ASSUME NEW a \in Nat, NEW q \in Nat, NEW p \in Nat, NEW b \in Nat, NEW s \in Nat, NEW r \in Nat
    PROVE  /\ q * (a * (p * (b + s)) * r) = a * (q * (p * b) * r) + a * (q * (p * s) * r)
           /\ q * (a * (p * (b - s)) * r) = a * (q * (p * b) * r) - a * (q * (p * s) * r)
           /\ b * (q * (p * s) * r) = s * (q * (p * b) * r)
  OBVIOUS

LEMMA Cancel ==
    ASSUME NEW x \in Nat, NEW y \in Nat, NEW b \in Nat \ {0}, b * x <= b * y
    PROVE  x <= y
  OBVIOUS

\* A held slot that has an open is valued at it.
LEMMA MarkedValue ==
    ASSUME CallInv, NEW k \in BookedKeys, Slot(k).symbol \in DOMAIN opens
    PROVE  Slot(k).value = Slot(k).quantity * Quoted(opens[Slot(k).symbol]) * RateDivisor
  <1>1. PICK call \in Accounts : Called(call)
    BY DEF CallInv
  <1>2. CASE k \in DOMAIN positions
    <2>1. Slot(k).symbol = positions[k].symbol
      BY <1>1, <1>2, MarkedAssumption DEF Called, MarkedAssumption, Slot
    <2>2. positions[k].valued /\ positions[k].price = Quoted(opens[Slot(k).symbol])
      BY <1>1, <1>2, <2>1, MarkedAssumption DEF Called, MarkedAssumption
    <2>3. Slot(k).value = MarketValue(positions[k]) /\ Slot(k).quantity = positions[k].quantity
      BY <1>2 DEF Slot
    <2> QED
      BY <2>2, <2>3 DEF MarketValue, TradeValue
  <1>3. CASE k \notin DOMAIN positions
    <2>1. Slot(k).value = 0 /\ Slot(k).quantity = 0
      BY <1>3 DEF Slot
    <2>2. opens[Slot(k).symbol] \in Nat
      BY SlotOf
    <2>3. Quoted(opens[Slot(k).symbol]) \in Nat
      BY <2>2, ExecutionNumbers, ProductGrows DEF Quoted
    <2> QED
      BY <2>1, <2>3, ExecutionNumbers
  <1> QED
    BY <1>2, <1>3

\* Slippage on what is held is worth less than a minimum trade: then the shares are
\* bought or sold on the side the target was sized for.
LEMMA SizedSide ==
    ASSUME CallInv, NEW k \in BookedKeys, Delta(Slot(k)) # 0,
           SlippageBps * Slot(k).value <= BpsDivisor * MinTradeValue
    PROVE  Delta(Slot(k)) > 0 <=> Aim(Slot(k)) > Parts(Slot(k)) * Slot(k).value
  <1> DEFINE slot == Slot(k)
             aim == Aim(slot)
             parts == Parts(slot)
             value == slot.value
             held == slot.quantity
             open == opens[slot.symbol]
             lost == held * (open * SlippageBps) * RateDivisor
             gap == parts * MinTradeValue
  <1>1. PICK t \in Nat \ {0} :
            /\ t = IF aim >= parts * value THEN BuyTicks(slot) ELSE SellTicks(slot)
            /\ parts * t * RateDivisor \in Nat \ {0}
            /\ Delta(slot) = aim \div (parts * t * RateDivisor) - held
    BY SizedAt
  <1>2. /\ held \in Nat /\ value \in Nat /\ aim \in Nat /\ parts \in Nat \ {0}
        /\ open \in Nat \ {0}
    BY SlotOf, SizedAt
  <1>3. /\ slot.symbol \in DOMAIN opens
        /\ ~ (Distance(aim, parts * value) < gap)
    BY SizedAt DEF LeftAlone
  <1>4. value = held * (open * BpsDivisor) * RateDivisor
    BY <1>3, MarkedValue DEF Quoted
  <1>5. /\ BuyTicks(slot) = open * (BpsDivisor + SlippageBps)
        /\ SellTicks(slot) = open * (BpsDivisor - SlippageBps)
    BY DEF BuyTicks, SellTicks, ApplySlippage
  <1>6. SlippageBps * value <= BpsDivisor * MinTradeValue /\ Delta(slot) # 0
    OBVIOUS
  <1> HIDE DEF slot, aim, parts, value, held, open
  <1> DEFINE d == parts * t * RateDivisor
             shares == aim \div d
  <1>7. /\ shares \in Nat /\ d \in Nat \ {0}
        /\ shares * d <= aim /\ aim < (shares + 1) * d
    BY <1>1, <1>2, Division
  <1>8. lost \in Nat /\ lost <= MinTradeValue
    <2>1. lost \in Nat
      BY <1>2, ExecutionNumbers, ProductGrows
    <2>2. BpsDivisor * lost = SlippageBps * value
      BY <1>2, <1>4, ExecutionNumbers, SpreadOut
    <2> HIDE DEF lost
    <2> QED
      BY <1>6, <2>1, <2>2, ExecutionNumbers, Cancel
  <1>9. /\ parts * lost <= gap /\ gap \in Nat /\ parts * lost \in Nat
        /\ parts * value \in Nat
    BY <1>2, <1>8, ExecutionNumbers, ProductGrows
  <1>10. /\ shares < held => (shares + 1) * d <= held * d
         /\ shares > held => held * d + d <= shares * d
         /\ held * d \in Nat /\ shares * d \in Nat /\ (shares + 1) * d \in Nat
    <2> HIDE DEF d, shares
    <2>1. shares + 1 <= held => (shares + 1) * d <= held * d
      BY <1>2, <1>7, ProductGrows
    <2>2. held + 1 <= shares => (held + 1) * d <= shares * d
      BY <1>2, <1>7, ProductGrows
    <2>3. (held + 1) * d = held * d + d
      BY <1>2, <1>7
    <2>4. held * d \in Nat /\ shares * d \in Nat /\ (shares + 1) * d \in Nat
      BY <1>2, <1>7, ProductGrows
    <2> QED
      BY <1>2, <1>7, <2>1, <2>2, <2>3, <2>4
  <1>11. CASE aim >= parts * value
    <2>1. held * d = parts * value + parts * lost
      BY <1>1, <1>2, <1>4, <1>5, <1>11, ExecutionNumbers, SpreadOut
    <2>2. aim - parts * value >= gap
      BY <1>2, <1>3, <1>9, <1>11 DEF Distance
    <2> HIDE DEF d, shares, lost, gap
    <2>3. ~ (shares < held)
      BY <1>2, <1>7, <1>9, <1>10, <2>1, <2>2
    <2>4. shares > held => aim > parts * value
      BY <1>2, <1>7, <1>9, <1>10, <2>1
    <2> QED
      BY <1>1, <1>2, <1>6, <1>7, <2>3, <2>4 DEF d, shares, slot, aim, parts, value
  <1>12. CASE aim < parts * value
    <2>1. held * d = parts * value - parts * lost
      BY <1>1, <1>2, <1>4, <1>5, <1>9, <1>12, ExecutionNumbers, SpreadOut
    <2>2. parts * value - aim >= gap
      BY <1>2, <1>3, <1>9, <1>12 DEF Distance
    <2> HIDE DEF d, shares, lost, gap
    <2>3. ~ (shares > held)
      BY <1>2, <1>7, <1>9, <1>10, <2>1, <2>2
    <2> QED
      BY <1>1, <1>2, <1>7, <1>12, <2>3 DEF d, shares, slot, aim, parts, value
  <1> QED
    BY <1>2, <1>9, <1>11, <1>12

------------------------------------------------------------------------------
(* What the cash pays for.                                                  *)

\* GapsTraded's reasons why a key that lacks shares is left without an order.
UnpaidAt(k, money) ==
    LET ticks == BuyTicks(Slot(k)) IN
    \/ money < BuyCost(1, ticks)
    \/ TradeValue(MaxSharesForCash(money, ticks), ticks) < MinTradeValue
    \/ TradeValue(Delta(Slot(k)), ticks) < MinTradeValue

LEMMA ShareCost ==
    ASSUME NEW ticks \in Nat \ {0}
    PROVE  /\ ticks * (RateDivisor + CommissionRate) \in Nat \ {0}
           /\ \A x \in Nat : /\ BuyCost(x, ticks) = x * (ticks * (RateDivisor + CommissionRate))
                             /\ BuyCost(x, ticks) \in Nat
                             /\ TradeValue(x, ticks) = x * (ticks * RateDivisor)
           /\ ticks * RateDivisor \in Nat
  <1>1. ticks * (RateDivisor + CommissionRate) \in Nat \ {0} /\ ticks * RateDivisor \in Nat
    BY ExecutionNumbers, ProductIsPositive
  <1>2. ASSUME NEW x \in Nat
        PROVE  /\ BuyCost(x, ticks) = x * (ticks * (RateDivisor + CommissionRate))
               /\ TradeValue(x, ticks) = x * (ticks * RateDivisor)
    BY ExecutionNumbers DEF BuyCost, TradeValue
  <1>3. \A x \in Nat : x * (ticks * (RateDivisor + CommissionRate)) \in Nat
    BY <1>1, ProductGrows
  <1> QED
    BY <1>1, <1>2, <1>3

LEMMA SharesOf ==
    ASSUME NEW ticks \in Nat \ {0}, NEW money \in Nat
    PROVE  LET shares == MaxSharesForCash(money, ticks) IN
           /\ shares \in Nat /\ BuyCost(shares, ticks) <= money
           /\ shares = 0 => money < BuyCost(1, ticks)
  <1> DEFINE each == ticks * (RateDivisor + CommissionRate)
             shares == MaxSharesForCash(money, ticks)
  <1>1. each \in Nat \ {0} /\ \A x \in Nat : BuyCost(x, ticks) = x * each
    BY ShareCost
  <1>2. shares = IF money = 0 THEN 0 ELSE money \div each
    BY DEF MaxSharesForCash
  <1> HIDE DEF each, shares
  <1>3. shares \in Nat /\ shares * each <= money /\ money < (shares + 1) * each
    <2>1. CASE money = 0
      BY <1>1, <1>2, <2>1
    <2>2. CASE money # 0
      BY <1>1, <1>2, <2>2, Division
    <2> QED
      BY <2>1, <2>2
  <1>4. shares \in Nat /\ BuyCost(shares, ticks) <= money /\ (shares = 0 => money < BuyCost(1, ticks))
    BY <1>1, <1>3
  <1> QED
    BY <1>4 DEF shares

LEMMA LessMoneyBuysLess ==
    ASSUME CallInv, NEW k \in BookedKeys, Delta(Slot(k)) # 0,
           NEW more \in Nat, NEW less \in Nat, less <= more, UnpaidAt(k, more)
    PROVE  UnpaidAt(k, less)
  <1> DEFINE ticks == BuyTicks(Slot(k))
             each == ticks * (RateDivisor + CommissionRate)
             few == MaxSharesForCash(less, ticks)
             many == MaxSharesForCash(more, ticks)
  <1>1. ticks \in Nat \ {0}
    BY SizedAt
  <1>2. /\ \/ more < BuyCost(1, ticks)
           \/ TradeValue(many, ticks) < MinTradeValue
           \/ TradeValue(Delta(Slot(k)), ticks) < MinTradeValue
        /\ UnpaidAt(k, less) <=>
           \/ less < BuyCost(1, ticks)
           \/ TradeValue(few, ticks) < MinTradeValue
           \/ TradeValue(Delta(Slot(k)), ticks) < MinTradeValue
    BY DEF UnpaidAt
  <1> HIDE DEF ticks
  <1>3. few \in Nat /\ many \in Nat
    BY <1>1, SharesOf
  <1>4. few <= many
    <2>1. /\ few = IF less = 0 THEN 0 ELSE less \div each
          /\ many = IF more = 0 THEN 0 ELSE more \div each
      BY <1>1 DEF MaxSharesForCash
    <2>2. each \in Nat \ {0}
      BY <1>1, ShareCost
    <2> HIDE DEF few, many, each
    <2> QED
      BY <1>3, <2>1, <2>2, DivisionGrows
  <1> HIDE DEF few, many
  <1>5. /\ TradeValue(few, ticks) <= TradeValue(many, ticks)
        /\ TradeValue(few, ticks) \in Nat /\ TradeValue(many, ticks) \in Nat
    BY <1>1, <1>3, <1>4, ShareCost, ProductGrows
  <1>6. BuyCost(1, ticks) \in Nat
    BY <1>1, ShareCost
  <1> QED
    BY <1>2, <1>5, <1>6, ExecutionNumbers

LEMMA GrantedOf ==
    ASSUME CallInv, projected \in Nat, NEW k \in BookedKeys,
           delta[k] = Delta(Slot(k)), Delta(Slot(k)) \in Nat \ {0}
    PROVE  LET cost == BuyCost(Granted(k), BuyTicks(Slot(k))) IN
           /\ Granted(k) \in 0 .. Delta(Slot(k))
           /\ cost \in Nat /\ cost <= projected
           /\ Granted(k) = 0 => UnpaidAt(k, projected)
  <1> DEFINE ticks == BuyTicks(Slot(k))
             most == MaxSharesForCash(projected, ticks)
             quantity == Least(delta[k], most)
  <1>1. ticks \in Nat \ {0}
    BY SizedAt
  <1>2. Granted(k) = IF TradeValue(quantity, ticks) < MinTradeValue THEN 0 ELSE quantity
    BY DEF Granted, BuyTicks
  <1>3. UnpaidAt(k, projected) <=>
           \/ projected < BuyCost(1, ticks)
           \/ TradeValue(most, ticks) < MinTradeValue
           \/ TradeValue(Delta(Slot(k)), ticks) < MinTradeValue
    BY DEF UnpaidAt
  <1> HIDE DEF ticks
  <1>4. most \in Nat /\ BuyCost(most, ticks) <= projected
        /\ (most = 0 => projected < BuyCost(1, ticks))
    BY <1>1, SharesOf
  <1> HIDE DEF most
  <1>5. /\ quantity \in Nat /\ quantity <= Delta(Slot(k)) /\ quantity <= most
        /\ quantity = Delta(Slot(k)) \/ quantity = most
    BY <1>4 DEF Least
  <1> HIDE DEF quantity
  <1>6. Granted(k) \in Nat /\ Granted(k) <= Delta(Slot(k)) /\ Granted(k) <= most
    BY <1>2, <1>4, <1>5
  <1>7. /\ BuyCost(Granted(k), ticks) \in Nat /\ BuyCost(most, ticks) \in Nat
        /\ BuyCost(Granted(k), ticks) <= BuyCost(most, ticks)
    BY <1>1, <1>4, <1>6, ShareCost, ProductGrows
  <1>8. Granted(k) = 0 => UnpaidAt(k, projected)
    BY <1>2, <1>3, <1>4, <1>5
  <1> QED
    BY <1>4, <1>6, <1>7, <1>8 DEF ticks

------------------------------------------------------------------------------
(* The loops.                                                               *)

\* An order is one of a booked key, on the side of its delta and at most as large.
Placed ==
    {order \in [id : {session} \X {"ORDER"} \X Nat, key : BookedKeys,
                symbol : {Slot(k).symbol : k \in BookedKeys}, side : Sides, quantity : Nat \ {0}] :
        /\ order.symbol = Slot(order.key).symbol
        /\ IF order.side = "BUY" THEN order.quantity <= Delta(Slot(order.key))
                                 ELSE order.quantity = -Delta(Slot(order.key))}

Queued(k) == \E i \in DOMAIN queue : queue[i].key = k

QueueInv ==
    /\ CallInv
    /\ queue \in Seq(Placed)
    /\ stage = "grant" => /\ DOMAIN delta \subseteq BookedKeys
                          /\ \A k \in DOMAIN delta : delta[k] = Delta(Slot(k))
    /\ stage # "order" => projected \in Nat

DroppedInv ==
    /\ stage = "grant" =>
           \A k \in BookedKeys \ DOMAIN delta :
               Queued(k) \/ (TooMany = {} /\ Delta(Slot(k)) # 0 /\ UnpaidAt(k, projected))
    /\ stage = "submit" =>
           \A k \in BookedKeys :
               Queued(k) \/ Delta(Slot(k)) = 0 \/ UnpaidAt(k, projected)

LEMMA ArgumentsStay ==
    ASSUME UNCHANGED arguments
    PROVE  /\ BookedKeys' = BookedKeys /\ (CallInv => CallInv') /\ Placed' = Placed
           /\ \A k : Slot(k)' = Slot(k) /\ Delta(Slot(k))' = Delta(Slot(k))
           /\ \A k, money : UnpaidAt(k, money)' <=> UnpaidAt(k, money)
  <1>1. /\ cash' = cash /\ positions' = positions /\ target' = target /\ opens' = opens
        /\ session' = session
    BY DEF arguments
  <1>2. BookedKeys' = BookedKeys /\ (CallInv => CallInv')
    BY <1>1 DEF BookedKeys, CallInv, Called
  <1>3. \A k : Slot(k)' = Slot(k) /\ Delta(Slot(k))' = Delta(Slot(k))
    BY <1>1 DEF Slot, Delta, LeftAlone, Aim, Parts
  <1>4. \A k, money : UnpaidAt(k, money)' <=> UnpaidAt(k, money)
    BY <1>1, <1>3 DEF UnpaidAt, BuyTicks
  <1>5. Placed' = Placed
    BY <1>1, <1>2, <1>3 DEF Placed
  <1> QED
    BY <1>2, <1>3, <1>4, <1>5

LEMMA DeltaIsInt == ASSUME CallInv, NEW k \in BookedKeys PROVE Delta(Slot(k)) \in Int
  <1>1. CASE Delta(Slot(k)) = 0
    BY <1>1
  <1>2. CASE Delta(Slot(k)) # 0
    <2>1. Slot(k).quantity + Delta(Slot(k)) \in Nat /\ Slot(k).quantity \in Nat
      BY <1>2, SizedWorth, SlotOf
    <2>2. \E t \in Nat \ {0} :
              /\ Parts(Slot(k)) * t * RateDivisor \in Nat \ {0}
              /\ Delta(Slot(k)) = Aim(Slot(k)) \div (Parts(Slot(k)) * t * RateDivisor)
                                  - Slot(k).quantity
      BY <1>2, SizedAt
    <2>3. Aim(Slot(k)) \in Nat
      BY SlotOf
    <2> QED
      BY <2>1, <2>2, <2>3, Division
  <1> QED
    BY <1>1, <1>2

LEMMA Appended ==
    ASSUME NEW S, NEW q \in Seq(S), NEW o \in S
    PROVE  /\ Append(q, o) \in Seq(S)
           /\ \A i \in DOMAIN q : i \in DOMAIN Append(q, o) /\ Append(q, o)[i] = q[i]
           /\ \E i \in DOMAIN Append(q, o) : Append(q, o)[i] = o
  <1>1. Len(q) + 1 \in DOMAIN Append(q, o) /\ Append(q, o)[Len(q) + 1] = o
    OBVIOUS
  <1> QED
    BY <1>1

\* What one turn does: a key leaves the deltas, and is queued if there is something to trade.
LEMMA ListedOf ==
    ASSUME QueueInv, stage = "grant", NEW k \in DOMAIN delta, NEW side \in Sides,
           NEW quantity \in Nat, Listed(k, side, quantity), UNCHANGED arguments,
           quantity > 0 => IF side = "BUY" THEN quantity <= Delta(Slot(k))
                                           ELSE quantity = -Delta(Slot(k))
    PROVE  /\ queue' \in Seq(Placed)
           /\ DOMAIN delta' = DOMAIN delta \ {k}
           /\ \A j \in DOMAIN delta' : delta'[j] = delta[j]
           /\ \A j : Queued(j) => Queued(j)'
           /\ quantity > 0 => /\ Queued(k)' /\ MarketOrder(k, side, quantity) \in Placed
                              /\ queue' = Append(queue, MarketOrder(k, side, quantity))
           /\ quantity = 0 => queue' = queue
  <1> DEFINE order == MarketOrder(k, side, quantity)
  <1>1. /\ delta' = [j \in DOMAIN delta \ {k} |-> delta[j]]
        /\ queue' = IF quantity > 0 THEN Append(queue, order) ELSE queue
    BY DEF Listed
  <1>2. queue \in Seq(Placed) /\ k \in BookedKeys
    BY DEF QueueInv
  <1>3. order.key = k
    BY DEF MarketOrder
  <1>4. ASSUME quantity > 0
        PROVE  order \in Placed
    <2>1. <<session, "ORDER", Len(queue) + 1>> \in {session} \X {"ORDER"} \X Nat
      BY <1>2
    <2>2. Slot(k).symbol \in {Slot(j).symbol : j \in BookedKeys}
      BY <1>2
    <2> QED
      BY <1>2, <1>4, <2>1, <2>2 DEF Placed, MarketOrder
  <1> HIDE DEF order
  <1>5. CASE quantity > 0
    <2>1. queue' = Append(queue, order) /\ order \in Placed
      BY <1>1, <1>4, <1>5
    <2> QED
      BY <1>1, <1>2, <1>3, <1>5, <2>1, Appended DEF Queued, order
  <1>6. CASE ~ (quantity > 0)
    BY <1>1, <1>2, <1>6 DEF Queued
  <1> QED
    BY <1>5, <1>6

LEMMA NextOf ==
    ASSUME QueueInv, stage = "grant"
    PROVE  /\ TooMany \subseteq DOMAIN delta /\ TooFew \subseteq DOMAIN delta
           /\ TooMany \subseteq BookedKeys /\ TooFew \subseteq BookedKeys
           /\ TooMany # {} => Min(TooMany) \in TooMany
           /\ TooFew # {} => Min(TooFew) \in TooFew
  <1>1. TooMany \subseteq BookedKeys /\ TooFew \subseteq BookedKeys /\ \A k \in BookedKeys : k \in Nat
    BY SlotOf DEF QueueInv, TooMany, TooFew
  <1>2. TooMany \in SUBSET Nat /\ TooFew \in SUBSET Nat
    BY <1>1
  <1> QED
    BY <1>1, <1>2, LeastExists DEF TooMany, TooFew

\* The cash that the fills of the list leave, one after the other.
Moneys == [i \in DOMAIN queue |-> Money(queue[i])]

MoneyInv ==
    stage # "order" =>
        /\ projected = cash + Total(Moneys, 1 .. Len(queue))
        /\ \A i \in 0 .. Len(queue) : cash + Total(Moneys, 1 .. i) >= 0

LEMMA MoneyIsInt ==
    ASSUME CallInv, NEW order \in Placed
    PROVE  Money(order) \in Int
  <1> DEFINE k == order.key
  <1>1. /\ k \in BookedKeys /\ order.symbol = Slot(k).symbol /\ order.quantity \in Nat \ {0}
        /\ IF order.side = "BUY" THEN order.quantity <= Delta(Slot(k))
                                 ELSE order.quantity = -Delta(Slot(k))
    BY DEF Placed
  <1> HIDE DEF k
  <1>2. Delta(Slot(k)) # 0
    BY <1>1, DeltaIsInt
  <1>3. SellTicks(Slot(k)) \in Nat /\ BuyTicks(Slot(k)) \in Nat
    BY <1>1, <1>2, SizedAt
  <1>4. /\ order.quantity * SellTicks(Slot(k)) * (RateDivisor - CommissionRate) \in Int
        /\ order.quantity * BuyTicks(Slot(k)) * (RateDivisor + CommissionRate) \in Int
    BY <1>1, <1>3, ExecutionNumbers, ProductGrows
  <1>5. Money(order) = IF order.side = "BUY" THEN -BuyCost(order.quantity, BuyTicks(Slot(k)))
                       ELSE SellProceeds(order.quantity, ApplySlippage(order.side, opens[order.symbol]))
    BY <1>1 DEF Money, BuyTicks
  <1>6. order.side # "BUY" => ApplySlippage(order.side, opens[order.symbol]) = SellTicks(Slot(k))
    BY <1>1 DEF ApplySlippage, SellTicks
  <1> QED
    BY <1>4, <1>5, <1>6 DEF BuyCost, SellProceeds

LEMMA MoneysOf ==
    ASSUME CallInv, queue \in Seq(Placed)
    PROVE  /\ Len(queue) \in Nat /\ DOMAIN queue = 1 .. Len(queue)
           /\ \A i \in 1 .. Len(queue) : Moneys[i] = Money(queue[i]) /\ Moneys[i] \in Int
           /\ \A i \in 0 .. Len(queue) : /\ IsFiniteSet(1 .. i) /\ 1 .. i \subseteq 1 .. Len(queue)
                                         /\ Total(Moneys, 1 .. i) \in Int
  <1>1. Len(queue) \in Nat /\ DOMAIN queue = 1 .. Len(queue) /\ \A i \in 1 .. Len(queue) : queue[i] \in Placed
    OBVIOUS
  <1>2. \A i \in 1 .. Len(queue) : Moneys[i] = Money(queue[i]) /\ Moneys[i] \in Int
    BY <1>1, MoneyIsInt DEF Moneys
  <1>3. ASSUME NEW i \in 0 .. Len(queue)
        PROVE  IsFiniteSet(1 .. i) /\ 1 .. i \subseteq 1 .. Len(queue) /\ Total(Moneys, 1 .. i) \in Int
    <2>1. i \in Nat /\ 1 .. i \subseteq 1 .. Len(queue)
      BY <1>1
    <2>2. IsFiniteSet(1 .. i)
      BY <2>1, Initial
    <2>3. \A j \in 1 .. i : Moneys[j] \in Int
      BY <1>2, <2>1
    <2> QED
      BY <2>1, <2>2, <2>3, TotalIsInt
  <1> QED
    BY <1>1, <1>2, <1>3

LEMMA CashAfterIs ==
    ASSUME CallInv, queue \in Seq(Placed), NEW i \in 0 .. Len(queue)
    PROVE  CashAfter(i) = cash + Total(Moneys, 1 .. i)
  <1> DEFINE S == 1 .. i
             it == CHOOSE it : it = [s \in SUBSET S |->
                        IF s = {} THEN 0 ELSE Money(queue[Pick(s)]) + it[s \ {Pick(s)}]]
  <1>1. IsFiniteSet(S) /\ S \subseteq 1 .. Len(queue) /\ \A j \in S : Moneys[j] \in Int
    BY MoneysOf
  <1>2. \A j \in S : Moneys[j] = Money(queue[j])
    BY <1>1, MoneysOf
  <1>3. CashAfter(i) = cash + it[S]
    BY DEF CashAfter, MapThenSumSet, MapThenFoldSet, Pick
  <1>4. Adds(it, Moneys, S)
    <2> HIDE DEF S
    <2>1. \A s \in SUBSET S : s # {} => Pick(s) \in S
      BY DEF Pick
    <2>2. \A jt : Adds(jt, Moneys, S) <=> jt = [s \in SUBSET S |->
                        IF s = {} THEN 0 ELSE Money(queue[Pick(s)]) + jt[s \ {Pick(s)}]]
      BY <1>2, <2>1 DEF Adds
    <2>3. \E jt : Adds(jt, Moneys, S)
      BY <1>1, AddsExists
    <2> QED
      BY <2>2, <2>3
  <1> HIDE DEF it, S
  <1>5. Total(Moneys, S) = it[S]
    BY <1>1, <1>4, TotalIsOwn
  <1> QED
    BY <1>3, <1>5 DEF S

\* A turn adds the money of the order it lists, if it lists one, to the projection.
LEMMA TurnKeepsMoney ==
    ASSUME QueueInv, MoneyInv, stage = "grant", stage' = "grant", UNCHANGED arguments,
           QueueInv', NEW money \in Int, projected' = projected + money,
           \/ queue' = queue /\ money = 0
           \/ \E order \in Placed : queue' = Append(queue, order) /\ Money(order) = money
    PROVE  MoneyInv'
  <1>1. CallInv /\ queue \in Seq(Placed) /\ CallInv' /\ (queue \in Seq(Placed))'
    BY DEF QueueInv
  <1>2. cash' = cash /\ opens' = opens
    BY DEF arguments
  <1>3. \A order : Money(order)' = Money(order)
    BY <1>2 DEF Money
  <1>4. /\ projected = cash + Total(Moneys, 1 .. Len(queue))
        /\ \A i \in 0 .. Len(queue) : cash + Total(Moneys, 1 .. i) >= 0
    BY DEF MoneyInv
  <1>5. CASE queue' = queue /\ money = 0
    <2>1. Moneys' = Moneys
      BY <1>3, <1>5 DEF Moneys
    <2>2. projected' = projected
      BY <1>5 DEF QueueInv
    <2> QED
      BY <1>2, <1>4, <1>5, <2>1, <2>2 DEF MoneyInv
  <1>6. CASE \E order \in Placed : queue' = Append(queue, order) /\ Money(order) = money
    <2>1. PICK order \in Placed : queue' = Append(queue, order) /\ Money(order) = money
      BY <1>6
    <2> DEFINE n == Len(queue)
               before == Moneys
               after == Moneys'
    <2>2. /\ n \in Nat /\ \A i \in 1 .. n : before[i] = Money(queue[i]) /\ before[i] \in Int
          /\ \A i \in 0 .. n : IsFiniteSet(1 .. i) /\ 1 .. i \subseteq 1 .. n
                               /\ Total(before, 1 .. i) \in Int
      BY <1>1, MoneysOf
    <2>3. /\ Len(queue') = n + 1 /\ DOMAIN queue' = 1 .. (n + 1) /\ queue'[n + 1] = order
          /\ \A i \in 1 .. n : queue'[i] = queue[i]
      BY <1>1, <2>1
    <2>4. /\ \A i \in 1 .. n : after[i] = before[i]
          /\ after[n + 1] = money
      BY <1>3, <2>1, <2>2, <2>3 DEF Moneys
    <2> HIDE DEF before, after, n
    <2>5. \A i \in 0 .. n : Total(after, 1 .. i) = Total(before, 1 .. i)
      <3> SUFFICES ASSUME NEW i \in 0 .. n PROVE Total(after, 1 .. i) = Total(before, 1 .. i)
        OBVIOUS
      <3>1. IsFiniteSet(1 .. i) /\ \A j \in 1 .. i : before[j] \in Int /\ before[j] = after[j]
        BY <2>2, <2>4
      <3> QED
        BY <3>1, TotalOfSame
    <2>6. Total(after, 1 .. (n + 1)) = Total(after, 1 .. n) + money
      <3>1. \A i \in 1 .. (n + 1) : after[i] \in Int
        BY <2>2, <2>4
      <3> QED
        BY <2>2, <2>4, <3>1, TotalUpto
    <2>7. /\ projected = cash + Total(before, 1 .. n) /\ projected \in Nat
          /\ \A i \in 0 .. n : cash + Total(before, 1 .. i) >= 0
          /\ projected' \in Nat
      BY <1>4 DEF before, n, QueueInv
    <2>8. n \in 0 .. n /\ Total(before, 1 .. n) \in Int /\ cash \in Int
      <3>1. \E call \in Accounts : Called(call)
        BY <1>1 DEF CallInv
      <3> QED
        BY <2>2, <3>1, AccountAssumption DEF Called, AccountAssumption
    <2>9. projected' = cash + Total(after, 1 .. (n + 1))
      BY <2>5, <2>6, <2>7, <2>8
    <2>10. \A i \in 0 .. (n + 1) : cash + Total(after, 1 .. i) >= 0
      <3>1. cash + Total(after, 1 .. (n + 1)) >= 0
        BY <2>7, <2>9
      <3>2. \A i \in 0 .. n : cash + Total(after, 1 .. i) >= 0
        BY <2>5, <2>7
      <3>3. \A i \in 0 .. (n + 1) : i \in 0 .. n \/ i = n + 1
        BY <2>2
      <3> QED
        BY <3>1, <3>2, <3>3
    <2>11. (/\ projected = cash + Total(Moneys, 1 .. Len(queue))
            /\ \A i \in 0 .. Len(queue) : cash + Total(Moneys, 1 .. i) >= 0)'
      BY <1>2, <2>3, <2>9, <2>10 DEF after
    <2> QED
      BY <2>11 DEF MoneyInv
  <1> QED
    BY <1>5, <1>6

LEMMA MoneyStays ==
    ASSUME MoneyInv, stage' # "order" => stage # "order", UNCHANGED <<arguments, projected, queue>>
    PROVE  MoneyInv'
  <1>1. cash' = cash /\ opens' = opens /\ projected' = projected /\ queue' = queue
    BY DEF arguments
  <1>2. Moneys' = Moneys
    BY <1>1 DEF Moneys, Money
  <1> QED
    BY <1>1, <1>2 DEF MoneyInv

LEMMA SaleKeeps ==
    ASSUME QueueInv, DroppedInv, MoneyInv, TakeSale
    PROVE  QueueInv' /\ DroppedInv' /\ MoneyInv'
  <1>1. PICK k \in TooMany :
            /\ stage = "grant" /\ stage' = "grant" /\ TooMany # {} /\ UNCHANGED arguments
            /\ Listed(k, "SELL", SaleSize(k))
            /\ projected' = projected + SellProceeds(SaleSize(k), SellTicks(Slot(k)))
    BY NextOf DEF TakeSale, SellTicks
  <1>2. k \in DOMAIN delta /\ k \in BookedKeys /\ delta[k] < 0 /\ delta[k] = Delta(Slot(k))
    BY <1>1, NextOf DEF TooMany, QueueInv
  <1> DEFINE ticks == SellTicks(Slot(k))
  <1>3. SaleSize(k) = -Delta(Slot(k)) /\ SaleSize(k) \in Nat \ {0}
    <2>1. Delta(Slot(k)) \in Int /\ Delta(Slot(k)) < 0
      BY <1>2, DeltaIsInt DEF QueueInv
    <2>2. Slot(k).quantity + Delta(Slot(k)) \in Nat /\ Slot(k).quantity \in Nat
      BY <1>2, <2>1, SizedWorth, SlotOf DEF QueueInv
    <2> QED
      BY <1>2, <2>1, <2>2 DEF SaleSize, Least
  <1>4. /\ ticks \in Nat /\ projected \in Nat
        /\ projected' = projected + SellProceeds(SaleSize(k), ticks)
    <2>1. Delta(Slot(k)) # 0
      BY <1>2, <1>3, DeltaIsInt DEF QueueInv
    <2> QED
      BY <1>1, <1>2, <2>1, SizedAt DEF QueueInv
  <1> HIDE DEF ticks
  <1>5. projected' \in Nat
    <2>1. SaleSize(k) * ticks * (RateDivisor - CommissionRate) \in Nat
      BY <1>3, <1>4, ExecutionNumbers, ProductGrows
    <2> QED
      BY <1>4, <2>1 DEF SellProceeds
  <1>6. /\ queue' \in Seq(Placed) /\ DOMAIN delta' = DOMAIN delta \ {k}
        /\ \A j \in DOMAIN delta' : delta'[j] = delta[j]
        /\ \A j : Queued(j) => Queued(j)'
        /\ Queued(k)'
        /\ MarketOrder(k, "SELL", SaleSize(k)) \in Placed
        /\ queue' = Append(queue, MarketOrder(k, "SELL", SaleSize(k)))
    <2>1. "SELL" \in Sides /\ "SELL" # "BUY"
      BY DEF Sides
    <2>2. SaleSize(k) \in Nat /\ SaleSize(k) > 0
      BY <1>3
    <2>3. IF "SELL" = "BUY" THEN SaleSize(k) <= Delta(Slot(k))
                            ELSE SaleSize(k) = -Delta(Slot(k))
      BY <1>3, <2>1
    <2> QED
      BY <1>1, <1>2, <2>1, <2>2, <2>3, ListedOf
  <1>7. QueueInv'
    BY <1>1, <1>5, <1>6, ArgumentsStay DEF QueueInv
  <1>8. \A j \in BookedKeys \ DOMAIN delta' : Queued(j)'
    BY <1>1, <1>6 DEF DroppedInv
  <1>9. DroppedInv'
    BY <1>1, <1>8, ArgumentsStay DEF DroppedInv
  <1>10. MoneyInv'
    <2> DEFINE money == SellProceeds(SaleSize(k), ticks)
               order == MarketOrder(k, "SELL", SaleSize(k))
    <2>1. SaleSize(k) * ticks * (RateDivisor - CommissionRate) \in Nat
      BY <1>3, <1>4, ExecutionNumbers, ProductGrows
    <2>2. money \in Int
      BY <2>1 DEF SellProceeds
    <2>3. order.side = "SELL" /\ order.symbol = Slot(k).symbol /\ order.quantity = SaleSize(k)
      BY DEF MarketOrder
    <2>4. Money(order) = money
      BY <2>3 DEF Money, ticks, SellTicks
    <2>5. projected' = projected + money /\ order \in Placed /\ queue' = Append(queue, order)
      BY <1>4, <1>6
    <2> HIDE DEF money, order
    <2> QED
      BY <1>1, <1>7, <2>2, <2>4, <2>5, TurnKeepsMoney
  <1> QED
    BY <1>7, <1>9, <1>10

LEMMA BuyKeeps ==
    ASSUME QueueInv, DroppedInv, MoneyInv, GrantBuy
    PROVE  QueueInv' /\ DroppedInv' /\ MoneyInv'
  <1>1. PICK k \in TooFew :
            /\ stage = "grant" /\ stage' = "grant" /\ TooMany = {} /\ TooFew # {}
            /\ UNCHANGED arguments /\ Listed(k, "BUY", Granted(k))
            /\ projected' = projected - BuyCost(Granted(k), BuyTicks(Slot(k)))
    BY NextOf DEF GrantBuy, BuyTicks
  <1>2. k \in DOMAIN delta /\ k \in BookedKeys /\ delta[k] > 0 /\ delta[k] = Delta(Slot(k))
    BY <1>1, NextOf DEF TooFew, QueueInv
  <1> DEFINE cost == BuyCost(Granted(k), BuyTicks(Slot(k)))
  <1>3. Delta(Slot(k)) \in Nat \ {0} /\ projected \in Nat
    BY <1>1, <1>2, DeltaIsInt DEF QueueInv
  <1>4. /\ Granted(k) \in Nat /\ Granted(k) <= Delta(Slot(k))
        /\ cost \in Nat /\ cost <= projected
        /\ Granted(k) = 0 => UnpaidAt(k, projected)
    BY <1>2, <1>3, GrantedOf DEF QueueInv
  <1>5. projected' \in Nat /\ projected' <= projected
    <2>1. projected' = projected - cost
      BY <1>1
    <2> HIDE DEF cost
    <2> QED
      BY <1>3, <1>4, <2>1
  <1>6. /\ queue' \in Seq(Placed) /\ DOMAIN delta' = DOMAIN delta \ {k}
        /\ \A j \in DOMAIN delta' : delta'[j] = delta[j]
        /\ \A j : Queued(j) => Queued(j)'
        /\ Granted(k) > 0 => /\ Queued(k)' /\ MarketOrder(k, "BUY", Granted(k)) \in Placed
                             /\ queue' = Append(queue, MarketOrder(k, "BUY", Granted(k)))
        /\ Granted(k) = 0 => queue' = queue
    <2>1. "BUY" \in Sides
      BY DEF Sides
    <2> QED
      BY <1>1, <1>2, <1>4, <2>1, ListedOf
  <1>7. QueueInv'
    BY <1>1, <1>5, <1>6, ArgumentsStay DEF QueueInv
  <1>8. TooMany' = {}
    BY <1>1, <1>6 DEF TooMany
  <1>9. ASSUME NEW j \in BookedKeys \ DOMAIN delta'
        PROVE  Queued(j)' \/ (Delta(Slot(j)) # 0 /\ UnpaidAt(j, projected'))
    <2>1. ASSUME Delta(Slot(j)) # 0, UnpaidAt(j, projected)
          PROVE  UnpaidAt(j, projected')
      BY <1>3, <1>5, <2>1, LessMoneyBuysLess DEF QueueInv
    <2>2. CASE j = k
      BY <1>3, <1>4, <1>6, <2>1, <2>2
    <2>3. CASE j # k
      BY <1>1, <1>6, <2>1, <2>3 DEF DroppedInv
    <2> QED
      BY <2>2, <2>3
  <1>10. BookedKeys' = BookedKeys /\ \A j : Delta(Slot(j))' = Delta(Slot(j))
    BY <1>1, ArgumentsStay
  <1>11. \A j : UnpaidAt(j, projected') => UnpaidAt(j, projected)'
    BY <1>1, ArgumentsStay
  <1>12. DroppedInv'
    BY <1>1, <1>8, <1>9, <1>10, <1>11 DEF DroppedInv
  <1>13. MoneyInv'
    <2> DEFINE money == -cost
               order == MarketOrder(k, "BUY", Granted(k))
    <2>1. order.side = "BUY" /\ order.symbol = Slot(k).symbol /\ order.quantity = Granted(k)
      BY DEF MarketOrder
    <2>2. Money(order) = money
      BY <2>1 DEF Money, BuyTicks
    <2>3. Granted(k) = 0 => cost = 0
      <3>1. Delta(Slot(k)) # 0
        BY <1>3
      <3>2. BuyTicks(Slot(k)) \in Nat
        BY <1>2, <3>1, SizedAt DEF QueueInv
      <3> QED
        BY <3>2, ExecutionNumbers DEF BuyCost
    <2>4. projected' = projected - cost
      BY <1>1
    <2>5. \/ Granted(k) = 0 /\ queue' = queue
          \/ order \in Placed /\ queue' = Append(queue, order)
      BY <1>4, <1>6
    <2> HIDE DEF cost, order
    <2>6. money \in Int /\ projected' = projected + money
      BY <1>3, <1>4, <2>4
    <2>7. Granted(k) = 0 => money = 0
      <3> HIDE DEF money
      <3> QED
        BY <1>3, <1>4, <2>3, <2>4, <2>6
    <2> HIDE DEF money
    <2> QED
      BY <1>1, <1>7, <2>2, <2>5, <2>6, <2>7, TurnKeepsMoney
  <1> QED
    BY <1>7, <1>12, <1>13

LEMMA OrderStep ==
    ASSUME QueueInv, DroppedInv, MoneyInv, [Next]_vars
    PROVE  QueueInv' /\ DroppedInv' /\ MoneyInv'
  <1>1. CASE Size
    <2>1. /\ stage' = "grant" /\ UNCHANGED arguments /\ queue' = << >> /\ projected' = cash
          /\ delta' = [k \in BookedKeys |-> Delta(Slot(k))]
      BY <1>1 DEF Size
    <2>2. cash \in Nat
      BY AccountAssumption DEF QueueInv, CallInv, Called, AccountAssumption
    <2>3. QueueInv'
      BY <2>1, <2>2, ArgumentsStay DEF QueueInv
    <2>4. DroppedInv'
      BY <2>1, <2>3, ArgumentsStay DEF DroppedInv
    <2>5. MoneyInv'
      <3>1. Len(queue') = 0 /\ cash' = cash
        BY <2>1 DEF arguments
      <3> DEFINE after == Moneys'
      <3>2. Total(after, 1 .. 0) = 0
        BY Initial, TotalOfNone
      <3>3. \A i \in 0 .. 0 : i = 0
        OBVIOUS
      <3> HIDE DEF after
      <3>4. /\ projected' = cash + Total(after, 1 .. 0)
            /\ \A i \in 0 .. 0 : cash + Total(after, 1 .. i) >= 0
        BY <2>1, <2>2, <3>2, <3>3
      <3>5. (/\ projected = cash + Total(Moneys, 1 .. Len(queue))
             /\ \A i \in 0 .. Len(queue) : cash + Total(Moneys, 1 .. i) >= 0)'
        BY <3>1, <3>4 DEF after
      <3> QED
        BY <3>5 DEF MoneyInv
    <2> QED
      BY <2>3, <2>4, <2>5
  <1>2. CASE TakeSale
    BY <1>2, SaleKeeps
  <1>3. CASE GrantBuy
    BY <1>3, BuyKeeps
  <1>4. CASE Return
    <2>1. /\ stage = "grant" /\ stage' = "submit" /\ UNCHANGED <<arguments, projected, queue>>
          /\ TooMany = {} /\ TooFew = {}
      BY <1>4 DEF Return
    <2>2. QueueInv'
      BY <2>1, ArgumentsStay DEF QueueInv
    <2>3. ASSUME NEW k \in DOMAIN delta
          PROVE  Delta(Slot(k)) = 0
      <3>1. delta[k] = Delta(Slot(k)) /\ Delta(Slot(k)) \in Int
        BY <2>1, DeltaIsInt DEF QueueInv
      <3> QED
        BY <2>1, <3>1 DEF TooMany, TooFew
    <2>4. \A k : Queued(k)' <=> Queued(k)
      BY <2>1 DEF Queued
    <2>5. \A k : UnpaidAt(k, projected) => UnpaidAt(k, projected)'
      BY <2>1, ArgumentsStay
    <2>6. DroppedInv'
      BY <2>1, <2>2, <2>3, <2>4, <2>5, ArgumentsStay DEF DroppedInv
    <2> QED
      BY <2>1, <2>2, <2>6, MoneyStays
  <1>5. CASE UNCHANGED vars
    <2>1. UNCHANGED <<arguments, stage, delta, projected, queue>>
      BY <1>5 DEF vars
    <2>2. QueueInv' /\ TooMany' = TooMany /\ \A k : Queued(k)' <=> Queued(k)
      BY <2>1, ArgumentsStay DEF QueueInv, TooMany, Queued
    <2>3. \A k : UnpaidAt(k, projected) => UnpaidAt(k, projected)'
      BY <2>1, ArgumentsStay
    <2>4. DroppedInv'
      BY <2>1, <2>2, <2>3, ArgumentsStay DEF DroppedInv
    <2> QED
      BY <2>1, <2>2, <2>4, MoneyStays
  <1> QED
    BY <1>1, <1>2, <1>3, <1>4, <1>5 DEF Next

LEMMA OrdersHold == Spec => [](QueueInv /\ DroppedInv /\ MoneyInv)
  <1>1. Init => QueueInv /\ DroppedInv /\ MoneyInv
    BY DEF Init, QueueInv, DroppedInv, MoneyInv, CallInv, Called
  <1> QED
    BY <1>1, OrderStep, PTL DEF Spec

\* Every listed order stays an order that the account's arguments allow.
LEMMA PlacedOf ==
    ASSUME QueueInv, NEW i \in DOMAIN queue
    PROVE  LET order == queue[i] IN
           /\ order.key \in BookedKeys /\ order.side \in Sides
           /\ order.quantity \in Nat \ {0} /\ Delta(Slot(order.key)) \in Int
           /\ IF order.side = "BUY" THEN order.quantity <= Delta(Slot(order.key))
                                    ELSE order.quantity = -Delta(Slot(order.key))
  <1>1. queue[i] \in Placed
    BY DEF QueueInv
  <1>2. queue[i].key \in BookedKeys
    BY <1>1 DEF Placed
  <1> QED
    BY <1>1, <1>2, DeltaIsInt DEF Placed, QueueInv

------------------------------------------------------------------------------
(* Theorems.                                                                *)

\* What the service projects is what the fills of its list leave, and none of them,
\* filled in order at the slipped opens, overdraws the account: the sum that
\* create_orders_from_targets keeps as projected_cash is the sum of the whole list.
THEOREM ListIsAffordable == Spec => []ListAffordable
  <1>1. QueueInv /\ MoneyInv => ListAffordable
    <2> SUFFICES ASSUME QueueInv, MoneyInv, stage # "order"
                 PROVE  /\ projected = CashAfter(Len(queue))
                        /\ \A i \in 0 .. Len(queue) : CashAfter(i) >= 0
      BY DEF ListAffordable
    <2>1. /\ projected = cash + Total(Moneys, 1 .. Len(queue))
          /\ \A i \in 0 .. Len(queue) : cash + Total(Moneys, 1 .. i) >= 0
      BY DEF MoneyInv
    <2>2. CallInv /\ queue \in Seq(Placed)
      BY DEF QueueInv
    <2>3. Len(queue) \in 0 .. Len(queue)
      BY <2>2
    <2>4. \A i \in 0 .. Len(queue) : CashAfter(i) = cash + Total(Moneys, 1 .. i)
      BY <2>2, CashAfterIs
    <2> QED
      BY <2>1, <2>3, <2>4
  <1> QED
    BY <1>1, OrdersHold, PTL

\* No buy leaves a key over its target at the sale price, and no sale cuts a key
\* more than a share too deep: what create_orders_from_targets lists is within target.
THEOREM OrdersWithinTarget == Spec => []WithinTarget
  <1>1. QueueInv => WithinTarget
    <2> SUFFICES ASSUME QueueInv, NEW i \in DOMAIN queue
                 PROVE  LET slot == Slot(queue[i].key) IN
                        IF queue[i].side = "BUY"
                        THEN Worth(slot, slot.quantity + queue[i].quantity, "SELL") <= Aim(slot)
                        ELSE /\ Worth(slot, slot.quantity - queue[i].quantity, "SELL") <= Aim(slot)
                             /\ Worth(slot, slot.quantity - queue[i].quantity + 1, "BUY") > Aim(slot)
      BY DEF WithinTarget, Worth
    <2> DEFINE slot == Slot(queue[i].key)
               shares == slot.quantity + Delta(slot)
               quantity == queue[i].quantity
    <2>1. /\ queue[i].key \in BookedKeys /\ quantity \in Nat \ {0} /\ Delta(slot) \in Int
          /\ IF queue[i].side = "BUY" THEN quantity <= Delta(slot) ELSE quantity = -Delta(slot)
      BY PlacedOf
    <2>2. slot.quantity \in Nat
      BY <2>1, SlotOf DEF QueueInv
    <2>3. Delta(slot) # 0
      BY <2>1
    <2>4. /\ shares \in Nat
          /\ \A x \in 0 .. shares : Worth(slot, x, "SELL") <= Aim(slot)
          /\ Worth(slot, shares + 1, "BUY") > Aim(slot)
      BY <2>1, <2>3, SizedWorth DEF QueueInv
    <2>5. /\ queue[i].side = "BUY" => slot.quantity + quantity \in 0 .. shares
          /\ queue[i].side # "BUY" => slot.quantity - quantity = shares
      BY <2>1, <2>2
    <2> HIDE DEF slot, quantity, shares
    <2>6. queue[i].side = "BUY" => Worth(slot, slot.quantity + quantity, "SELL") <= Aim(slot)
      BY <2>4, <2>5
    <2>7. queue[i].side # "BUY" => /\ Worth(slot, slot.quantity - quantity, "SELL") <= Aim(slot)
                                  /\ Worth(slot, slot.quantity - quantity + 1, "BUY") > Aim(slot)
      BY <2>4, <2>5
    <2> QED
      BY <2>6, <2>7 DEF slot, quantity
  <1> QED
    BY <1>1, OrdersHold, PTL

\* Where slippage on the holding is worth less than a minimum trade, an order moves
\* its key toward the target, although the target is sized at a slipped price.
THEOREM OrdersTowardTarget == Spec => []TowardTarget
  <1>1. QueueInv => TowardTarget
    <2> SUFFICES ASSUME QueueInv, NEW i \in DOMAIN queue,
                        SlippageBps * Slot(queue[i].key).value <= BpsDivisor * MinTradeValue
                 PROVE  queue[i].side = "BUY" <=> Aim(Slot(queue[i].key)) >
                            Parts(Slot(queue[i].key)) * Slot(queue[i].key).value
      BY DEF TowardTarget
    <2>1. /\ queue[i].key \in BookedKeys /\ queue[i].quantity \in Nat \ {0}
          /\ Delta(Slot(queue[i].key)) \in Int
          /\ IF queue[i].side = "BUY" THEN queue[i].quantity <= Delta(Slot(queue[i].key))
                                     ELSE queue[i].quantity = -Delta(Slot(queue[i].key))
      BY PlacedOf
    <2>2. Delta(Slot(queue[i].key)) # 0 /\ (queue[i].side = "BUY" <=> Delta(Slot(queue[i].key)) > 0)
      BY <2>1
    <2> QED
      BY <2>1, <2>2, SizedSide DEF QueueInv
  <1> QED
    BY <1>1, OrdersHold, PTL

\* When the list is returned, a key without an order has the shares it is sized to, or
\* lacks shares that the cash left cannot pay for at a minimum trade: no gap is forgotten.
THEOREM GapsAreTraded == Spec => []GapsTraded
  <1>1. DroppedInv => GapsTraded
    BY DEF DroppedInv, GapsTraded, Queued, UnpaidAt, BuyTicks
  <1> QED
    BY <1>1, OrdersHold, PTL

\* From the moment the intents are known, the cash the service projects is never below
\* zero: each buy is cut to what the sales before it and the buys before it leave.
NeverOverdrawn == stage # "order" => projected \in Nat
THEOREM ProjectionIsPaid == Spec => []NeverOverdrawn
  <1>1. QueueInv => NeverOverdrawn
    BY DEF QueueInv, NeverOverdrawn
  <1> QED
    BY <1>1, OrdersHold, PTL
=============================================================================
