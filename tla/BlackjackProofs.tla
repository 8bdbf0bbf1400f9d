-------------------------- MODULE BlackjackProofs --------------------------
(***************************************************************************)
(* Theorems about Blackjack, for every set of users and bets, every number *)
(* of seats and every limit of missed deals.                               *)
(***************************************************************************)
EXTENDS Blackjack, TLAPS

\* What links one user's seat, the user's two tasks and the chips taken from
\* the user, in phase p.
SeatInv(p, s, bt, dt, st) ==
  /\ ~s.in => s.bet = 0 /\ s.pend = 0 /\ ~s.dbl
  /\ p = "Betting" => ~s.settled
  /\ p = "Settling" => ~Unresolved(s)
  /\ bt.st # "none" =>
       p = "Betting" /\ s.in /\ s.pend = bt.amt /\ s.bet = 0 /\ bt.amt > 0
  /\ dt.st # "none" =>
       /\ p = "PlayerTurn" /\ s.in /\ s.dbl /\ Unresolved(s) /\ ~s.stood
       /\ s.hand = "two" /\ s.bet = dt.amt
  /\ s.pend > 0 => bt.st # "none"
  /\ s.dbl => dt.st # "none"
  /\ st = (IF Unresolved(s) THEN s.bet ELSE 0)
            + (IF bt.st = "paid" THEN bt.amt ELSE 0)
            + (IF dt.st = "paid" THEN dt.amt ELSE 0)

TableInv == \A u \in User : SeatInv(phase, seat[u], betTask[u], dblTask[u], stake[u])

Inv == TypeOK /\ TableInv

----------------------------------------------------------------------------
(* Types *)

\* The empty seat is a seat.
LEMMA EmptySeatType == EmptySeat \in Seat
  BY BlackjackAssumption DEF EmptySeat, Seat

\* A seat that bets has missed no deal, which the limit admits.
LEMMA NoDealMissed == 0 \in 0 .. (MaxMissedDeals - 1)
  BY BlackjackAssumption

\* Removing the deferred seats leaves seats.
LEMMA RemoveDeferredType ==
  ASSUME NEW s \in [User -> Seat]
  PROVE  RemoveDeferred(s) \in [User -> Seat]
  BY EmptySeatType DEF RemoveDeferred

\* A seat that is settled is a seat.
LEMMA FinishSeatType ==
  ASSUME NEW st \in Seat
  PROVE  FinishSeat(st) \in Seat
  BY DEF FinishSeat, Seat

\* The deal leaves seats.
LEMMA DealtType ==
  ASSUME NEW s \in [User -> Seat]
  PROVE  Dealt(s) \in [User -> Seat]
<1> SUFFICES ASSUME NEW u \in User
             PROVE  Dealt(s)[u] \in Seat
    BY DEF Dealt
<1>1. s[u] \in Seat
    OBVIOUS
<1>2. MissedDeal(s[u]) \in Seat
    BY <1>1, EmptySeatType, BlackjackAssumption DEF MissedDeal, Seat
<1>3. CASE ~s[u].in
    BY <1>1, <1>3 DEF Dealt
<1>4. CASE s[u].in /\ s[u].bet = 0
    BY <1>2, <1>4 DEF Dealt, Seat
<1>5. CASE s[u].in /\ s[u].bet # 0
  <2>1. Dealt(s)[u] = [s[u] EXCEPT !.hand = "two", !.stood = FALSE, !.settled = FALSE,
                                   !.missed = 0]
      BY <1>5 DEF Dealt
  <2> QED
      BY <1>1, <2>1, NoDealMissed DEF Seat
<1> QED
    BY <1>3, <1>4, <1>5

\* The dealer's turn starts well typed.
LEMMA BeginDealerType ==
  ASSUME TypeOK, NEW scheduled \in BOOLEAN, BeginDealerTurn(scheduled)
  PROVE  /\ phase' \in Phases
         /\ act' \in [on : BOOLEAN, id : Nat]
         /\ dealer' \in [id : Nat, sched : BOOLEAN]
         /\ dealerTasks' \subseteq Nat
<1>1. dealer.id \in Nat /\ dealer.id + 1 \in Nat /\ dealerTasks \subseteq Nat
    BY DEF TypeOK
<1>2. dealerTasks' \subseteq Nat
    BY <1>1 DEF BeginDealerTurn
<1>3. dealer' \in [id : Nat, sched : BOOLEAN]
    BY <1>1 DEF BeginDealerTurn
<1>4. act' \in [on : BOOLEAN, id : Nat]
    BY DEF BeginDealerTurn, TypeOK
<1> QED
    BY <1>2, <1>3, <1>4 DEF BeginDealerTurn, Phases

\* The action timer is armed with a fresh id.
LEMMA ArmActionType ==
  ASSUME TypeOK, ArmAction
  PROVE  act' \in [on : BOOLEAN, id : Nat] /\ actTasks' \subseteq Nat
<1>1. act.id + 1 \in Nat /\ actTasks \subseteq Nat
    BY DEF TypeOK
<1> QED
    BY <1>1 DEF ArmAction

\* What advance_or_finish_round may do with the seats s.
LEMMA AdvanceType ==
  ASSUME TypeOK, NEW s \in [User -> Seat], AdvanceOrFinishRound(s)
  PROVE  /\ phase' \in Phases
         /\ seat' \in [User -> Seat]
         /\ act' \in [on : BOOLEAN, id : Nat]
         /\ dealer' \in [id : Nat, sched : BOOLEAN]
         /\ dealerTasks' \subseteq Nat
<1>1. CASE UNCHANGED <<act, dealer, dealerTasks>> /\ phase' = "PlayerTurn" /\ seat' = s
    BY <1>1 DEF TypeOK, Phases
<1>2. CASE seat' = s /\ BeginDealerTurn(TRUE)
    BY <1>2, BeginDealerType
<1>3. CASE /\ phase' = "Settling"
           /\ seat' = RemoveDeferred(s)
           /\ act' = [act EXCEPT !.on = FALSE]
           /\ dealer' = [dealer EXCEPT !.sched = FALSE]
           /\ UNCHANGED dealerTasks
    BY <1>3, RemoveDeferredType DEF TypeOK, Phases
<1> QED
    BY <1>1, <1>2, <1>3 DEF AdvanceOrFinishRound

\* Settling leaves whole stakes.
LEMMA SettlementsType ==
  ASSUME TypeOK, NEW s \in [User -> Seat], NEW t, RecordSettlements(s, t)
  PROVE  stake' \in [User -> Int]
<1> SUFFICES ASSUME NEW u \in User
             PROVE  stake'[u] \in Int
    BY DEF RecordSettlements
<1>1. s[u].bet \in Nat /\ stake[u] \in Int
    BY DEF TypeOK, Seat
<1> QED
    BY <1>1 DEF RecordSettlements

\* A round starts well typed.
LEMMA StartType ==
  ASSUME TypeOK, NEW s \in [User -> Seat], NEW armed \in BOOLEAN, StartRound(s, armed)
  PROVE  /\ phase' \in Phases
         /\ seat' \in [User -> Seat]
         /\ cap' \in [on : BOOLEAN, id : Nat]
         /\ act' \in [on : BOOLEAN, id : Nat]
         /\ dealer' \in [id : Nat, sched : BOOLEAN]
         /\ actTasks' \subseteq Nat /\ dealerTasks' \subseteq Nat
         /\ stake' \in [User -> Int]
         /\ capLost' \in BOOLEAN /\ dblRefused' \in BOOLEAN
<1>1. /\ cap' \in [on : BOOLEAN, id : Nat]
      /\ capLost' \in BOOLEAN /\ dblRefused' \in BOOLEAN
    BY DEF TypeOK, StartRound
<1>2. Dealt(s) \in [User -> Seat]
    BY DealtType
<1>3. CASE seat' = Dealt(s) /\ BeginDealerTurn(armed) /\ UNCHANGED <<stake, actTasks>>
    BY <1>1, <1>2, <1>3, BeginDealerType DEF TypeOK
<1>4. ASSUME NEW N \in SUBSET {u \in User : s[u].bet > 0},
             NEW t, t = [u \in User |-> IF u \in N THEN FinishSeat(Dealt(s)[u]) ELSE Dealt(s)[u]],
             seat' = t,
             RecordSettlements(Dealt(s), t),
             phase' = IF HasPlayable(t) THEN "PlayerTurn" ELSE "Settling",
             IF HasPlayable(t) /\ armed THEN ArmAction
                ELSE act' = [act EXCEPT !.on = FALSE] /\ UNCHANGED actTasks,
             UNCHANGED <<dealer, dealerTasks>>
      PROVE  /\ phase' \in Phases
             /\ seat' \in [User -> Seat]
             /\ act' \in [on : BOOLEAN, id : Nat]
             /\ dealer' \in [id : Nat, sched : BOOLEAN]
             /\ actTasks' \subseteq Nat /\ dealerTasks' \subseteq Nat
             /\ stake' \in [User -> Int]
  <2>1. seat' \in [User -> Seat]
      BY <1>2, <1>4, FinishSeatType
  <2>2. stake' \in [User -> Int]
      BY <1>2, <1>4, SettlementsType
  <2>3. act' \in [on : BOOLEAN, id : Nat] /\ actTasks' \subseteq Nat
      BY <1>4, ArmActionType DEF TypeOK
  <2> QED
      BY <1>4, <2>1, <2>2, <2>3 DEF TypeOK, Phases
<1> QED
    BY <1>1, <1>3, <1>4 DEF StartRound
----------------------------------------------------------------------------
(* A round's moves.  Each lemma reduces a move of the table to a statement  *)
(* about the seats the move starts from.                                   *)

\* A round that goes on, or ends, from seats that are in order in the players'
\* turn leaves the table in order.
LEMMA AdvanceInv ==
  ASSUME NEW s \in [User -> Seat], AdvanceOrFinishRound(s),
         \A u \in User : SeatInv("PlayerTurn", s[u], betTask'[u], dblTask'[u], stake'[u])
  PROVE  TableInv'
<1> SUFFICES ASSUME NEW u \in User
             PROVE  SeatInv(phase', seat'[u], betTask'[u], dblTask'[u], stake'[u])
    BY DEF TableInv
<1>1. SeatInv("PlayerTurn", s[u], betTask'[u], dblTask'[u], stake'[u])
    OBVIOUS
<1>2. CASE HasPlayable(s) /\ phase' = "PlayerTurn" /\ seat' = s
    BY <1>1, <1>2
<1>3. CASE ~HasPlayable(s) /\ seat' = s /\ phase' = "DealerTurn"
  <2>1. dblTask'[u].st = "none"
      BY <1>1, <1>3 DEF SeatInv, HasPlayable
  <2> QED
      BY <1>1, <1>3, <2>1 DEF SeatInv
<1>4. CASE /\ \A v \in User : ~Unresolved(s[v])
           /\ phase' = "Settling" /\ seat' = RemoveDeferred(s)
  <2>1. ~Unresolved(s[u]) /\ betTask'[u].st = "none" /\ dblTask'[u].st = "none"
      BY <1>1, <1>4 DEF SeatInv
  <2>2. CASE seat'[u] = s[u]
      BY <1>1, <1>4, <2>1, <2>2 DEF SeatInv
  <2>3. CASE seat'[u] = EmptySeat
      BY <1>1, <1>4, <2>1, <2>3 DEF SeatInv, EmptySeat, Unresolved
  <2> QED
      BY <1>4, <2>2, <2>3 DEF RemoveDeferred
<1> QED
    BY <1>2, <1>3, <1>4 DEF AdvanceOrFinishRound, BeginDealerTurn

\* The deal keeps every bet and opens every hand.
LEMMA DealtKeepsBets ==
  ASSUME NEW s \in [User -> Seat], NEW u \in User, NEW bt, NEW dt, NEW st,
         SeatInv("Betting", s[u], bt, dt, st), s[u].pend = 0
  PROVE  /\ Dealt(s)[u].bet = s[u].bet /\ Dealt(s)[u].pend = 0
         /\ ~Dealt(s)[u].dbl /\ ~Dealt(s)[u].settled
         /\ ~Dealt(s)[u].in => Dealt(s)[u].bet = 0
         /\ Dealt(s)[u].bet # 0 => ~Dealt(s)[u].stood
<1>1. s[u] \in Seat
    OBVIOUS
<1>2. bt.st = "none" /\ dt.st = "none" /\ ~s[u].dbl /\ ~s[u].settled /\ st = s[u].bet
    BY <1>1 DEF SeatInv, Seat, Unresolved
<1>3. CASE ~s[u].in
    BY <1>1, <1>2, <1>3 DEF Dealt, SeatInv
<1>4. CASE s[u].in /\ s[u].bet = 0
  <2>1. MissedDeal(s[u]) \in Seat
      BY <1>1, EmptySeatType, BlackjackAssumption DEF MissedDeal, Seat
  <2>2. MissedDeal(s[u]).bet = 0 /\ MissedDeal(s[u]).pend = 0 /\ ~MissedDeal(s[u]).dbl
      BY <1>1, <1>2, <1>4 DEF MissedDeal, EmptySeat, Seat
  <2>3. Dealt(s)[u] = [MissedDeal(s[u]) EXCEPT !.hand = "none", !.stood = FALSE,
                                               !.settled = FALSE]
      BY <1>4 DEF Dealt
  <2> QED
      BY <1>2, <1>4, <2>1, <2>2, <2>3 DEF Seat
<1>5. CASE s[u].in /\ s[u].bet # 0
  <2>1. Dealt(s)[u] = [s[u] EXCEPT !.hand = "two", !.stood = FALSE, !.settled = FALSE,
                                   !.missed = 0]
      BY <1>5 DEF Dealt
  <2> QED
      BY <1>1, <1>2, <1>5, <2>1 DEF Seat
<1> QED
    BY <1>3, <1>4, <1>5

\* A round that starts from bets that are in order leaves the table in order.
LEMMA StartInv ==
  ASSUME TypeOK, NEW s \in [User -> Seat], NEW armed, StartRound(s, armed),
         \A u \in User : SeatInv("Betting", s[u], betTask'[u], dblTask'[u], stake[u])
  PROVE  TableInv'
<1> SUFFICES ASSUME NEW u \in User
             PROVE  SeatInv(phase', seat'[u], betTask'[u], dblTask'[u], stake'[u])
    BY DEF TableInv
<1> DEFINE d == Dealt(s)
<1>1. s[u].pend = 0
    BY DEF StartRound, MayDeal, HasPendingBets, Seat
<1>2. SeatInv("Betting", s[u], betTask'[u], dblTask'[u], stake[u])
    OBVIOUS
<1>21. /\ d[u].bet = s[u].bet /\ d[u].pend = 0
       /\ ~d[u].dbl /\ ~d[u].settled
       /\ ~d[u].in => d[u].bet = 0
       /\ d[u].bet # 0 => ~d[u].stood
    BY ONLY <1>1, <1>2, DealtKeepsBets, s \in [User -> Seat], u \in User
<1>22. /\ betTask'[u].st = "none" /\ dblTask'[u].st = "none"
       /\ stake[u] = s[u].bet /\ s[u] \in Seat
    BY <1>1, <1>2 DEF SeatInv, Seat, Unresolved
<1>23. stake[u] = d[u].bet
    BY <1>21, <1>22
<1>3. d \in [User -> Seat]
    BY DealtType
<1>4. d[u] \in Seat /\ d[u].bet \in Nat
    BY <1>3 DEF Seat
<1> HIDE DEF d
<1>5. CASE seat' = d /\ phase' = "DealerTurn" /\ stake' = stake
    BY <1>21, <1>22, <1>23, <1>4, <1>5 DEF SeatInv, Unresolved
<1>6. ASSUME NEW N \in SUBSET {v \in User : s[v].bet > 0},
             NEW t, t = [v \in User |-> IF v \in N THEN FinishSeat(d[v]) ELSE d[v]],
             seat' = t, RecordSettlements(d, t),
             phase' = IF HasPlayable(t) THEN "PlayerTurn" ELSE "Settling"
      PROVE  SeatInv(phase', seat'[u], betTask'[u], dblTask'[u], stake'[u])
  <2>1. CASE u \in N
    <3>1. t[u] = FinishSeat(d[u])
        BY <1>6, <2>1
    <3>2. /\ t[u].settled /\ t[u].bet = d[u].bet /\ t[u].pend = d[u].pend
          /\ t[u].dbl = d[u].dbl /\ t[u].in = d[u].in
        BY <1>4, <3>1 DEF FinishSeat, Seat
    <3>3. stake'[u] = 0
        BY <1>21, <1>22, <1>23, <1>4, <1>6, <3>2 DEF RecordSettlements
    <3> QED
        BY <1>21, <1>22, <1>23, <1>4, <1>6, <3>2, <3>3 DEF SeatInv, Unresolved
  <2>2. CASE u \notin N
    <3>1. t[u] = d[u] /\ stake'[u] = stake[u]
        BY <1>21, <1>22, <1>23, <1>6, <2>2 DEF RecordSettlements
    <3>2. ~HasPlayable(t) => ~Unresolved(t[u]) \/ t[u].stood
        BY DEF HasPlayable
    <3> QED
        BY <1>21, <1>22, <1>23, <1>4, <1>6, <3>1, <3>2 DEF SeatInv, Unresolved
  <2> QED
      BY <2>1, <2>2
<1> QED
    BY <1>5, <1>6 DEF StartRound, BeginDealerTurn, d
----------------------------------------------------------------------------
(* Every step is well typed *)

\* What holds of one user's seat and tasks by their types.
LEMMA UserTypes ==
  ASSUME TypeOK, NEW u \in User
  PROVE  /\ seat[u] \in Seat /\ betTask[u] \in Task /\ dblTask[u] \in Task
         /\ stake[u] \in Int
         /\ seat[u].bet \in Nat /\ seat[u].pend \in Nat
         /\ betTask[u].amt \in Nat /\ dblTask[u].amt \in Nat
  BY DEF TypeOK, Seat, Task

\* The empty task is a task.
LEMMA NoTaskType == NoTask \in Task
  BY DEF NoTask, Task, TaskStates

\* A bet that lands on a seat leaves a seat.
LEMMA BetSeatType ==
  ASSUME NEW r \in Seat, NEW b \in Nat
  PROVE  [r EXCEPT !.pend = 0, !.bet = b, !.missed = 0] \in Seat
  BY NoDealMissed DEF Seat

\* A double that lands on a seat leaves a seat.
LEMMA DoubleSeatType ==
  ASSUME NEW r \in Seat, NEW b \in Nat
  PROVE  [r EXCEPT !.dbl = FALSE, !.bet = b, !.hand = "more"] \in Seat
  BY DEF Seat

\* What a user asks for keeps the types.
LEMMA UserStepType ==
  ASSUME TypeOK, NEW u \in User, UserStep(u)
  PROVE  TypeOK'
<1> USE UserTypes
<1>1. CASE Sit(u)
  <2>1. seat' \in [User -> Seat]
      BY <1>1, ZenonT(60) DEF Sit, TypeOK, Seat
  <2> QED
      BY <1>1, <2>1 DEF Sit, TypeOK, ghostVars
<1>2. CASE LeaveSeat(u)
  <2>1. seat' \in [User -> Seat]
      BY <1>2, EmptySeatType DEF LeaveSeat, TypeOK
  <2> QED
      BY <1>2, <2>1 DEF LeaveSeat, TypeOK, ghostVars
<1>3. ASSUME NEW a \in Amount, PlaceBet(u, a)
      PROVE  TypeOK'
  <2>1. a \in Nat
      BY BlackjackAssumption
  <2>2. seat' \in [User -> Seat]
      BY <1>3, <2>1, ZenonT(60) DEF PlaceBet, TypeOK, Seat
  <2>3. betTask' \in [User -> Task]
      BY <1>3, <2>1 DEF PlaceBet, TypeOK, Task, TaskStates
  <2> QED
      BY <1>3, <2>2, <2>3 DEF PlaceBet, TypeOK
<1>4. CASE Hit(u)
  <2> DEFINE drawn == [seat EXCEPT ![u].hand = "more"]
             lost  == [drawn EXCEPT ![u] = FinishSeat(drawn[u])]
  <2>1. drawn \in [User -> Seat]
      BY DEF TypeOK, Seat
  <2>2. lost \in [User -> Seat]
      BY <2>1, FinishSeatType
  <2>3. CASE seat' = drawn /\ UNCHANGED <<phase, act, dealer, dealerTasks, stake>>
      BY <1>4, <2>1, <2>3 DEF Hit, TypeOK, ghostVars
  <2>4. CASE RecordSettlements(seat, lost) /\ AdvanceOrFinishRound(lost)
    <3> HIDE DEF drawn, lost
    <3>1. /\ phase' \in Phases /\ seat' \in [User -> Seat]
          /\ act' \in [on : BOOLEAN, id : Nat]
          /\ dealer' \in [id : Nat, sched : BOOLEAN]
          /\ dealerTasks' \subseteq Nat
        BY <2>2, <2>4, AdvanceType
    <3>2. stake' \in [User -> Int]
        BY <2>4, SettlementsType DEF TypeOK
    <3> QED
        BY <1>4, <3>1, <3>2 DEF Hit, TypeOK, ghostVars
  <2> QED
      BY <1>4, <2>3, <2>4 DEF Hit
<1>5. CASE Stand(u)
  <2> DEFINE s == [seat EXCEPT ![u].stood = TRUE]
  <2>1. s \in [User -> Seat]
      BY ZenonT(60) DEF TypeOK, Seat
  <2>2. AdvanceOrFinishRound(s)
      BY <1>5 DEF Stand
  <2> HIDE DEF s
  <2>3. /\ phase' \in Phases /\ seat' \in [User -> Seat]
        /\ act' \in [on : BOOLEAN, id : Nat]
        /\ dealer' \in [id : Nat, sched : BOOLEAN]
        /\ dealerTasks' \subseteq Nat
      BY <2>1, <2>2, AdvanceType
  <2> QED
      BY <1>5, <2>3 DEF Stand, TypeOK, ghostVars
<1>6. CASE DoubleDown(u)
  <2>1. seat' \in [User -> Seat]
      BY <1>6, ZenonT(60) DEF DoubleDown, TypeOK, Seat
  <2>2. dblTask' \in [User -> Task]
      BY <1>6 DEF DoubleDown, TypeOK, Task, TaskStates
  <2> QED
      BY <1>6, <2>1, <2>2 DEF DoubleDown, TypeOK, ghostVars
<1>7. CASE Deal(u)
  <2>0. /\ dealing' \subseteq User /\ capTasks' \subseteq Nat /\ bets' \in Nat
        /\ betTask' \in [User -> Task] /\ dblTask' \in [User -> Task]
      BY <1>7 DEF Deal, TypeOK
  <2>1. CASE StartRound(seat, FALSE)
    <3>1. seat \in [User -> Seat]
        BY DEF TypeOK
    <3> QED
        BY <2>0, <2>1, <3>1, StartType DEF TypeOK
  <2>2. CASE RefuseRound
      BY <2>0, <2>2 DEF RefuseRound, TypeOK
  <2> QED
      BY <1>7, <2>1, <2>2 DEF Deal
<1>8. CASE NextHand(u)
  <2>1. seat' \in [User -> Seat]
    <3> SUFFICES ASSUME NEW v \in User
                 PROVE  seat'[v] \in Seat
        BY <1>8 DEF NextHand
    <3>1. seat'[v] = [EmptySeat EXCEPT !.in = seat[v].in, !.missed = seat[v].missed,
                                       !.leave = seat[v].leave]
        BY <1>8 DEF NextHand
    <3> QED
        BY <3>1, EmptySeatType DEF TypeOK, Seat
  <2> QED
      BY <1>8, <2>1 DEF NextHand, TypeOK, timerVars, ghostVars, Phases
<1> QED
    BY <1>1, <1>2, <1>3, <1>4, <1>5, <1>6, <1>7, <1>8 DEF UserStep

\* The tasks of a bet and of a double keep the types.
LEMMA TaskStepType ==
  ASSUME TypeOK, NEW u \in User, BetStep(u) \/ DoubleStep(u)
  PROVE  TypeOK'
<1> USE UserTypes
<1>1. ASSUME NEW t \in Task, NEW st \in {"paid", "refused"}, Debit(u, t, st)
      PROVE  stake' \in [User -> Int]
    BY <1>1 DEF Debit, TypeOK, Task
<1>2. ASSUME NEW f, f = betTask \/ f = dblTask, NEW st \in {"paid", "refused"}
      PROVE  [f EXCEPT ![u].st = st] \in [User -> Task]
    BY <1>2 DEF TypeOK, Task, TaskStates
<1>3. ASSUME NEW f, f = betTask \/ f = dblTask
      PROVE  [f EXCEPT ![u] = NoTask] \in [User -> Task]
    BY <1>3, NoTaskType DEF TypeOK
<1>4. CASE DebitBet(u)
  <2>1. PICK st \in {"paid", "refused"} :
          /\ Debit(u, betTask[u], st)
          /\ betTask' = [betTask EXCEPT ![u].st = st]
          /\ UNCHANGED dblTask
      BY <1>4 DEF DebitBet
  <2>2. stake' \in [User -> Int]
      BY <1>1, <2>1
  <2>3. betTask' \in [User -> Task]
      BY <1>2, <2>1
  <2> QED
      BY <2>1, <2>2, <2>3 DEF Debit, TypeOK, tableVars, timerVars, ghostVars
<1>5. CASE DebitDouble(u)
  <2>1. PICK st \in {"paid", "refused"} :
          /\ Debit(u, dblTask[u], st)
          /\ dblTask' = [dblTask EXCEPT ![u].st = st]
          /\ UNCHANGED betTask
      BY <1>5 DEF DebitDouble
  <2>2. stake' \in [User -> Int]
      BY <1>1, <2>1
  <2>3. dblTask' \in [User -> Task]
      BY <1>2, <2>1
  <2> QED
      BY <2>1, <2>2, <2>3 DEF Debit, TypeOK, tableVars, timerVars, ghostVars
<1>6. CASE LandBet(u)
  <2> DEFINE b == IF seat[u].pend > 0 THEN seat[u].pend ELSE betTask[u].amt
             s == [seat EXCEPT ![u].pend = 0, ![u].bet = b, ![u].missed = 0]
  <2>1. betTask' \in [User -> Task]
      BY <1>3, <1>6 DEF LandBet
  <2>2. s \in [User -> Seat]
    <3>1. b \in Nat
        OBVIOUS
    <3>2. /\ s \in [User -> {s[v] : v \in User}]
          /\ s[u] = [seat[u] EXCEPT !.pend = 0, !.bet = b, !.missed = 0]
          /\ \A v \in User \ {u} : s[v] = seat[v]
        BY DEF TypeOK
    <3> HIDE DEF b, s
    <3>3. s[u] \in Seat
      <4>1. seat[u] \in Seat
          OBVIOUS
      <4>2. [seat[u] EXCEPT !.pend = 0, !.bet = b, !.missed = 0] \in Seat
          BY ONLY <3>1, <4>1, BetSeatType
      <4> QED
          BY ONLY <3>2, <4>2
    <3> QED
        BY <3>2, <3>3
  <2>3. CASE StartRound(s, TRUE) /\ UNCHANGED <<bets, capTasks>>
    <3> HIDE DEF s
    <3> QED
        BY <1>6, <2>1, <2>2, <2>3, StartType DEF LandBet, TypeOK
  <2>4. CASE /\ seat' = s
             /\ EnsureBettingCountdown
             /\ UNCHANGED <<phase, act, dealer, actTasks, dealerTasks, bets, dblRefused, stake>>
    <3> HIDE DEF s
    <3>1. /\ cap' \in [on : BOOLEAN, id : Nat] /\ capTasks' \subseteq Nat
          /\ capLost' \in BOOLEAN
      <4>1. cap.id \in Nat /\ cap.id + 1 \in Nat /\ capTasks \subseteq Nat
          BY DEF TypeOK
      <4> QED
          BY <2>4, <4>1 DEF EnsureBettingCountdown
    <3> QED
        BY <1>6, <2>1, <2>2, <2>4, <3>1 DEF LandBet, TypeOK
  <2>5. CASE UNCHANGED <<tableVars, capTasks, actTasks, dealerTasks, ghostVars, stake>>
      BY <1>6, <2>1, <2>5 DEF LandBet, TypeOK, tableVars, ghostVars
  <2> QED
      BY <1>6, <2>3, <2>4, <2>5 DEF LandBet
<1>7. CASE RejectBet(u)
  <2>1. betTask' \in [User -> Task]
      BY <1>3, <1>7 DEF RejectBet
  <2>2. seat' \in [User -> Seat]
      BY <1>7, ZenonT(60) DEF RejectBet, TypeOK, Seat
  <2> QED
      BY <1>7, <2>1, <2>2 DEF RejectBet, TypeOK, timerVars, ghostVars
<1>8. CASE LandDouble(u)
  <2> DEFINE drawn == [seat EXCEPT ![u].dbl = FALSE, ![u].bet = 2 * @, ![u].hand = "more"]
             lost  == [drawn EXCEPT ![u] = FinishSeat(drawn[u])]
             stand == [drawn EXCEPT ![u].stood = TRUE]
  <2>1. dblTask' \in [User -> Task]
      BY <1>3, <1>8 DEF LandDouble
  <2>2. drawn \in [User -> Seat]
    <3>1. 2 * seat[u].bet \in Nat
        OBVIOUS
    <3>2. /\ drawn \in [User -> {drawn[v] : v \in User}]
          /\ drawn[u] = [seat[u] EXCEPT !.dbl = FALSE, !.bet = 2 * seat[u].bet, !.hand = "more"]
          /\ \A v \in User \ {u} : drawn[v] = seat[v]
        BY DEF TypeOK
    <3> HIDE DEF drawn
    <3>3. drawn[u] \in Seat
        BY <3>1, <3>2 DEF Seat
    <3> QED
        BY <3>2, <3>3
  <2>3. lost \in [User -> Seat]
      BY <2>2, FinishSeatType
  <2>4. stand \in [User -> Seat]
    <3> HIDE DEF drawn
    <3> QED
        BY <2>2, ZenonT(60) DEF Seat
  <2>5. ASSUME NEW s \in [User -> Seat], AdvanceOrFinishRound(s), stake' \in [User -> Int]
        PROVE  TypeOK'
      BY <1>8, <2>1, <2>5, AdvanceType DEF LandDouble, TypeOK, ghostVars
  <2>6. CASE RecordSettlements(drawn, lost) /\ AdvanceOrFinishRound(lost)
    <3> HIDE DEF drawn, lost
    <3>1. stake' \in [User -> Int]
        BY <2>2, <2>6, SettlementsType
    <3> QED
        BY <2>3, <2>5, <2>6, <3>1
  <2>7. CASE AdvanceOrFinishRound(stand) /\ UNCHANGED <<stake>>
    <3> HIDE DEF stand
    <3> QED
        BY <2>4, <2>5, <2>7 DEF TypeOK
  <2>8. CASE /\ seat' = [seat EXCEPT ![u].dbl = FALSE]
             /\ UNCHANGED <<phase, act, dealer, dealerTasks, stake>>
    <3>1. seat' \in [User -> Seat]
        BY <2>8, ZenonT(60) DEF TypeOK, Seat
    <3> QED
        BY <1>8, <2>1, <2>8, <3>1 DEF LandDouble, TypeOK, ghostVars
  <2> QED
      BY <1>8, <2>6, <2>7, <2>8 DEF LandDouble
<1>9. CASE RejectDouble(u)
  <2>1. dblTask' \in [User -> Task]
      BY <1>3, <1>9 DEF RejectDouble
  <2>2. seat' \in [User -> Seat]
      BY <1>9, ZenonT(60) DEF RejectDouble, TypeOK, Seat
  <2> QED
      BY <1>9, <2>1, <2>2 DEF RejectDouble, TypeOK, timerVars
<1> QED
    BY <1>4, <1>5, <1>6, <1>7, <1>8, <1>9 DEF BetStep, DoubleStep

\* The follow-up of a deal, the timers and the kick keep the types.
LEMMA TimerStepType ==
  ASSUME TypeOK, TimerStep \/ \E u \in User : DealFollowUp(u) \/ KickInactive(u)
  PROVE  TypeOK'
<1>0. seat \in [User -> Seat]
    BY DEF TypeOK
<1>1. ASSUME NEW u \in User, DealFollowUp(u)
      PROVE  TypeOK'
  <2>1. act' \in [on : BOOLEAN, id : Nat] /\ actTasks' \subseteq Nat
      BY <1>1, ArmActionType DEF DealFollowUp, TypeOK
  <2>2. dealer' \in [id : Nat, sched : BOOLEAN] /\ dealerTasks' \subseteq Nat
      BY <1>1 DEF DealFollowUp, TypeOK
  <2> QED
      BY <1>1, <2>1, <2>2 DEF DealFollowUp, TypeOK, ghostVars
<1>2. ASSUME NEW u \in User, KickInactive(u)
      PROVE  TypeOK'
  <2> DEFINE s == [seat EXCEPT ![u].stood = TRUE, ![u].leave = TRUE]
  <2>1. s \in [User -> Seat]
      BY <1>0, ZenonT(60) DEF Seat
  <2>2. CASE AdvanceOrFinishRound(s)
    <3> HIDE DEF s
    <3> QED
        BY <1>2, <2>1, <2>2, AdvanceType DEF KickInactive, TypeOK, ghostVars
  <2>3. ASSUME seat' \in [User -> Seat], UNCHANGED <<phase, act, dealer, dealerTasks>>
        PROVE  TypeOK'
      BY <1>2, <2>3 DEF KickInactive, TypeOK, ghostVars
  <2>4. CASE /\ seat' = [seat EXCEPT ![u].leave = TRUE]
             /\ UNCHANGED <<phase, act, dealer, dealerTasks>>
    <3>1. seat' \in [User -> Seat]
        BY <1>0, <2>4, ZenonT(60) DEF Seat
    <3> QED
        BY <2>3, <2>4, <3>1
  <2>5. CASE /\ seat' = [seat EXCEPT ![u] = EmptySeat]
             /\ UNCHANGED <<phase, act, dealer, dealerTasks>>
    <3>1. seat' \in [User -> Seat]
        BY <1>0, <2>5, EmptySeatType
    <3> QED
        BY <2>3, <2>5, <3>1
  <2> QED
      BY <1>2, <2>2, <2>4, <2>5 DEF KickInactive
<1>3. ASSUME NEW id \in capTasks, AutoDeal(id)
      PROVE  TypeOK'
  <2>0. /\ capTasks' \subseteq Nat /\ dealing' \subseteq User /\ bets' \in Nat
        /\ betTask' \in [User -> Task] /\ dblTask' \in [User -> Task]
      BY <1>3 DEF AutoDeal, TypeOK
  <2>1. CASE StartRound(seat, TRUE)
      BY <1>0, <2>0, <2>1, StartType DEF TypeOK
  <2>2. CASE RefuseRound
      BY <2>0, <2>2 DEF RefuseRound, TypeOK
  <2>3. CASE UNCHANGED <<tableVars, actTasks, dealerTasks, capLost, dblRefused, stake>>
      BY <2>0, <2>3 DEF TypeOK, tableVars
  <2> QED
      BY <1>3, <2>1, <2>2, <2>3 DEF AutoDeal
<1>4. ASSUME NEW id \in actTasks, ActionTimeout(id)
      PROVE  TypeOK'
  <2>0. actTasks' \subseteq Nat
      BY <1>4 DEF ActionTimeout, TypeOK
  <2>1. AutoStand(seat) \in [User -> Seat]
      BY <1>0, ZenonT(60) DEF AutoStand, Seat
  <2>2. CASE AdvanceOrFinishRound(AutoStand(seat))
      BY <1>4, <2>0, <2>1, <2>2, AdvanceType DEF ActionTimeout, TypeOK, ghostVars
  <2>3. CASE UNCHANGED <<phase, seat, act, dealer, dealerTasks>>
      BY <1>4, <2>0, <2>3 DEF ActionTimeout, TypeOK, ghostVars
  <2> QED
      BY <1>4, <2>2, <2>3 DEF ActionTimeout
<1>5. ASSUME NEW id \in dealerTasks, DealerStep(id)
      PROVE  TypeOK'
  <2> DEFINE t == [v \in User |-> IF Unresolved(seat[v]) THEN FinishSeat(seat[v]) ELSE seat[v]]
  <2>0. dealerTasks' \subseteq Nat
      BY <1>5 DEF DealerStep, TypeOK
  <2>1. t \in [User -> Seat]
      BY <1>0, FinishSeatType
  <2>2. CASE /\ RecordSettlements(seat, t) /\ seat' = RemoveDeferred(t)
             /\ phase' = "Settling" /\ dealer' = [dealer EXCEPT !.sched = FALSE]
    <3> HIDE DEF t
    <3>1. stake' \in [User -> Int]
        BY <1>0, <2>2, SettlementsType
    <3>2. seat' \in [User -> Seat]
        BY <2>1, <2>2, RemoveDeferredType
    <3> QED
        BY <1>5, <2>0, <2>2, <3>1, <3>2 DEF DealerStep, TypeOK, Phases, ghostVars
  <2>3. CASE UNCHANGED <<phase, seat, dealer, stake>>
      BY <1>5, <2>0, <2>3 DEF DealerStep, TypeOK, ghostVars
  <2> QED
      BY <1>5, <2>2, <2>3 DEF DealerStep
<1> QED
    BY <1>1, <1>2, <1>3, <1>4, <1>5 DEF TimerStep

\* Every step keeps the types.
LEMMA TypeStep == TypeOK /\ [Next]_vars => TypeOK'
<1> SUFFICES ASSUME TypeOK, [Next]_vars
             PROVE  TypeOK'
    OBVIOUS
<1>1. CASE UNCHANGED vars
    BY <1>1 DEF vars, tableVars, timerVars, ghostVars, TypeOK
<1>2. ASSUME NEW u \in User,
             UserStep(u) \/ BetStep(u) \/ DoubleStep(u) \/ DealFollowUp(u) \/ KickInactive(u)
      PROVE  TypeOK'
    BY <1>2, UserStepType, TaskStepType, TimerStepType
<1>3. CASE TimerStep
    BY <1>3, TimerStepType
<1> QED
    BY <1>1, <1>2, <1>3 DEF Next
----------------------------------------------------------------------------
(* Every step keeps the table in order *)

\* A step that stays in its phase and touches one user's seat, tasks and chips
\* need only be looked at there.
LEMMA OneSeat ==
  ASSUME TableInv, NEW u \in User, phase' = phase,
         \A v \in User \ {u} : /\ seat'[v] = seat[v] /\ stake'[v] = stake[v]
                               /\ betTask'[v] = betTask[v] /\ dblTask'[v] = dblTask[v],
         SeatInv(phase, seat'[u], betTask'[u], dblTask'[u], stake'[u])
  PROVE  TableInv'
  BY DEF TableInv

\* So does one that leaves seats, tasks and chips alone.
LEMMA SameTable ==
  ASSUME TableInv, UNCHANGED <<phase, seat, betTask, dblTask, stake>>
  PROVE  TableInv'
  BY DEF TableInv

\* What a user asks for keeps the table in order.
LEMMA UserStepInv ==
  ASSUME Inv, NEW u \in User, UserStep(u)
  PROVE  TableInv'
<1>0. TypeOK /\ TableInv
    BY DEF Inv
<1>a. /\ seat[u] \in Seat /\ betTask[u] \in Task /\ dblTask[u] \in Task
      /\ stake[u] \in Int /\ seat[u].bet \in Nat /\ seat[u].pend \in Nat
      /\ betTask[u].amt \in Nat /\ dblTask[u].amt \in Nat
    BY <1>0, UserTypes
<1>b. SeatInv(phase, seat[u], betTask[u], dblTask[u], stake[u])
    BY <1>0 DEF TableInv
<1>c. /\ seat \in [User -> Seat] /\ betTask \in [User -> Task] /\ dblTask \in [User -> Task]
      /\ stake \in [User -> Int]
    BY <1>0 DEF TypeOK
<1>1. CASE Sit(u)
  <2>1. /\ UNCHANGED <<phase, betTask, dblTask, stake>> /\ ~seat[u].in
        /\ seat'[u] = [seat[u] EXCEPT !.in = TRUE]
        /\ \A v \in User \ {u} : seat'[v] = seat[v]
      BY <1>1, <1>c DEF Sit
  <2>2. SeatInv(phase, seat'[u], betTask'[u], dblTask'[u], stake'[u])
      BY <1>a, <1>b, <2>1 DEF SeatInv, Seat, Unresolved
  <2> QED
      BY <1>0, <2>1, <2>2, OneSeat
<1>2. CASE LeaveSeat(u)
  <2>1. /\ UNCHANGED <<phase, betTask, dblTask, stake>> /\ MayLeave(seat[u])
        /\ seat'[u] = EmptySeat
        /\ \A v \in User \ {u} : seat'[v] = seat[v]
      BY <1>2, <1>c DEF LeaveSeat
  <2>2. betTask[u].st = "none" /\ dblTask[u].st = "none" /\ stake[u] = 0
      BY <1>a, <1>b, <2>1 DEF SeatInv, MayLeave, Unresolved
  <2>3. SeatInv(phase, seat'[u], betTask'[u], dblTask'[u], stake'[u])
      BY <2>1, <2>2 DEF SeatInv, EmptySeat, Unresolved
  <2> QED
      BY <1>0, <2>1, <2>3, OneSeat
<1>3. ASSUME NEW a \in Amount, PlaceBet(u, a)
      PROVE  TableInv'
  <2>0. a \in Nat /\ a > 0
      BY BlackjackAssumption
  <2>1. /\ UNCHANGED <<phase, dblTask, stake>>
        /\ seat[u].in /\ phase = "Betting" /\ seat[u].bet = 0 /\ seat[u].pend = 0
        /\ seat'[u] = [seat[u] EXCEPT !.pend = a]
        /\ betTask'[u] = [st |-> "debit", amt |-> a]
        /\ \A v \in User \ {u} : seat'[v] = seat[v] /\ betTask'[v] = betTask[v]
      BY <1>3, <1>c DEF PlaceBet
  <2>2. betTask[u].st = "none" /\ dblTask[u].st = "none" /\ stake[u] = 0
      BY <1>a, <1>b, <2>1 DEF SeatInv, Unresolved
  <2>3. SeatInv(phase, seat'[u], betTask'[u], dblTask'[u], stake'[u])
      BY <1>a, <1>b, <2>0, <2>1, <2>2 DEF SeatInv, Seat, Unresolved
  <2> QED
      BY <1>0, <2>1, <2>3, OneSeat
<1>4. CASE Hit(u)
  <2> DEFINE drawn == [seat EXCEPT ![u].hand = "more"]
             lost  == [drawn EXCEPT ![u] = FinishSeat(drawn[u])]
  <2>1. /\ UNCHANGED <<betTask, dblTask>> /\ phase = "PlayerTurn" /\ seat[u].in
        /\ HandActive(seat[u])
      BY <1>4 DEF Hit
  <2>2. /\ betTask[u].st = "none" /\ dblTask[u].st = "none" /\ stake[u] = seat[u].bet
        /\ seat[u].pend = 0
      BY <1>a, <1>b, <2>1 DEF SeatInv, HandActive
  <2>3. /\ drawn[u] = [seat[u] EXCEPT !.hand = "more"]
        /\ \A v \in User \ {u} : drawn[v] = seat[v]
        /\ drawn \in [User -> Seat]
      BY <1>c DEF Seat
  <2>4. CASE seat' = drawn /\ UNCHANGED <<phase, stake>>
    <3>1. SeatInv(phase, seat'[u], betTask'[u], dblTask'[u], stake'[u])
      <4>1. seat'[u] = [seat[u] EXCEPT !.hand = "more"]
          BY <2>3, <2>4
      <4> QED
          BY <1>a, <1>b, <2>1, <2>2, <2>4, <4>1 DEF SeatInv, Seat, Unresolved, HandActive
    <3> QED
        BY <1>0, <2>1, <2>3, <2>4, <3>1, OneSeat
  <2>5. CASE RecordSettlements(seat, lost) /\ AdvanceOrFinishRound(lost)
    <3>1. /\ lost[u] = [seat[u] EXCEPT !.hand = "more", !.settled = TRUE, !.stood = FALSE]
          /\ \A v \in User \ {u} : lost[v] = seat[v]
          /\ lost \in [User -> Seat]
        BY <1>c, <2>3, FinishSeatType, ZenonT(60) DEF FinishSeat, Seat
    <3> HIDE DEF drawn, lost
    <3>2. /\ stake'[u] = stake[u] - seat[u].bet
          /\ \A v \in User \ {u} : stake'[v] = stake[v]
        BY <1>a, <1>c, <2>1, <2>5, <3>1 DEF RecordSettlements, HandActive, Unresolved, Seat
    <3>3. SeatInv("PlayerTurn", lost[u], betTask'[u], dblTask'[u], stake'[u])
        BY <1>a, <1>b, <2>1, <2>2, <3>1, <3>2 DEF SeatInv, Seat, Unresolved, HandActive
    <3>4. \A v \in User \ {u} : SeatInv("PlayerTurn", lost[v], betTask'[v], dblTask'[v], stake'[v])
        BY <1>0, <2>1, <3>1, <3>2 DEF TableInv
    <3> QED
        BY <2>5, <3>1, <3>3, <3>4, AdvanceInv
  <2> QED
      BY <1>4, <2>4, <2>5 DEF Hit
<1>5. CASE Stand(u)
  <2> DEFINE s == [seat EXCEPT ![u].stood = TRUE]
  <2>1. /\ UNCHANGED <<betTask, dblTask, stake>> /\ phase = "PlayerTurn"
        /\ HandActive(seat[u]) /\ AdvanceOrFinishRound(s)
      BY <1>5 DEF Stand
  <2>2. /\ s[u] = [seat[u] EXCEPT !.stood = TRUE]
        /\ \A v \in User \ {u} : s[v] = seat[v]
        /\ s \in [User -> Seat]
      BY <1>c, ZenonT(60) DEF Seat
  <2> HIDE DEF s
  <2>3. SeatInv("PlayerTurn", s[u], betTask'[u], dblTask'[u], stake'[u])
      BY <1>a, <1>b, <2>1, <2>2 DEF SeatInv, Seat, Unresolved, HandActive
  <2>4. \A v \in User \ {u} : SeatInv("PlayerTurn", s[v], betTask'[v], dblTask'[v], stake'[v])
      BY <1>0, <2>1, <2>2 DEF TableInv
  <2> QED
      BY <2>1, <2>2, <2>3, <2>4, AdvanceInv
<1>6. CASE DoubleDown(u)
  <2>1. /\ UNCHANGED <<phase, betTask, stake>> /\ phase = "PlayerTurn" /\ seat[u].in
        /\ HandActive(seat[u]) /\ seat[u].hand = "two"
        /\ seat'[u] = [seat[u] EXCEPT !.dbl = TRUE]
        /\ dblTask'[u] = [st |-> "debit", amt |-> seat[u].bet]
        /\ \A v \in User \ {u} : seat'[v] = seat[v] /\ dblTask'[v] = dblTask[v]
      BY <1>6, <1>c DEF DoubleDown
  <2>2. dblTask[u].st = "none" /\ betTask[u].st = "none"
      BY <1>b, <2>1 DEF SeatInv, HandActive
  <2>3. SeatInv(phase, seat'[u], betTask'[u], dblTask'[u], stake'[u])
      BY <1>a, <1>b, <2>1, <2>2 DEF SeatInv, Seat, Unresolved, HandActive
  <2> QED
      BY <1>0, <2>1, <2>3, OneSeat
<1>7. CASE Deal(u)
  <2>1. UNCHANGED <<betTask, dblTask>> /\ phase = "Betting"
      BY <1>7 DEF Deal
  <2>2. CASE StartRound(seat, FALSE)
    <3>1. \A v \in User : SeatInv("Betting", seat[v], betTask'[v], dblTask'[v], stake[v])
        BY <1>0, <2>1 DEF TableInv
    <3> QED
        BY <1>0, <1>c, <2>2, <3>1, StartInv
  <2>3. CASE RefuseRound
      BY <1>0, <2>1, <2>3, SameTable DEF RefuseRound
  <2> QED
      BY <1>7, <2>2, <2>3 DEF Deal
<1>8. CASE NextHand(u)
  <2> SUFFICES ASSUME NEW v \in User
               PROVE  SeatInv(phase', seat'[v], betTask'[v], dblTask'[v], stake'[v])
      BY DEF TableInv
  <2>1. /\ UNCHANGED <<betTask, dblTask, stake>> /\ phase = "Settling" /\ phase' = "Betting"
        /\ seat'[v] = [EmptySeat EXCEPT !.in = seat[v].in, !.missed = seat[v].missed,
                                        !.leave = seat[v].leave]
      BY <1>8 DEF NextHand
  <2>2. SeatInv(phase, seat[v], betTask[v], dblTask[v], stake[v])
      BY <1>0 DEF TableInv
  <2>3. betTask[v].st = "none" /\ dblTask[v].st = "none" /\ stake[v] = 0
      BY <2>1, <2>2 DEF SeatInv
  <2>4. seat'[v].bet = 0 /\ seat'[v].pend = 0 /\ ~seat'[v].dbl /\ ~seat'[v].settled
      BY <2>1 DEF EmptySeat
  <2> QED
      BY <2>1, <2>3, <2>4 DEF SeatInv, Unresolved
<1> QED
    BY <1>1, <1>2, <1>3, <1>4, <1>5, <1>6, <1>7, <1>8 DEF UserStep

\* The tasks of a bet and of a double keep the table in order.
LEMMA TaskStepInv ==
  ASSUME Inv, NEW u \in User, BetStep(u) \/ DoubleStep(u)
  PROVE  TableInv'
<1>0. TypeOK /\ TableInv
    BY DEF Inv
<1>a. /\ seat[u] \in Seat /\ betTask[u] \in Task /\ dblTask[u] \in Task
      /\ stake[u] \in Int /\ seat[u].bet \in Nat /\ seat[u].pend \in Nat
      /\ betTask[u].amt \in Nat /\ dblTask[u].amt \in Nat
    BY <1>0, UserTypes
<1>b. SeatInv(phase, seat[u], betTask[u], dblTask[u], stake[u])
    BY <1>0 DEF TableInv
<1>c. /\ seat \in [User -> Seat] /\ betTask \in [User -> Task] /\ dblTask \in [User -> Task]
      /\ stake \in [User -> Int]
    BY <1>0 DEF TypeOK
<1>1. CASE DebitBet(u)
  <2>1. PICK st \in {"paid", "refused"} :
          /\ Debit(u, betTask[u], st)
          /\ betTask' = [betTask EXCEPT ![u].st = st]
          /\ UNCHANGED dblTask
      BY <1>1 DEF DebitBet
  <2>2. /\ UNCHANGED <<phase, seat>> /\ betTask[u].st = "debit"
        /\ betTask'[u].st = st /\ betTask'[u].amt = betTask[u].amt
        /\ stake'[u] = IF st = "paid" THEN stake[u] + betTask[u].amt ELSE stake[u]
        /\ \A v \in User \ {u} : betTask'[v] = betTask[v] /\ stake'[v] = stake[v]
      BY <1>a, <1>c, <2>1 DEF Debit, tableVars, Task
  <2>3. SeatInv(phase, seat'[u], betTask'[u], dblTask'[u], stake'[u])
      BY <1>a, <1>b, <2>1, <2>2 DEF SeatInv
  <2> QED
      BY <1>0, <2>1, <2>2, <2>3, OneSeat
<1>2. CASE DebitDouble(u)
  <2>1. PICK st \in {"paid", "refused"} :
          /\ Debit(u, dblTask[u], st)
          /\ dblTask' = [dblTask EXCEPT ![u].st = st]
          /\ UNCHANGED betTask
      BY <1>2 DEF DebitDouble
  <2>2. /\ UNCHANGED <<phase, seat>> /\ dblTask[u].st = "debit"
        /\ dblTask'[u].st = st /\ dblTask'[u].amt = dblTask[u].amt
        /\ stake'[u] = IF st = "paid" THEN stake[u] + dblTask[u].amt ELSE stake[u]
        /\ \A v \in User \ {u} : dblTask'[v] = dblTask[v] /\ stake'[v] = stake[v]
      BY <1>a, <1>c, <2>1 DEF Debit, tableVars, Task
  <2>3. SeatInv(phase, seat'[u], betTask'[u], dblTask'[u], stake'[u])
      BY <1>a, <1>b, <2>1, <2>2 DEF SeatInv
  <2> QED
      BY <1>0, <2>1, <2>2, <2>3, OneSeat
<1>3. CASE LandBet(u)
  <2> DEFINE b == IF seat[u].pend > 0 THEN seat[u].pend ELSE betTask[u].amt
             s == [seat EXCEPT ![u].pend = 0, ![u].bet = b, ![u].missed = 0]
  <2>1. /\ betTask[u].st = "paid" /\ UNCHANGED dblTask
        /\ betTask'[u] = NoTask
        /\ \A v \in User \ {u} : betTask'[v] = betTask[v]
      BY <1>3, <1>c DEF LandBet
  <2>2. /\ phase = "Betting" /\ seat[u].in /\ dblTask[u].st = "none"
        /\ ~seat[u].dbl /\ ~seat[u].settled
        /\ b = betTask[u].amt /\ b > 0 /\ stake[u] = betTask[u].amt
      BY <1>a, <1>b, <2>1 DEF SeatInv, Unresolved
  <2>3. /\ s[u] = [seat[u] EXCEPT !.pend = 0, !.bet = betTask[u].amt, !.missed = 0]
        /\ \A v \in User \ {u} : s[v] = seat[v]
        /\ s \in [User -> {s[v] : v \in User}]
      BY <1>c, <2>2
  <2> HIDE DEF b, s
  <2>4. s[u] \in Seat
    <3>1. [seat[u] EXCEPT !.pend = 0, !.bet = betTask[u].amt, !.missed = 0] \in Seat
        BY ONLY <1>a, BetSeatType
    <3> QED
        BY ONLY <2>3, <3>1
  <2>5. s \in [User -> Seat]
      BY <1>c, <2>3, <2>4
  <2>6. SeatInv("Betting", s[u], betTask'[u], dblTask'[u], stake[u])
    <3>1. /\ s[u].in /\ s[u].pend = 0 /\ s[u].bet = stake[u] /\ s[u].bet > 0
          /\ ~s[u].dbl /\ ~s[u].settled
        BY <1>a, <2>2, <2>3 DEF Seat
    <3> QED
        BY <1>a, <2>1, <2>2, <3>1 DEF SeatInv, Unresolved, NoTask
  <2>7. \A v \in User \ {u} : SeatInv("Betting", s[v], betTask'[v], dblTask'[v], stake[v])
      BY <1>0, <2>1, <2>2, <2>3 DEF TableInv
  <2>8. CASE StartRound(s, TRUE)
      BY <1>0, <2>5, <2>6, <2>7, <2>8, StartInv
  <2>9. CASE seat' = s /\ UNCHANGED <<phase, stake>>
      BY <2>2, <2>6, <2>7, <2>9 DEF TableInv
  <2> QED
      BY <1>3, <2>2, <2>8, <2>9 DEF LandBet, s, b
<1>4. CASE RejectBet(u)
  <2>1. /\ UNCHANGED <<phase, dblTask, stake>> /\ betTask[u].st = "refused"
        /\ betTask'[u] = NoTask
        /\ seat' = IF seat[u].in THEN [seat EXCEPT ![u].pend = 0] ELSE seat
        /\ \A v \in User \ {u} : betTask'[v] = betTask[v] /\ seat'[v] = seat[v]
      BY <1>4, <1>c DEF RejectBet
  <2>2. phase = "Betting" /\ seat'[u] = [seat[u] EXCEPT !.pend = 0]
      BY <1>b, <1>c, <2>1 DEF SeatInv
  <2>3. SeatInv(phase, seat'[u], betTask'[u], dblTask'[u], stake'[u])
      BY <1>a, <1>b, <2>1, <2>2 DEF SeatInv, Seat, Unresolved, NoTask
  <2> QED
      BY <1>0, <2>1, <2>3, OneSeat
<1>5. CASE LandDouble(u)
  <2> DEFINE drawn == [seat EXCEPT ![u].dbl = FALSE, ![u].bet = 2 * @, ![u].hand = "more"]
             lost  == [drawn EXCEPT ![u] = FinishSeat(drawn[u])]
             stand == [drawn EXCEPT ![u].stood = TRUE]
             r == [seat[u] EXCEPT !.dbl = FALSE, !.bet = 2 * seat[u].bet, !.hand = "more"]
  <2>1. /\ dblTask[u].st = "paid" /\ UNCHANGED betTask
        /\ dblTask'[u] = NoTask
        /\ \A v \in User \ {u} : dblTask'[v] = dblTask[v]
      BY <1>5, <1>c DEF LandDouble
  <2>2. /\ DoubleStands(u) /\ phase = "PlayerTurn" /\ seat[u].in /\ Unresolved(seat[u])
        /\ betTask[u].st = "none" /\ seat[u].pend = 0
        /\ stake[u] = 2 * seat[u].bet
      BY <1>a, <1>b, <2>1 DEF SeatInv, DoubleStands
  <2>3. /\ drawn[u] = r
        /\ \A v \in User \ {u} : drawn[v] = seat[v]
        /\ drawn \in [User -> {drawn[v] : v \in User}]
      BY <1>c
  <2>4. /\ r \in Seat /\ r.in /\ ~r.dbl /\ r.bet = stake[u] /\ r.bet > 0 /\ r.pend = 0
        /\ ~r.settled
    <3>1. 2 * seat[u].bet \in Nat
        BY <1>a
    <3>2. r \in Seat
      <4>1. seat[u] \in Seat
          BY <1>a
      <4> QED
          BY ONLY <3>1, <4>1, DoubleSeatType
    <3>3. /\ r.bet = 2 * seat[u].bet /\ ~r.dbl /\ r.in = seat[u].in /\ r.pend = seat[u].pend
          /\ r.settled = seat[u].settled
        BY <1>a DEF Seat
    <3>4. seat[u].bet > 0 /\ 2 * seat[u].bet > 0 /\ ~seat[u].settled
        BY <1>a, <2>2 DEF Unresolved
    <3> QED
        BY <2>2, <3>2, <3>3, <3>4
  <2> HIDE DEF r
  <2>5. /\ lost[u] = FinishSeat(r) /\ stand[u] = [r EXCEPT !.stood = TRUE]
        /\ \A v \in User \ {u} : lost[v] = seat[v] /\ stand[v] = seat[v]
        /\ lost \in [User -> {lost[v] : v \in User}]
        /\ stand \in [User -> {stand[v] : v \in User}]
    <3> HIDE DEF drawn
    <3> QED
        BY <2>3
  <2>6. lost[u] \in Seat /\ stand[u] \in Seat
    <3> HIDE DEF drawn, lost, stand
    <3> QED
        BY <2>4, <2>5, FinishSeatType, ZenonT(60) DEF Seat
  <2> HIDE DEF drawn, lost, stand
  <2>7. lost \in [User -> Seat] /\ stand \in [User -> Seat]
      BY <1>c, <2>5, <2>6
  <2>8. ASSUME NEW s \in [User -> Seat], AdvanceOrFinishRound(s),
               \A v \in User \ {u} : s[v] = seat[v] /\ stake'[v] = stake[v],
               SeatInv("PlayerTurn", s[u], betTask'[u], dblTask'[u], stake'[u])
        PROVE  TableInv'
    <3>1. \A v \in User \ {u} : SeatInv("PlayerTurn", s[v], betTask'[v], dblTask'[v], stake'[v])
        BY <1>0, <2>1, <2>2, <2>8 DEF TableInv
    <3> QED
        BY <2>8, <3>1, AdvanceInv
  <2>9. CASE RecordSettlements(drawn, lost) /\ AdvanceOrFinishRound(lost)
    <3>1. /\ stake'[u] = 0
          /\ \A v \in User \ {u} : stake'[v] = stake[v]
      <4>1. lost[u].settled
          BY <2>4, <2>5 DEF FinishSeat, Seat
      <4>2. drawn[u].bet = stake[u] /\ ~drawn[u].settled
          BY <2>3, <2>4
      <4>3. stake'[u] = stake[u] - drawn[u].bet
          BY <2>9, <4>1, <4>2 DEF RecordSettlements
      <4>4. \A v \in User \ {u} : stake'[v] = stake[v]
          BY <2>3, <2>5, <2>9 DEF RecordSettlements
      <4> QED
          BY <1>a, <4>2, <4>3, <4>4
    <3>2. /\ lost[u].in /\ lost[u].pend = 0 /\ ~lost[u].dbl /\ lost[u].settled
        BY <2>4, <2>5 DEF FinishSeat, Seat
    <3>3. SeatInv("PlayerTurn", lost[u], betTask'[u], dblTask'[u], stake'[u])
        BY <2>1, <2>2, <3>1, <3>2 DEF SeatInv, Unresolved, NoTask
    <3> QED
        BY <2>5, <2>7, <2>8, <2>9, <3>1, <3>3
  <2>10. CASE AdvanceOrFinishRound(stand) /\ UNCHANGED <<stake>>
    <3>1. /\ stand[u].in /\ stand[u].pend = 0 /\ ~stand[u].dbl /\ ~stand[u].settled
          /\ stand[u].bet = stake[u] /\ stand[u].bet > 0
        BY <2>4, <2>5 DEF Seat
    <3>2. SeatInv("PlayerTurn", stand[u], betTask'[u], dblTask'[u], stake'[u])
        BY <1>a, <2>1, <2>2, <2>10, <3>1 DEF SeatInv, Unresolved, NoTask
    <3> QED
        BY <2>5, <2>7, <2>8, <2>10, <3>2
  <2> QED
      BY <1>5, <2>2, <2>9, <2>10 DEF LandDouble, drawn, lost, stand
<1>6. CASE RejectDouble(u)
  <2>1. /\ UNCHANGED <<phase, betTask, stake>> /\ dblTask[u].st = "refused"
        /\ dblTask'[u] = NoTask
        /\ seat' = IF seat[u].in THEN [seat EXCEPT ![u].dbl = FALSE] ELSE seat
        /\ \A v \in User \ {u} : dblTask'[v] = dblTask[v] /\ seat'[v] = seat[v]
      BY <1>6, <1>c DEF RejectDouble
  <2>2. phase = "PlayerTurn" /\ seat'[u] = [seat[u] EXCEPT !.dbl = FALSE]
      BY <1>b, <1>c, <2>1 DEF SeatInv
  <2>3. SeatInv(phase, seat'[u], betTask'[u], dblTask'[u], stake'[u])
      BY <1>a, <1>b, <2>1, <2>2 DEF SeatInv, Seat, Unresolved, NoTask
  <2> QED
      BY <1>0, <2>1, <2>3, OneSeat
<1> QED
    BY <1>1, <1>2, <1>3, <1>4, <1>5, <1>6 DEF BetStep, DoubleStep

\* The timers, the follow-up of a deal and the kick keep the table in order.
LEMMA TimerStepInv ==
  ASSUME Inv, TimerStep \/ \E u \in User : DealFollowUp(u) \/ KickInactive(u)
  PROVE  TableInv'
<1>0. TypeOK /\ TableInv
    BY DEF Inv
<1>c. /\ seat \in [User -> Seat] /\ betTask \in [User -> Task] /\ dblTask \in [User -> Task]
      /\ stake \in [User -> Int]
    BY <1>0 DEF TypeOK
<1>1. ASSUME NEW u \in User, DealFollowUp(u)
      PROVE  TableInv'
    BY <1>0, <1>1, SameTable DEF DealFollowUp
<1>2. ASSUME NEW u \in User, KickInactive(u)
      PROVE  TableInv'
  <2> DEFINE s == [seat EXCEPT ![u].stood = TRUE, ![u].leave = TRUE]
  <2>a. /\ seat[u] \in Seat /\ stake[u] \in Int
        /\ seat[u].bet \in Nat /\ seat[u].pend \in Nat
        /\ betTask[u].amt \in Nat /\ dblTask[u].amt \in Nat
      BY <1>0, UserTypes
  <2>b. SeatInv(phase, seat[u], betTask[u], dblTask[u], stake[u])
      BY <1>0 DEF TableInv
  <2>0. UNCHANGED <<betTask, dblTask, stake>> /\ seat[u].in /\ ~KickRefused(seat[u])
      BY <1>2 DEF KickInactive
  <2>1. betTask[u].st = "none" /\ dblTask[u].st = "none" /\ seat[u].pend = 0 /\ ~seat[u].dbl
      BY <2>a, <2>b, <2>0 DEF SeatInv, KickRefused
  <2>2. CASE phase = "PlayerTurn" /\ AdvanceOrFinishRound(s)
    <3>1. /\ s[u] = [seat[u] EXCEPT !.stood = TRUE, !.leave = TRUE]
          /\ \A v \in User \ {u} : s[v] = seat[v]
          /\ s \in [User -> Seat]
        BY <1>c, ZenonT(60) DEF Seat
    <3> HIDE DEF s
    <3>2. SeatInv("PlayerTurn", s[u], betTask'[u], dblTask'[u], stake'[u])
        BY <2>a, <2>b, <2>0, <2>1, <2>2, <3>1 DEF SeatInv, Seat, Unresolved
    <3>3. \A v \in User \ {u} : SeatInv("PlayerTurn", s[v], betTask'[v], dblTask'[v], stake'[v])
        BY <1>0, <2>0, <2>2, <3>1 DEF TableInv
    <3> QED
        BY <2>2, <3>1, <3>2, <3>3, AdvanceInv
  <2>3. CASE seat' = [seat EXCEPT ![u].leave = TRUE] /\ UNCHANGED phase
    <3>1. /\ seat'[u] = [seat[u] EXCEPT !.leave = TRUE]
          /\ \A v \in User \ {u} : seat'[v] = seat[v]
        BY <1>c, <2>3
    <3>2. SeatInv(phase, seat'[u], betTask'[u], dblTask'[u], stake'[u])
        BY <2>a, <2>b, <2>0, <2>1, <3>1 DEF SeatInv, Seat, Unresolved
    <3> QED
        BY <1>0, <2>0, <2>3, <3>1, <3>2, OneSeat
  <2>4. CASE /\ seat[u].bet = 0 \/ phase = "Settling"
             /\ seat' = [seat EXCEPT ![u] = EmptySeat] /\ UNCHANGED phase
    <3>1. /\ seat'[u] = EmptySeat
          /\ \A v \in User \ {u} : seat'[v] = seat[v]
        BY <1>c, <2>4
    <3>2. stake[u] = 0
        BY <2>a, <2>b, <2>1, <2>4 DEF SeatInv, Unresolved
    <3>3. SeatInv(phase, seat'[u], betTask'[u], dblTask'[u], stake'[u])
        BY <2>0, <2>1, <3>1, <3>2 DEF SeatInv, Unresolved, EmptySeat
    <3> QED
        BY <1>0, <2>0, <2>4, <3>1, <3>3, OneSeat
  <2> QED
      BY <1>2, <2>2, <2>3, <2>4 DEF KickInactive
<1>3. ASSUME NEW id \in capTasks, AutoDeal(id)
      PROVE  TableInv'
  <2>1. UNCHANGED <<betTask, dblTask>>
      BY <1>3 DEF AutoDeal
  <2>2. CASE phase = "Betting" /\ StartRound(seat, TRUE)
    <3>1. \A v \in User : SeatInv("Betting", seat[v], betTask'[v], dblTask'[v], stake[v])
        BY <1>0, <2>1, <2>2 DEF TableInv
    <3> QED
        BY <1>0, <1>c, <2>2, <3>1, StartInv
  <2>3. CASE RefuseRound
      BY <1>0, <2>1, <2>3, SameTable DEF RefuseRound
  <2>4. CASE UNCHANGED <<tableVars, stake>>
      BY <1>0, <2>1, <2>4, SameTable DEF tableVars
  <2> QED
      BY <1>3, <2>2, <2>3, <2>4 DEF AutoDeal, CapMatches
<1>4. ASSUME NEW id \in actTasks, ActionTimeout(id)
      PROVE  TableInv'
  <2>1. UNCHANGED <<betTask, dblTask, stake>>
      BY <1>4 DEF ActionTimeout
  <2>2. CASE phase = "PlayerTurn" /\ AdvanceOrFinishRound(AutoStand(seat))
    <3> DEFINE s == AutoStand(seat)
    <3>1. s \in [User -> Seat]
      <4>1. ASSUME NEW r \in Seat
            PROVE  [r EXCEPT !.stood = TRUE, !.leave = TRUE] \in Seat
          BY <4>1 DEF Seat
      <4> QED
          BY <1>c, <4>1 DEF AutoStand
    <3>2. ASSUME NEW v \in User
          PROVE  SeatInv("PlayerTurn", s[v], betTask'[v], dblTask'[v], stake'[v])
      <4>1. SeatInv("PlayerTurn", seat[v], betTask[v], dblTask[v], stake[v]) /\ seat[v] \in Seat
          BY <1>0, <1>c, <2>2 DEF TableInv
      <4>2. CASE HandActive(seat[v])
        <5>1. s[v] = [seat[v] EXCEPT !.stood = TRUE, !.leave = TRUE]
            BY <4>2 DEF AutoStand
        <5> HIDE DEF s
        <5> QED
            BY <2>1, <4>1, <4>2, <5>1 DEF SeatInv, Seat, Unresolved, HandActive
      <4>3. CASE ~HandActive(seat[v])
          BY <2>1, <4>1, <4>3 DEF AutoStand
      <4> QED
          BY <4>2, <4>3
    <3> HIDE DEF s
    <3>3. AdvanceOrFinishRound(s)
        BY <2>2 DEF s
    <3> QED
        BY <3>1, <3>2, <3>3, AdvanceInv
  <2>3. CASE UNCHANGED <<phase, seat>>
      BY <1>0, <2>1, <2>3, SameTable
  <2> QED
      BY <1>4, <2>2, <2>3 DEF ActionTimeout, ActMatches
<1>5. ASSUME NEW id \in dealerTasks, DealerStep(id)
      PROVE  TableInv'
  <2> DEFINE t == [v \in User |-> IF Unresolved(seat[v]) THEN FinishSeat(seat[v]) ELSE seat[v]]
  <2>1. UNCHANGED <<betTask, dblTask>>
      BY <1>5 DEF DealerStep
  <2>2. CASE /\ phase = "DealerTurn" /\ phase' = "Settling"
             /\ RecordSettlements(seat, t) /\ seat' = RemoveDeferred(t)
    <3> SUFFICES ASSUME NEW v \in User
                 PROVE  SeatInv(phase', seat'[v], betTask'[v], dblTask'[v], stake'[v])
        BY DEF TableInv
    <3>1. /\ SeatInv("DealerTurn", seat[v], betTask[v], dblTask[v], stake[v])
          /\ seat[v] \in Seat /\ stake[v] \in Int
        BY <1>0, <1>c, <2>2 DEF TableInv
    <3>2. betTask[v].st = "none" /\ dblTask[v].st = "none"
        BY <3>1 DEF SeatInv
    <3>3. stake[v] = IF Unresolved(seat[v]) THEN seat[v].bet ELSE 0
        BY <3>1, <3>2 DEF SeatInv, Seat
    <3>4. /\ ~Unresolved(t[v]) /\ t[v].in = seat[v].in /\ t[v].pend = seat[v].pend
          /\ t[v].dbl = seat[v].dbl /\ t[v].bet = seat[v].bet
        BY <3>1 DEF FinishSeat, Seat, Unresolved
    <3>5. stake'[v] = 0
      <4>1. CASE Unresolved(seat[v])
        <5>1. t[v].settled /\ ~seat[v].settled
            BY <3>1, <4>1 DEF FinishSeat, Seat, Unresolved
        <5> HIDE DEF t
        <5> QED
            BY <2>2, <3>1, <3>3, <4>1, <5>1 DEF RecordSettlements
      <4>2. CASE ~Unresolved(seat[v])
        <5>1. t[v] = seat[v]
            BY <4>2
        <5> HIDE DEF t
        <5> QED
            BY <2>2, <3>3, <4>2, <5>1 DEF RecordSettlements
      <4> QED
          BY <4>1, <4>2
    <3> HIDE DEF t
    <3>6. CASE seat'[v] = EmptySeat
        BY <2>1, <2>2, <3>2, <3>5, <3>6 DEF SeatInv, EmptySeat, Unresolved
    <3>7. CASE seat'[v] = t[v]
        BY <2>1, <2>2, <3>1, <3>2, <3>4, <3>5, <3>7 DEF SeatInv
    <3> QED
        BY <2>2, <3>6, <3>7 DEF RemoveDeferred
  <2>3. CASE UNCHANGED <<phase, seat, stake>>
      BY <1>0, <2>1, <2>3, SameTable
  <2> QED
      BY <1>5, <2>2, <2>3 DEF DealerStep
<1> QED
    BY <1>1, <1>2, <1>3, <1>4, <1>5 DEF TimerStep

----------------------------------------------------------------------------
(* Who drives the table *)

\* Every hand that is still played waits for the chips of its double.
AllDoubling(s) == \A u \in User : Unresolved(s[u]) /\ ~s[u].stood => s[u].dbl

BetDriven ==
  phase = "Betting" /\ HasBets(seat) => (cap.on /\ cap.id \in capTasks) \/ capLost

\* The action timeout leaves no other hand to play than the doubling ones.
PlayDriven ==
  phase = "PlayerTurn" =>
    /\ HasPlayable(seat)
    /\ (act.on /\ act.id \in actTasks) \/ dealing # {} \/ dblRefused \/ AllDoubling(seat)

DealerDriven ==
  phase = "DealerTurn" =>
    \/ dealer.sched /\ dealer.id \in dealerTasks
    \/ ~dealer.sched /\ dealing # {}

Driven == BetDriven /\ PlayDriven /\ DealerDriven

\* A seat that a step leaves without a bet, or with the bet and hand it had.
Quiet(u) ==
  \/ seat[u].bet = 0 /\ seat'[u].bet = 0
  \/ /\ seat'[u].bet = seat[u].bet /\ seat'[u].settled = seat[u].settled
     /\ seat'[u].stood = seat[u].stood
     /\ seat[u].dbl => seat'[u].dbl \/ dblRefused' \/ ActionTimed

\* A step that moves neither the phase nor a timer.
LEMMA QuietDriven ==
  ASSUME Driven, UNCHANGED <<phase, cap, act, dealer, dealing, capTasks, actTasks,
                             dealerTasks, capLost>>,
         dblRefused => dblRefused',
         phase # "Settling" => \A u \in User : Quiet(u)
  PROVE  Driven'
<1>1. BetDriven'
    BY DEF Driven, BetDriven, HasBets, Quiet
<1>2. PlayDriven'
  <2> SUFFICES ASSUME phase = "PlayerTurn"
               PROVE  /\ HasPlayable(seat)'
                      /\ \/ (act.on /\ act.id \in actTasks) \/ dealing # {}
                         \/ dblRefused' \/ AllDoubling(seat)'
      BY DEF PlayDriven
  <2>1. \A u \in User : Quiet(u)
      OBVIOUS
  <2>2. HasPlayable(seat)'
    <3>1. PICK u \in User : Unresolved(seat[u]) /\ ~seat[u].stood
        BY DEF Driven, PlayDriven, HasPlayable
    <3>2. Unresolved(seat'[u]) /\ ~seat'[u].stood
        BY <2>1, <3>1 DEF Quiet, Unresolved
    <3> QED
        BY <3>2 DEF HasPlayable, Unresolved
  <2>3. AllDoubling(seat) => AllDoubling(seat)' \/ dblRefused' \/ ActionTimed
    <3> SUFFICES ASSUME AllDoubling(seat), ~dblRefused', ~ActionTimed, NEW u \in User,
                        Unresolved(seat'[u]), ~seat'[u].stood
                 PROVE  seat'[u].dbl
        BY DEF AllDoubling, Unresolved
    <3> QED
        BY <2>1 DEF Quiet, Unresolved, AllDoubling
  <2> QED
      BY <2>2, <2>3 DEF Driven, PlayDriven, ActionTimed
<1>3. DealerDriven'
    BY DEF Driven, DealerDriven
<1> QED
    BY <1>1, <1>2, <1>3 DEF Driven

\* A round that goes on or ends.
LEMMA AdvanceDriven ==
  ASSUME TypeOK, NEW s, AdvanceOrFinishRound(s),
         (act.on /\ act.id \in actTasks') \/ dealing' # {} \/ dblRefused' \/ AllDoubling(s)
  PROVE  Driven'
<1>1. CASE /\ HasPlayable(s) /\ phase' = "PlayerTurn" /\ seat' = s
           /\ UNCHANGED <<act, dealer, dealerTasks>>
  <2>1. HasPlayable(seat)' /\ (AllDoubling(s) => AllDoubling(seat)')
      BY <1>1 DEF HasPlayable, AllDoubling, Unresolved
  <2> QED
      BY <1>1, <2>1 DEF Driven, BetDriven, PlayDriven, DealerDriven
<1>2. CASE BeginDealerTurn(TRUE)
  <2>1. /\ phase' = "DealerTurn" /\ dealer'.sched /\ dealer'.id = dealer.id + 1
        /\ dealerTasks' = dealerTasks \cup {dealer.id + 1}
      BY <1>2 DEF BeginDealerTurn
  <2> QED
      BY <2>1 DEF Driven, BetDriven, PlayDriven, DealerDriven
<1>3. CASE phase' = "Settling"
    BY <1>3 DEF Driven, BetDriven, PlayDriven, DealerDriven
<1> QED
    BY <1>1, <1>2, <1>3 DEF AdvanceOrFinishRound

\* A round that starts, its timers armed or about to be.
LEMMA StartDriven ==
  ASSUME TypeOK, NEW s, NEW armed \in BOOLEAN, StartRound(s, armed),
         armed \/ dealing' # {}
  PROVE  Driven'
<1>1. CASE BeginDealerTurn(armed)
  <2>1. /\ phase' = "DealerTurn" /\ dealer'.sched = armed /\ dealer'.id = dealer.id + 1
        /\ armed => dealerTasks' = dealerTasks \cup {dealer.id + 1}
      BY <1>1 DEF BeginDealerTurn
  <2> QED
      BY <2>1 DEF Driven, BetDriven, PlayDriven, DealerDriven
<1>2. ASSUME NEW t, seat' = t, HasPlayable(t),
             phase' = IF HasPlayable(t) THEN "PlayerTurn" ELSE "Settling",
             IF HasPlayable(t) /\ armed THEN ArmAction
                ELSE act' = [act EXCEPT !.on = FALSE] /\ UNCHANGED actTasks
      PROVE  Driven'
  <2>1. HasPlayable(seat)'
      BY <1>2 DEF HasPlayable, Unresolved
  <2>2. (act'.on /\ act'.id \in actTasks') \/ dealing' # {}
      BY <1>2 DEF ArmAction
  <2> QED
      BY <1>2, <2>1, <2>2 DEF Driven, BetDriven, PlayDriven, DealerDriven
<1>3. CASE phase' = "Settling"
    BY <1>3 DEF Driven, BetDriven, PlayDriven, DealerDriven
<1> QED
    BY <1>1, <1>2, <1>3 DEF StartRound

\* A deal that is refused while betting.
LEMMA RefuseDriven ==
  ASSUME phase = "Betting", RefuseRound
  PROVE  Driven'
<1>1. phase' = "Betting" /\ (HasBets(seat)' => capLost')
    BY DEF RefuseRound, HasBets
<1> QED
    BY <1>1 DEF Driven, BetDriven, PlayDriven, DealerDriven

\* A player's request keeps the table driven.
LEMMA UserStepDriven ==
  ASSUME Inv, Driven, NEW u \in User, UserStep(u)
  PROVE  Driven'
<1>0. TypeOK /\ seat \in [User -> Seat] /\ seat[u] \in Seat
    BY DEF Inv, TypeOK
<1>s. SeatInv(phase, seat[u], betTask[u], dblTask[u], stake[u])
    BY DEF Inv, TableInv
<1>1. CASE Sit(u)
  <2>1. ASSUME NEW v \in User PROVE Quiet(v)
      BY <1>0, <1>1 DEF Sit, Quiet, Seat
  <2> QED
      BY <1>1, <2>1, QuietDriven DEF Sit, ghostVars
<1>2. CASE LeaveSeat(u)
  <2>1. ASSUME NEW v \in User, phase # "Settling" PROVE Quiet(v)
      BY <1>0, <1>2, <2>1 DEF LeaveSeat, MayLeave, Quiet, Seat, EmptySeat
  <2> QED
      BY <1>2, <2>1, QuietDriven DEF LeaveSeat, ghostVars
<1>3. ASSUME NEW a \in Amount, PlaceBet(u, a) PROVE Driven'
  <2>1. ASSUME NEW v \in User PROVE Quiet(v)
      BY <1>0, <1>3 DEF PlaceBet, Quiet, Seat
  <2> QED
      BY <1>3, <2>1, QuietDriven DEF PlaceBet
<1>4. CASE Hit(u)
  <2> DEFINE drawn == [seat EXCEPT ![u].hand = "more"]
             lost  == [drawn EXCEPT ![u] = FinishSeat(drawn[u])]
  <2>0. /\ phase = "PlayerTurn" /\ HandActive(seat[u])
        /\ UNCHANGED <<cap, dealing, capTasks, actTasks, ghostVars>>
      BY <1>4 DEF Hit
  <2>1. CASE seat' = drawn /\ UNCHANGED <<phase, act, dealer, dealerTasks>>
    <3>1. ASSUME NEW v \in User PROVE Quiet(v)
        BY <1>0, <2>1 DEF Quiet, Seat
    <3> QED
        BY <2>0, <2>1, <3>1, QuietDriven DEF ghostVars
  <2>2. CASE AdvanceOrFinishRound(lost)
    <3>1. ~AllDoubling(seat)
        BY <2>0 DEF AllDoubling, HandActive
    <3> HIDE DEF lost
    <3> QED
        BY <1>0, <2>0, <2>2, <3>1, AdvanceDriven DEF Driven, PlayDriven, ghostVars
  <2> QED
      BY <1>4, <2>1, <2>2 DEF Hit
<1>5. CASE Stand(u)
  <2> DEFINE s == [seat EXCEPT ![u].stood = TRUE]
  <2>0. /\ phase = "PlayerTurn" /\ HandActive(seat[u]) /\ AdvanceOrFinishRound(s)
        /\ UNCHANGED <<cap, dealing, capTasks, actTasks, ghostVars>>
      BY <1>5 DEF Stand
  <2>1. ~AllDoubling(seat)
      BY <2>0 DEF AllDoubling, HandActive
  <2> HIDE DEF s
  <2> QED
      BY <1>0, <2>0, <2>1, AdvanceDriven DEF Driven, PlayDriven, ghostVars
<1>6. CASE DoubleDown(u)
  <2>1. ASSUME NEW v \in User PROVE Quiet(v)
      BY <1>0, <1>6 DEF DoubleDown, Quiet, Seat
  <2> QED
      BY <1>6, <2>1, QuietDriven DEF DoubleDown, ghostVars
<1>7. CASE Deal(u)
  <2>1. CASE StartRound(seat, FALSE) /\ dealing' = dealing \cup {u}
      BY <1>0, <2>1, StartDriven
  <2>2. CASE RefuseRound
      BY <1>7, <2>2, RefuseDriven DEF Deal
  <2> QED
      BY <1>7, <2>1, <2>2 DEF Deal
<1>8. CASE NextHand(u)
  <2>1. ASSUME NEW v \in User PROVE seat'[v].bet = 0
      BY <1>8 DEF NextHand, EmptySeat
  <2>2. phase' = "Betting" /\ ~HasBets(seat)'
    <3>1. ~HasBets(seat)'
        BY <2>1 DEF HasBets
    <3> QED
        BY <1>8, <3>1 DEF NextHand
  <2> QED
      BY <2>2 DEF Driven, BetDriven, PlayDriven, DealerDriven
<1> QED
    BY <1>1, <1>2, <1>3, <1>4, <1>5, <1>6, <1>7, <1>8 DEF UserStep
\* So does a bet or a double, at every step of its task.
LEMMA TaskStepDriven ==
  ASSUME Inv, Driven, NEW u \in User, BetStep(u) \/ DoubleStep(u)
  PROVE  Driven'
<1>0. TypeOK /\ seat \in [User -> Seat] /\ seat[u] \in Seat /\ TableInv
    BY DEF Inv, TypeOK
<1>s. SeatInv(phase, seat[u], betTask[u], dblTask[u], stake[u])
    BY DEF Inv, TableInv
<1>1. CASE DebitBet(u) \/ DebitDouble(u)
  <2>1. UNCHANGED <<tableVars, timerVars, ghostVars>>
      BY <1>1 DEF DebitBet, DebitDouble, Debit
  <2>2. ASSUME NEW v \in User PROVE Quiet(v)
      BY <2>1 DEF Quiet, tableVars
  <2> QED
      BY <2>1, <2>2, QuietDriven DEF tableVars, timerVars, ghostVars
<1>2. CASE LandBet(u)
  <2> DEFINE b == IF seat[u].pend > 0 THEN seat[u].pend ELSE betTask[u].amt
             s == [seat EXCEPT ![u].pend = 0, ![u].bet = b, ![u].missed = 0]
  <2>1. phase = "Betting" /\ seat[u].in
      BY <1>2, <1>s DEF LandBet, SeatInv
  <2>2. CASE StartRound(s, TRUE)
    <3> HIDE DEF s
    <3> QED
        BY <1>0, <2>2, StartDriven
  <2>3. CASE EnsureBettingCountdown /\ UNCHANGED <<phase, act, dealer, actTasks, dealerTasks>>
    <3>1. cap'.on /\ cap'.id \in capTasks' /\ phase' = "Betting"
        BY <2>1, <2>3 DEF EnsureBettingCountdown
    <3> QED
        BY <3>1 DEF Driven, BetDriven, PlayDriven, DealerDriven
  <2> QED
      BY <1>2, <2>1, <2>2, <2>3 DEF LandBet
<1>3. CASE RejectBet(u)
  <2>1. ASSUME NEW v \in User PROVE Quiet(v)
      BY <1>0, <1>3 DEF RejectBet, Quiet, Seat
  <2> QED
      BY <1>3, <2>1, QuietDriven DEF RejectBet, ghostVars, timerVars
<1>4. CASE LandDouble(u)
  <2> DEFINE drawn == [seat EXCEPT ![u].dbl = FALSE, ![u].bet = 2 * @, ![u].hand = "more"]
             lost  == [drawn EXCEPT ![u] = FinishSeat(drawn[u])]
             stand == [drawn EXCEPT ![u].stood = TRUE]
  <2>1. phase = "PlayerTurn" /\ DoubleStands(u)
      BY <1>4, <1>s DEF LandDouble, SeatInv, DoubleStands
  <2>2. UNCHANGED <<cap, dealing, capTasks, actTasks, ghostVars>>
      BY <1>4 DEF LandDouble
  <2>3. \A v \in User \ {u} : lost[v] = seat[v] /\ stand[v] = seat[v]
      BY <1>0
  <2>4. lost[u].settled /\ stand[u].stood
      BY <1>0 DEF FinishSeat, Seat
  <2> HIDE DEF lost, stand
  <2>5. AllDoubling(seat) => AllDoubling(lost) /\ AllDoubling(stand)
      BY <2>3, <2>4 DEF AllDoubling, Unresolved
  <2>6. CASE AdvanceOrFinishRound(lost)
      BY <1>0, <2>1, <2>2, <2>5, <2>6, AdvanceDriven DEF Driven, PlayDriven, ghostVars
  <2>7. CASE AdvanceOrFinishRound(stand)
      BY <1>0, <2>1, <2>2, <2>5, <2>7, AdvanceDriven DEF Driven, PlayDriven, ghostVars
  <2> QED
      BY <1>4, <2>1, <2>6, <2>7 DEF LandDouble, lost, stand
<1>5. CASE RejectDouble(u)
  <2>1. ASSUME NEW v \in User PROVE Quiet(v)
      BY <1>0, <1>5 DEF RejectDouble, Quiet, Seat
  <2> QED
      BY <1>5, <2>1, QuietDriven DEF RejectDouble, timerVars
<1> QED
    BY <1>1, <1>2, <1>3, <1>4, <1>5 DEF BetStep, DoubleStep

\* So do the timers, a timer of an older round included.
LEMMA TimerStepDriven ==
  ASSUME Inv, Driven, TimerStep \/ \E u \in User : DealFollowUp(u) \/ KickInactive(u)
  PROVE  Driven'
<1>0. TypeOK /\ seat \in [User -> Seat]
    BY DEF Inv, TypeOK
<1>1. ASSUME NEW u \in User, DealFollowUp(u)
      PROVE  Driven'
  <2>1. UNCHANGED <<phase, seat, cap, capTasks, ghostVars>>
      BY <1>1 DEF DealFollowUp
  <2>2. BetDriven'
      BY <2>1 DEF Driven, BetDriven, HasBets, ghostVars
  <2>3. PlayDriven'
    <3> SUFFICES ASSUME phase = "PlayerTurn"
                 PROVE  HasPlayable(seat)' /\ act'.on /\ act'.id \in actTasks'
        BY <2>1 DEF PlayDriven
    <3>1. act'.on /\ act'.id \in actTasks'
        BY <1>1 DEF DealFollowUp, ArmAction
    <3>2. HasPlayable(seat)'
        BY <2>1 DEF Driven, PlayDriven, HasPlayable, Unresolved
    <3> QED
        BY <3>1, <3>2
  <2>4. DealerDriven'
    <3> SUFFICES ASSUME phase = "DealerTurn"
                 PROVE  dealer'.sched /\ dealer'.id \in dealerTasks'
        BY <2>1 DEF DealerDriven
    <3>1. CASE dealer.sched
      <4>1. UNCHANGED <<dealer, dealerTasks>>
          BY <1>1, <3>1 DEF DealFollowUp, DealerUnscheduled
      <4> QED
          BY <3>1, <4>1 DEF Driven, DealerDriven
    <3>2. CASE ~dealer.sched
      <4>1. /\ dealer' = [dealer EXCEPT !.sched = TRUE]
            /\ dealerTasks' = dealerTasks \cup {dealer.id}
          BY <1>1, <3>2 DEF DealFollowUp, DealerUnscheduled
      <4> QED
          BY <1>0, <4>1 DEF TypeOK
    <3> QED
        BY <3>1, <3>2
  <2> QED
      BY <2>2, <2>3, <2>4 DEF Driven
<1>2. ASSUME NEW u \in User, KickInactive(u)
      PROVE  Driven'
  <2> DEFINE s == [seat EXCEPT ![u].stood = TRUE, ![u].leave = TRUE]
  <2>0. /\ UNCHANGED <<cap, dealing, capTasks, actTasks, ghostVars>> /\ ~KickRefused(seat[u])
        /\ seat[u] \in Seat
      BY <1>0, <1>2 DEF KickInactive
  <2>1. CASE phase = "PlayerTurn" /\ AdvanceOrFinishRound(s)
    <3>1. /\ s[u].stood /\ \A v \in User \ {u} : s[v] = seat[v]
        BY <1>0 DEF Seat
    <3> HIDE DEF s
    <3>2. AllDoubling(seat) => AllDoubling(s)
        BY <3>1 DEF AllDoubling
    <3> QED
        BY <1>0, <2>0, <2>1, <3>2, AdvanceDriven DEF Driven, PlayDriven, ghostVars
  <2>2. CASE /\ seat' = [seat EXCEPT ![u].leave = TRUE]
             /\ UNCHANGED <<phase, act, dealer, dealerTasks>>
    <3>1. ASSUME NEW v \in User PROVE Quiet(v)
        BY <1>0, <2>2 DEF Quiet, Seat
    <3> QED
        BY <2>0, <2>2, <3>1, QuietDriven DEF ghostVars
  <2>3. CASE /\ seat[u].bet = 0 \/ phase = "Settling"
             /\ seat' = [seat EXCEPT ![u] = EmptySeat]
             /\ UNCHANGED <<phase, act, dealer, dealerTasks>>
    <3>1. ASSUME NEW v \in User, phase # "Settling" PROVE Quiet(v)
        BY <1>0, <2>3, <3>1 DEF Quiet, Seat, EmptySeat
    <3> QED
        BY <2>0, <2>3, <3>1, QuietDriven DEF ghostVars
  <2> QED
      BY <1>2, <2>1, <2>2, <2>3 DEF KickInactive
<1>3. ASSUME NEW id \in capTasks, AutoDeal(id)
      PROVE  Driven'
  <2>1. CASE StartRound(seat, TRUE)
      BY <1>0, <2>1, StartDriven
  <2>2. CASE CapMatches(id) /\ RefuseRound
      BY <2>2, RefuseDriven DEF CapMatches
  <2>3. CASE /\ ~CapMatches(id)
             /\ UNCHANGED <<tableVars, actTasks, dealerTasks, capLost, dblRefused>>
    <3>1. capTasks' = capTasks \ {id} /\ UNCHANGED dealing
        BY <1>3 DEF AutoDeal
    <3>2. BetDriven'
        BY <2>3, <3>1 DEF Driven, BetDriven, HasBets, CapMatches, tableVars
    <3>3. PlayDriven'
        BY <2>3, <3>1 DEF Driven, PlayDriven, HasPlayable, AllDoubling, Unresolved, tableVars
    <3>4. DealerDriven'
        BY <2>3, <3>1 DEF Driven, DealerDriven, tableVars
    <3> QED
        BY <3>2, <3>3, <3>4 DEF Driven
  <2> QED
      BY <1>3, <2>1, <2>2, <2>3 DEF AutoDeal
<1>4. ASSUME NEW id \in actTasks, ActionTimeout(id)
      PROVE  Driven'
  <2>0. /\ actTasks' = actTasks \ {id}
        /\ UNCHANGED <<cap, dealing, capTasks, ghostVars>>
      BY <1>4 DEF ActionTimeout
  <2>1. CASE AdvanceOrFinishRound(AutoStand(seat))
    <3>1. ASSUME NEW u \in User, ~AutoStand(seat)[u].stood, Unresolved(AutoStand(seat)[u])
          PROVE  AutoStand(seat)[u].dbl
        BY <1>0, <3>1 DEF AutoStand, HandActive, Unresolved, Seat
    <3>2. AllDoubling(AutoStand(seat))
        BY <3>1 DEF AllDoubling
    <3> QED
        BY <1>0, <2>1, <3>2, AdvanceDriven
  <2>2. CASE ~ActMatches(id) /\ UNCHANGED <<phase, seat, act, dealer, dealerTasks>>
    <3>1. BetDriven'
        BY <2>0, <2>2 DEF Driven, BetDriven, HasBets, ghostVars
    <3>2. PlayDriven'
        BY <2>0, <2>2 DEF Driven, PlayDriven, HasPlayable, AllDoubling, Unresolved,
           ActMatches, ghostVars
    <3>3. DealerDriven'
        BY <2>0, <2>2 DEF Driven, DealerDriven
    <3> QED
        BY <3>1, <3>2, <3>3 DEF Driven
  <2> QED
      BY <1>4, <2>1, <2>2 DEF ActionTimeout
<1>5. ASSUME NEW id \in dealerTasks, DealerStep(id)
      PROVE  Driven'
  <2>0. /\ dealerTasks' = dealerTasks \ {id}
        /\ UNCHANGED <<cap, act, dealing, capTasks, actTasks, ghostVars>>
      BY <1>5 DEF DealerStep
  <2>1. CASE phase' = "Settling"
      BY <2>1 DEF Driven, BetDriven, PlayDriven, DealerDriven
  <2>2. CASE ~(phase = "DealerTurn" /\ dealer.id = id) /\ UNCHANGED <<phase, seat, dealer>>
    <3>1. BetDriven'
        BY <2>0, <2>2 DEF Driven, BetDriven, HasBets, ghostVars
    <3>2. PlayDriven'
        BY <2>0, <2>2 DEF Driven, PlayDriven, HasPlayable, AllDoubling, Unresolved, ghostVars
    <3>3. DealerDriven'
        BY <2>0, <2>2 DEF Driven, DealerDriven
    <3> QED
        BY <3>1, <3>2, <3>3 DEF Driven
  <2> QED
      BY <1>5, <2>1, <2>2 DEF DealerStep
<1> QED
    BY <1>1, <1>2, <1>3, <1>4, <1>5 DEF TimerStep

\* Every step keeps the table driven.
LEMMA DrivenStep == Inv /\ Driven /\ [Next]_vars => Driven'
<1> SUFFICES ASSUME Inv, Driven, [Next]_vars PROVE Driven'
    OBVIOUS
<1>1. CASE UNCHANGED vars
  <2>1. ASSUME NEW v \in User PROVE Quiet(v)
      BY <1>1 DEF Quiet, vars, tableVars
  <2> QED
      BY <1>1, <2>1, QuietDriven DEF vars, tableVars, timerVars, ghostVars
<1>2. CASE \E u \in User : UserStep(u)
    BY <1>2, UserStepDriven
<1>3. CASE \E u \in User : BetStep(u) \/ DoubleStep(u)
    BY <1>3, TaskStepDriven
<1>4. CASE TimerStep \/ \E u \in User : DealFollowUp(u) \/ KickInactive(u)
    BY <1>4, TimerStepDriven
<1> QED
    BY <1>1, <1>2, <1>3, <1>4 DEF Next

----------------------------------------------------------------------------
(* Theorems *)

\* The invariant holds at an empty table.
LEMMA InvInit == Init => Inv
<1> SUFFICES ASSUME Init
             PROVE  Inv
    OBVIOUS
<1>1. TypeOK
  <2>1. /\ seat \in [User -> Seat] /\ stake \in [User -> Int]
        /\ betTask \in [User -> Task] /\ dblTask \in [User -> Task]
      BY EmptySeatType, NoTaskType DEF Init
  <2>2. /\ cap \in [on : BOOLEAN, id : Nat] /\ act \in [on : BOOLEAN, id : Nat]
        /\ dealer \in [id : Nat, sched : BOOLEAN]
      BY DEF Init
  <2> QED
      BY <2>1, <2>2 DEF Init, TypeOK, Phases
<1>2. TableInv
  <2> SUFFICES ASSUME NEW u \in User
               PROVE  SeatInv(phase, seat[u], betTask[u], dblTask[u], stake[u])
      BY DEF TableInv
  <2>1. /\ phase = "Betting" /\ seat[u] = EmptySeat /\ betTask[u] = NoTask
        /\ dblTask[u] = NoTask /\ stake[u] = 0
      BY DEF Init
  <2> QED
      BY <2>1 DEF SeatInv, EmptySeat, NoTask, Unresolved
<1> QED
    BY <1>1, <1>2 DEF Inv

\* Every step keeps the invariant.
LEMMA InvStep == Inv /\ [Next]_vars => Inv'
<1> SUFFICES ASSUME Inv, [Next]_vars
             PROVE  Inv'
    OBVIOUS
<1>0. TypeOK /\ TableInv
    BY DEF Inv
<1>1. TypeOK'
    BY <1>0, TypeStep
<1>2. TableInv'
  <2>1. CASE UNCHANGED vars
      BY <1>0, <2>1, SameTable DEF vars, tableVars
  <2>2. CASE \E u \in User : UserStep(u)
      BY <2>2, UserStepInv
  <2>3. CASE \E u \in User : BetStep(u) \/ DoubleStep(u)
      BY <2>3, TaskStepInv
  <2>4. CASE TimerStep \/ \E u \in User : DealFollowUp(u) \/ KickInactive(u)
      BY <2>4, TimerStepInv
  <2> QED
      BY <2>1, <2>2, <2>3, <2>4 DEF Next
<1> QED
    BY <1>1, <1>2 DEF Inv

\* Every state of every table is well typed: no bet, id or stake leaves its
\* range and no seat is ever forgiven as many deals as remove it
\* (svc.rs, SharedTableState).
THEOREM Typing == Spec => []TypeOK
<1>1. Init => TypeOK
    BY InvInit DEF Inv
<1> QED
    BY <1>1, TypeStep, PTL DEF Spec

\* The seats, the tasks and the chips agree in every reachable state.
THEOREM TableInOrder == Spec => []Inv
    BY InvInit, InvStep, PTL DEF Spec

\* A bet or a double whose chips the database was asked for finds its seat as
\* it left it, whatever the timers and the other players did meanwhile
\* (svc.rs, place_bet_task and double_down_task).
THEOREM TasksSafe == Spec => []TasksFindTheirSeat
<1>1. Inv => TasksFindTheirSeat
    BY DEF Inv, TableInv, SeatInv, TasksFindTheirSeat, DoubleStands
<1> QED
    BY <1>1, TableInOrder, PTL

\* No chip is lost and none is paid out twice: what the database took and has
\* not settled is exactly what the table and the tasks hold (svc.rs, the
\* callers of debit_bet and persist_settlements).
THEOREM StakesSafe == Spec => []StakesBacked
<1>1. Inv => StakesBacked
    BY DEF Inv, TableInv, SeatInv, StakesBacked, Held
<1> QED
    BY <1>1, TableInOrder, PTL

\* Stakes never wait for nobody: while hands are open, a timer the table still
\* accepts is asleep in every phase, but for the two states the code itself
\* leaves without one (svc.rs, ensure_betting_countdown, schedule_action_timeout
\* and schedule_dealer_step).
THEOREM AlwaysDriven == Spec => []TableIsDriven
<1>1. Init => Driven
  <2>1. Init => phase = "Betting" /\ ~HasBets(seat)
      BY DEF Init, HasBets, EmptySeat
  <2> QED
      BY <2>1 DEF Driven, BetDriven, PlayDriven, DealerDriven
<1>2. Inv /\ Driven => TableIsDriven
  <2> SUFFICES ASSUME Driven PROVE TableIsDriven
      OBVIOUS
  <2>1. ASSUME HasPlayable(seat), AllDoubling(seat)
        PROVE  \E u \in User : seat[u].dbl
      BY <2>1 DEF HasPlayable, AllDoubling
  <2> QED
      BY <2>1 DEF Driven, BetDriven, PlayDriven, DealerDriven, TableIsDriven, ActionTimed
<1> QED
    BY <1>1, <1>2, InvInit, InvStep, DrivenStep, PTL DEF Spec
----------------------------------------------------------------------------
(* How rounds and stakes move *)

\* How a stake may move: up by exactly what a bet or a double asked the database
\* for, and down to nothing, when its round has left the betting phase.  No step
\* takes part of a stake, and none gives one back while bets are placed.
StakesMoveWhole ==
  [][\A u \in User :
       /\ stake'[u] > stake[u] =>
            \E t \in {betTask[u], dblTask[u]} :
               t.st = "debit" /\ stake'[u] = stake[u] + t.amt
       /\ stake'[u] < stake[u] => stake'[u] = 0 /\ phase' # "Betting"]_vars

\* A round's phases only go forward, whichever user, task or timer acts, and the
\* table takes bets again only when no chip is left on it.
Forward == {<<"Betting", "PlayerTurn">>, <<"Betting", "DealerTurn">>, <<"Betting", "Settling">>,
            <<"PlayerTurn", "DealerTurn">>, <<"PlayerTurn", "Settling">>,
            <<"DealerTurn", "Settling">>, <<"Settling", "Betting">>}
RoundsGoForward ==
  [][phase' # phase =>
       /\ <<phase, phase'>> \in Forward
       /\ phase' = "Betting" => \A u \in User : stake[u] = 0 /\ stake'[u] = 0]_vars

\* What StakesMoveWhole says of a step, for one user.
Moves(u) ==
  /\ stake'[u] > stake[u] =>
       \E t \in {betTask[u], dblTask[u]} : t.st = "debit" /\ stake'[u] = stake[u] + t.amt
  /\ stake'[u] < stake[u] => stake'[u] = 0 /\ phase' # "Betting"

\* The next seats and tasks are typed like the present ones.
LEMMA SeatTypes ==
  ASSUME TypeOK, NEW u \in User
  PROVE  /\ seat[u] \in Seat /\ seat[u].bet \in Nat /\ stake[u] \in Int
         /\ betTask[u] \in Task /\ dblTask[u] \in Task
         /\ betTask[u].amt \in Nat /\ dblTask[u].amt \in Nat
  BY DEF TypeOK, Seat, Task

\* A table that is settling holds no stake.
LEMMA SettlingIsEmpty ==
  ASSUME Inv, phase = "Settling", NEW u \in User
  PROVE  stake[u] = 0
<1>1. SeatInv(phase, seat[u], betTask[u], dblTask[u], stake[u])
    BY DEF Inv, TableInv
<1>2. betTask[u].st = "none" /\ dblTask[u].st = "none" /\ ~Unresolved(seat[u])
    BY <1>1 DEF SeatInv
<1> QED
    BY <1>1, <1>2 DEF SeatInv

\* A settlement takes the whole stake: nothing the user still owns is open.
LEMMA SettlesWhole ==
  ASSUME Inv, Inv', NEW u \in User, NEW s, NEW t, RecordSettlements(s, t),
         s[u].bet \in Nat, phase' # "Betting",
         (~s[u].settled /\ t[u].settled) => seat'[u].settled \/ seat'[u] = EmptySeat
  PROVE  Moves(u)
<1>0. stake[u] \in Int
    BY SeatTypes DEF Inv
<1>1. CASE ~s[u].settled /\ t[u].settled
  <2>1. stake'[u] = stake[u] - s[u].bet
      BY <1>1 DEF RecordSettlements
  <2>2. ~Unresolved(seat'[u])
      BY <1>1 DEF Unresolved, EmptySeat
  <2>3. SeatInv(phase', seat'[u], betTask'[u], dblTask'[u], stake'[u])
      BY DEF Inv, TableInv
  <2>4. betTask'[u].st = "none" /\ dblTask'[u].st = "none"
      BY <2>2, <2>3 DEF SeatInv
  <2>5. stake'[u] = 0
      BY <2>2, <2>3, <2>4 DEF SeatInv
  <2>6. ~(stake'[u] > stake[u])
      BY <1>0, <2>1
  <2> QED
      BY <2>5, <2>6 DEF Moves
<1>2. CASE ~(~s[u].settled /\ t[u].settled)
  <2>1. stake'[u] = stake[u]
      BY <1>2 DEF RecordSettlements
  <2> QED
      BY <1>0, <2>1 DEF Moves
<1> QED
    BY <1>1, <1>2

\* A step that leaves the stakes alone.
LEMMA StillMoves ==
  ASSUME Inv, NEW u \in User, stake' = stake
  PROVE  Moves(u)
<1>1. stake[u] \in Int /\ stake'[u] = stake[u]
    BY SeatTypes DEF Inv
<1> QED
    BY <1>1 DEF Moves

\* A debit adds what its task asked for.
LEMMA DebitMoves ==
  ASSUME Inv, NEW u \in User, NEW v \in User, NEW task \in {betTask[v], dblTask[v]},
         NEW st, Debit(v, task, st)
  PROVE  Moves(u)
<1>0. stake[u] \in Int /\ stake \in [User -> Int] /\ task.amt \in Nat
    BY SeatTypes DEF Inv, TypeOK
<1>1. CASE u = v /\ stake' = [stake EXCEPT ![v] = @ + task.amt]
  <2>1. stake'[u] = stake[u] + task.amt /\ task.st = "debit"
      BY <1>0, <1>1 DEF Debit
  <2> QED
      BY <1>0, <1>1, <2>1 DEF Moves
<1>2. CASE stake'[u] = stake[u]
    BY <1>0, <1>2 DEF Moves
<1> QED
    BY <1>0, <1>1, <1>2 DEF Debit

\* Where a deal and advance_or_finish_round leave the round.
LEMMA PhaseAfter ==
  ASSUME NEW s, AdvanceOrFinishRound(s) \/ \E armed \in BOOLEAN : StartRound(s, armed)
  PROVE  phase' \in {"PlayerTurn", "DealerTurn", "Settling"}
  BY DEF AdvanceOrFinishRound, BeginDealerTurn, StartRound

\* The deal settles the naturals it finds, each of them whole.
LEMMA StartMoves ==
  ASSUME Inv, Inv', NEW u \in User, NEW s \in [User -> Seat], NEW armed,
         StartRound(s, armed)
  PROVE  Moves(u)
<1>1. CASE BeginDealerTurn(armed) /\ stake' = stake
    BY <1>1, StillMoves
<1>2. ASSUME NEW N \in SUBSET {v \in User : s[v].bet > 0}, NEW d, NEW t,
             d = Dealt(s), seat' = t, RecordSettlements(d, t),
             phase' = IF HasPlayable(t) THEN "PlayerTurn" ELSE "Settling"
      PROVE  Moves(u)
  <2>1. d[u].bet \in Nat
      BY <1>2, DealtType DEF Seat
  <2>2. phase' # "Betting"
      BY <1>2
  <2> QED
      BY <1>2, <2>1, <2>2, SettlesWhole
<1> QED
    BY <1>1, <1>2 DEF StartRound

\* What is settled when advance_or_finish_round is called stays settled, or its
\* seat is cleared.
LEMMA AdvanceMoves ==
  ASSUME NEW s, AdvanceOrFinishRound(s), NEW u \in User
  PROVE  s[u].settled => seat'[u].settled \/ seat'[u] = EmptySeat
  BY DEF AdvanceOrFinishRound, BeginDealerTurn, RemoveDeferred

\* What a step of a user or of a deal's second section does.
LEMMA UserMoves ==
  ASSUME Inv, Inv', NEW u \in User, NEW v \in User, UserStep(v) \/ DealFollowUp(v)
  PROVE  /\ Moves(u)
         /\ phase' # phase => <<phase, phase'>> \in Forward
         /\ phase' = "Betting" => phase \in {"Betting", "Settling"}
         /\ phase' = "Betting" => stake' = stake
<1>0. seat \in [User -> Seat] /\ seat[u] \in Seat /\ seat[v] \in Seat
    BY SeatTypes DEF Inv, TypeOK
<1>1. CASE Sit(v) \/ LeaveSeat(v) \/ DoubleDown(v) \/ DealFollowUp(v)
           \/ \E a \in Amount : PlaceBet(v, a)
  <2>1. stake' = stake /\ phase' = phase
      BY <1>1 DEF Sit, LeaveSeat, DoubleDown, DealFollowUp, PlaceBet
  <2> QED
      BY <2>1, StillMoves
<1>2. CASE Hit(v)
  <2> DEFINE drawn == [seat EXCEPT ![v].hand = "more"]
             lost  == [drawn EXCEPT ![v] = FinishSeat(drawn[v])]
  <2>1. phase = "PlayerTurn"
      BY <1>2 DEF Hit
  <2>2. CASE stake' = stake /\ phase' = phase
      BY <2>2, StillMoves
  <2>3. CASE RecordSettlements(seat, lost) /\ AdvanceOrFinishRound(lost)
    <3> HIDE DEF lost
    <3>1. phase' \in {"PlayerTurn", "DealerTurn", "Settling"}
        BY <2>3, PhaseAfter
    <3>2. lost[u].settled => seat'[u].settled \/ seat'[u] = EmptySeat
        BY <2>3, AdvanceMoves
    <3>3. seat[u].bet \in Nat
        BY <1>0 DEF Seat
    <3>4. Moves(u)
        BY <2>3, <3>1, <3>2, <3>3, SettlesWhole
    <3> QED
        BY <2>1, <3>1, <3>4 DEF Forward
  <2> QED
      BY <1>2, <2>2, <2>3 DEF Hit
<1>3. CASE Stand(v)
  <2>1. phase = "PlayerTurn" /\ stake' = stake
        /\ AdvanceOrFinishRound([seat EXCEPT ![v].stood = TRUE])
      BY <1>3 DEF Stand
  <2>2. phase' \in {"PlayerTurn", "DealerTurn", "Settling"}
      BY <2>1, PhaseAfter
  <2> QED
      BY <2>1, <2>2, StillMoves DEF Forward
<1>4. CASE Deal(v)
  <2>1. phase = "Betting"
      BY <1>4 DEF Deal
  <2>2. CASE StartRound(seat, FALSE)
      BY <1>0, <2>1, <2>2, StartMoves, PhaseAfter DEF Forward
  <2>3. CASE RefuseRound
      BY <2>1, <2>3, StillMoves DEF RefuseRound
  <2> QED
      BY <1>4, <2>2, <2>3 DEF Deal
<1>5. CASE NextHand(v)
    BY <1>5, StillMoves DEF NextHand, Forward
<1> QED
    BY <1>1, <1>2, <1>3, <1>4, <1>5 DEF UserStep

\* What a step of a bet or of a double does.
LEMMA TaskMoves ==
  ASSUME Inv, Inv', NEW u \in User, NEW v \in User, BetStep(v) \/ DoubleStep(v)
  PROVE  /\ Moves(u)
         /\ phase' # phase => <<phase, phase'>> \in Forward /\ phase' # "Betting"
<1>0. seat \in [User -> Seat] /\ seat[u] \in Seat /\ seat[v] \in Seat
    BY SeatTypes DEF Inv, TypeOK
<1>1. CASE DebitBet(v) \/ DebitDouble(v)
  <2>1. phase' = phase
      BY <1>1 DEF DebitBet, DebitDouble, Debit, tableVars
  <2>2. Moves(u)
      BY <1>1, DebitMoves DEF DebitBet, DebitDouble
  <2> QED
      BY <2>1, <2>2
<1>2. CASE RejectBet(v) \/ RejectDouble(v)
  <2>1. stake' = stake /\ phase' = phase
      BY <1>2 DEF RejectBet, RejectDouble
  <2> QED
      BY <2>1, StillMoves
<1>3. CASE LandBet(v)
  <2> DEFINE a == betTask[v].amt
             b == IF seat[v].pend > 0 THEN seat[v].pend ELSE a
             s == [seat EXCEPT ![v].pend = 0, ![v].bet = b, ![v].missed = 0]
  <2>1. phase = "Betting"
    <3>1. SeatInv(phase, seat[v], betTask[v], dblTask[v], stake[v])
        BY DEF Inv, TableInv
    <3> QED
        BY <1>3, <3>1 DEF LandBet, SeatInv
  <2>2. s \in [User -> Seat]
    <3>1. b \in Nat
        BY <1>0, SeatTypes DEF Inv, Seat
    <3> HIDE DEF b
    <3>2. /\ s \in [User -> {s[w] : w \in User}]
          /\ s[v] = [seat[v] EXCEPT !.pend = 0, !.bet = b, !.missed = 0]
          /\ \A w \in User \ {v} : s[w] = seat[w]
        BY <1>0
    <3>3. s[v] \in Seat
        BY <1>0, <3>1, <3>2, BetSeatType
    <3> HIDE DEF s
    <3> QED
        BY <1>0, <3>2, <3>3
  <2>3. CASE StartRound(s, TRUE)
    <3> HIDE DEF s
    <3> QED
        BY <2>1, <2>2, <2>3, StartMoves, PhaseAfter DEF Forward
  <2>4. CASE stake' = stake /\ phase' = phase
      BY <2>4, StillMoves
  <2> QED
      BY <1>3, <2>3, <2>4 DEF LandBet, tableVars
<1>4. CASE LandDouble(v)
  <2> DEFINE drawn == [seat EXCEPT ![v].dbl = FALSE, ![v].bet = 2 * @, ![v].hand = "more"]
             lost  == [drawn EXCEPT ![v] = FinishSeat(drawn[v])]
  <2>1. CASE ~DoubleStands(v)
      BY <1>4, <2>1, StillMoves DEF LandDouble
  <2>2. CASE DoubleStands(v) /\ RecordSettlements(drawn, lost) /\ AdvanceOrFinishRound(lost)
    <3>1. drawn[u].bet \in Nat
        BY <1>0 DEF Seat
    <3> HIDE DEF drawn, lost
    <3>2. phase' \in {"PlayerTurn", "DealerTurn", "Settling"}
        BY <2>2, PhaseAfter
    <3>3. lost[u].settled => seat'[u].settled \/ seat'[u] = EmptySeat
        BY <2>2, AdvanceMoves
    <3>4. Moves(u)
        BY <2>2, <3>1, <3>2, <3>3, SettlesWhole
    <3> QED
        BY <2>2, <3>2, <3>4 DEF Forward, DoubleStands
  <2>3. CASE /\ DoubleStands(v) /\ stake' = stake
             /\ AdvanceOrFinishRound([drawn EXCEPT ![v].stood = TRUE])
    <3> HIDE DEF drawn
    <3>1. phase' \in {"PlayerTurn", "DealerTurn", "Settling"}
        BY <2>3, PhaseAfter
    <3> QED
        BY <2>3, <3>1, StillMoves DEF Forward, DoubleStands
  <2> QED
      BY <1>4, <2>1, <2>2, <2>3 DEF LandDouble
<1> QED
    BY <1>1, <1>2, <1>3, <1>4 DEF BetStep, DoubleStep

\* What a timer does to the stakes.
LEMMA TimerMoves ==
  ASSUME Inv, Inv', NEW u \in User, TimerStep \/ \E v \in User : KickInactive(v)
  PROVE  Moves(u)
<1>0. seat \in [User -> Seat] /\ seat[u] \in Seat
    BY SeatTypes DEF Inv, TypeOK
<1>1. ASSUME NEW id \in capTasks, AutoDeal(id) PROVE Moves(u)
  <2>1. CASE StartRound(seat, TRUE)
      BY <1>0, <2>1, StartMoves
  <2>2. CASE stake' = stake
      BY <2>2, StillMoves
  <2> QED
      BY <1>1, <2>1, <2>2 DEF AutoDeal, RefuseRound
<1>2. ASSUME NEW id \in dealerTasks, DealerStep(id) PROVE Moves(u)
  <2> DEFINE t == [v \in User |-> IF Unresolved(seat[v]) THEN FinishSeat(seat[v]) ELSE seat[v]]
  <2>1. CASE phase' = "Settling" /\ RecordSettlements(seat, t) /\ seat' = RemoveDeferred(t)
    <3>1. t[u].settled => seat'[u].settled \/ seat'[u] = EmptySeat
        BY <2>1 DEF RemoveDeferred
    <3>2. seat[u].bet \in Nat
        BY <1>0 DEF Seat
    <3> HIDE DEF t
    <3> QED
        BY <2>1, <3>1, <3>2, SettlesWhole
  <2>2. CASE stake' = stake
      BY <2>2, StillMoves
  <2> QED
      BY <1>2, <2>1, <2>2 DEF DealerStep
<1>3. CASE \/ \E id \in actTasks : ActionTimeout(id)
           \/ \E v \in User : KickInactive(v)
    BY <1>3, StillMoves DEF ActionTimeout, KickInactive
<1> QED
    BY <1>1, <1>2, <1>3 DEF TimerStep

\* What a timer does to the phase.
LEMMA TimerPhases ==
  ASSUME TimerStep \/ \E v \in User : KickInactive(v), phase' # phase
  PROVE  <<phase, phase'>> \in Forward /\ phase' # "Betting"
<1>1. ASSUME NEW id \in capTasks, AutoDeal(id)
      PROVE  phase = "Betting" /\ phase' \in {"PlayerTurn", "DealerTurn", "Settling"}
  <2>1. CapMatches(id) /\ StartRound(seat, TRUE)
      BY <1>1 DEF AutoDeal, RefuseRound, tableVars
  <2> QED
      BY <2>1, PhaseAfter DEF CapMatches
<1>2. ASSUME NEW id \in actTasks, ActionTimeout(id)
      PROVE  phase = "PlayerTurn" /\ phase' \in {"PlayerTurn", "DealerTurn", "Settling"}
  <2>1. ActMatches(id) /\ AdvanceOrFinishRound(AutoStand(seat))
      BY <1>2 DEF ActionTimeout
  <2> QED
      BY <2>1, PhaseAfter DEF ActMatches
<1>3. ASSUME NEW id \in dealerTasks, DealerStep(id)
      PROVE  phase = "DealerTurn" /\ phase' = "Settling"
    BY <1>3 DEF DealerStep
<1>4. ASSUME NEW v \in User, KickInactive(v)
      PROVE  phase = "PlayerTurn" /\ phase' \in {"PlayerTurn", "DealerTurn", "Settling"}
  <2>1. /\ phase = "PlayerTurn"
        /\ AdvanceOrFinishRound([seat EXCEPT ![v].stood = TRUE, ![v].leave = TRUE])
      BY <1>4 DEF KickInactive
  <2> QED
      BY <2>1, PhaseAfter
<1> QED
    BY <1>1, <1>2, <1>3, <1>4 DEF TimerStep, Forward

\* No chip comes or goes in part, and none leaves while bets are placed: the
\* stepwise half of StakesSafe.
THEOREM StakesMove == Spec => StakesMoveWhole
<1>1. Inv /\ Inv' /\ [Next]_vars => [\A u \in User : Moves(u)]_vars
    BY UserMoves, TaskMoves, TimerMoves DEF Next
<1>2. (\A u \in User : Moves(u)) <=>
        \A u \in User :
          /\ stake'[u] > stake[u] =>
               \E t \in {betTask[u], dblTask[u]} :
                  t.st = "debit" /\ stake'[u] = stake[u] + t.amt
          /\ stake'[u] < stake[u] => stake'[u] = 0 /\ phase' # "Betting"
    BY DEF Moves
<1>3. Inv /\ Inv' /\ [Next]_vars =>
        [\A u \in User :
          /\ stake'[u] > stake[u] =>
               \E t \in {betTask[u], dblTask[u]} :
                  t.st = "debit" /\ stake'[u] = stake[u] + t.amt
          /\ stake'[u] < stake[u] => stake'[u] = 0 /\ phase' # "Betting"]_vars
    BY <1>1, <1>2
<1> QED
    BY <1>3, TableInOrder, PTL DEF Spec, StakesMoveWhole

\* Nobody, and no stale timer, takes a round back or starts the next one over
\* open stakes: the safety half of StakeIsSettled, with AlwaysDriven.
THEOREM RoundsForward == Spec => RoundsGoForward
<1>1. Inv /\ Inv' /\ [Next]_vars =>
        [phase' # phase =>
          /\ <<phase, phase'>> \in Forward
          /\ phase' = "Betting" => \A u \in User : stake[u] = 0 /\ stake'[u] = 0]_vars
  <2> SUFFICES ASSUME Inv, Inv', Next, phase' # phase
               PROVE  /\ <<phase, phase'>> \in Forward
                      /\ phase' = "Betting" => \A u \in User : stake[u] = 0 /\ stake'[u] = 0
      OBVIOUS
  <2>1. /\ <<phase, phase'>> \in Forward
        /\ phase' = "Betting" => phase = "Settling" /\ stake' = stake
    <3>1. ASSUME NEW v \in User, UserStep(v) \/ DealFollowUp(v)
          PROVE  /\ <<phase, phase'>> \in Forward
                 /\ phase' = "Betting" => phase = "Settling" /\ stake' = stake
        BY <3>1, UserMoves
    <3>2. ASSUME NEW v \in User, BetStep(v) \/ DoubleStep(v)
          PROVE  <<phase, phase'>> \in Forward /\ phase' # "Betting"
        BY <3>2, TaskMoves
    <3> QED
        BY <3>1, <3>2, TimerPhases DEF Next
  <2> QED
      BY <2>1, SettlingIsEmpty
<1> QED
    BY <1>1, TableInOrder, PTL DEF Spec, RoundsGoForward
============================================================================
