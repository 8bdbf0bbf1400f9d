----------------------------- MODULE Blackjack -----------------------------
(***************************************************************************)
(* A blackjack table of late.sh: BlackjackService and SharedTableState of  *)
(* crates/late-ssh/src/app/rooms/blackjack/svc.rs.                         *)
(*                                                                         *)
(* The table is one mutex; every action below is one critical section of   *)
(* it, or one statement of the chip database between two sections.  What   *)
(* makes the service hard is that a bet and a double down give the lock up *)
(* while the database answers, and that four kinds of timer act on the     *)
(* table meanwhile.  Cards are abstracted to what the control looks at: a  *)
(* hand has two cards or more, a deal may settle it and a draw may bust    *)
(* it.  Balances are abstracted to whether a debit succeeds.  Seats are    *)
(* named by the user sitting on them.                                      *)
(***************************************************************************)
EXTENDS Integers, FiniteSets

CONSTANTS User,             \* the people at the table
          Amount,           \* the bets the table limits admit
          MaxSeats,         \* MAX_SEATS
          MaxMissedDeals,   \* MAX_MISSED_DEALS
          MaxBets           \* bound: bets placed in a behaviour

ASSUME BlackjackAssumption ==
  /\ IsFiniteSet(User)
  /\ Amount \subseteq Nat \ {0}
  /\ MaxSeats \in Nat /\ MaxMissedDeals \in Nat \ {0} /\ MaxBets \in Nat

VARIABLES
  phase,        \* table.phase
  seat,         \* table.seats, by user
  cap,          \* betting_deadline is set, and betting_countdown_id
  act,          \* action_deadline is set, and action_countdown_id
  dealer,       \* dealer_turn_id and dealer_turn_scheduled
  betTask,      \* the place_bet task of a user, past its first section
  dblTask,      \* the double_down task of a user, past its first section
  dealing,      \* users whose deal_task has yet to arm the timers
  capTasks, actTasks, dealerTasks,   \* ids the sleeping timer tasks carry
  stake,        \* ghost: chips debited for hands that are not settled
  bets,         \* ghost: bets placed so far
  capLost,      \* ghost: a refused deal took the betting deadline with it
  dblRefused    \* ghost: a double was refused in this round when no timer was left

tableVars == <<phase, seat, cap, act, dealer>>
timerVars == <<dealing, capTasks, actTasks, dealerTasks>>
ghostVars == <<bets, capLost, dblRefused>>
vars == <<tableVars, timerVars, ghostVars, betTask, dblTask, stake>>

Phases == {"Betting", "PlayerTurn", "DealerTurn", "Settling"}
TaskStates == {"none", "debit", "paid", "refused"}
Task == [st : TaskStates, amt : Nat]
NoTask == [st |-> "none", amt |-> 0]

Seat == [in : BOOLEAN, pend : Nat, bet : Nat, dbl : BOOLEAN,
         hand : {"none", "two", "more"}, stood : BOOLEAN, settled : BOOLEAN,
         missed : 0 .. (MaxMissedDeals - 1), leave : BOOLEAN]
EmptySeat == [in |-> FALSE, pend |-> 0, bet |-> 0, dbl |-> FALSE, hand |-> "none",
              stood |-> FALSE, settled |-> FALSE, missed |-> 0, leave |-> FALSE]

TypeOK ==
  /\ phase \in Phases
  /\ seat \in [User -> Seat]
  /\ cap \in [on : BOOLEAN, id : Nat] /\ act \in [on : BOOLEAN, id : Nat]
  /\ dealer \in [id : Nat, sched : BOOLEAN]
  /\ stake \in [User -> Int]
  /\ betTask \in [User -> Task] /\ dblTask \in [User -> Task]
  /\ dealing \subseteq User
  /\ capTasks \subseteq Nat /\ actTasks \subseteq Nat /\ dealerTasks \subseteq Nat
  /\ bets \in Nat /\ capLost \in BOOLEAN /\ dblRefused \in BOOLEAN

Init ==
  /\ phase = "Betting" /\ seat = [u \in User |-> EmptySeat]
  /\ cap = [on |-> FALSE, id |-> 0] /\ act = [on |-> FALSE, id |-> 0]
  /\ dealer = [id |-> 0, sched |-> FALSE]
  /\ stake = [u \in User |-> 0]
  /\ betTask = [u \in User |-> NoTask] /\ dblTask = [u \in User |-> NoTask]
  /\ dealing = {}
  /\ capTasks = {} /\ actTasks = {} /\ dealerTasks = {}
  /\ bets = 0 /\ capLost = FALSE /\ dblRefused = FALSE

----------------------------------------------------------------------------
(* Predicates of the table *)

Unresolved(st) == st.bet > 0 /\ ~st.settled
HasPlayable(s) == \E u \in User : Unresolved(s[u]) /\ ~s[u].stood
HasPendingBets(s) == \E u \in User : s[u].pend > 0
HasBets(s) == \E u \in User : s[u].bet > 0
AllSeatedBetsReady(s) ==
  /\ \E u \in User : s[u].in
  /\ \A u \in User : s[u].in => s[u].bet > 0 /\ s[u].pend = 0
HandActive(st) == Unresolved(st) /\ ~st.stood /\ ~st.dbl
CapMatches(id) == phase = "Betting" /\ cap.on /\ cap.id = id
ActMatches(id) == phase = "PlayerTurn" /\ act.on /\ act.id = id
\* Fault: a seat whose bet is being debited may be left.
MayLeaveFaulty(st) == phase = "Settling" \/ st.bet = 0
MayLeave(st) == phase = "Settling" \/ (st.bet = 0 /\ st.pend = 0)
KickRefused(st) == st.pend > 0 \/ st.dbl

FinishSeat(st) == [st EXCEPT !.settled = TRUE, !.stood = FALSE]

\* The settlements that turn the seats s into the seats t: each pays its user
\* out for the whole bet the seat held, so the stake is no longer owed.
RecordSettlements(s, t) ==
  stake' = [u \in User |-> IF ~s[u].settled /\ t[u].settled THEN stake[u] - s[u].bet
                                                            ELSE stake[u]]

RemoveDeferred(s) == [u \in User |-> IF s[u].leave /\ s[u].in THEN EmptySeat ELSE s[u]]

----------------------------------------------------------------------------
(* start_round, advance_or_finish_round and the timers they arm *)

ArmAction ==
  /\ act' = [on |-> TRUE, id |-> act.id + 1]
  /\ actTasks' = actTasks \cup {act.id + 1}

\* begin_dealer_turn; every caller but deal() schedules the turn at once.
BeginDealerTurn(scheduled) ==
  /\ phase' = "DealerTurn"
  /\ act' = [act EXCEPT !.on = FALSE]
  /\ dealer' = [id |-> dealer.id + 1, sched |-> scheduled]
  /\ dealerTasks' = IF scheduled THEN dealerTasks \cup {dealer.id + 1} ELSE dealerTasks

\* advance_or_finish_round on the seats s, followed by the dealer's scheduling.
AdvanceOrFinishRound(s) ==
  \/ /\ HasPlayable(s)
     /\ phase' = "PlayerTurn" /\ seat' = s
     /\ UNCHANGED <<act, dealer, dealerTasks>>
  \/ /\ ~HasPlayable(s) /\ \E u \in User : Unresolved(s[u])
     /\ seat' = s
     /\ BeginDealerTurn(TRUE)
  \/ /\ \A u \in User : ~Unresolved(s[u])
     /\ phase' = "Settling"
     /\ seat' = RemoveDeferred(s)
     /\ act' = [act EXCEPT !.on = FALSE]
     /\ dealer' = [dealer EXCEPT !.sched = FALSE]
     /\ UNCHANGED dealerTasks

\* Fault: one deal too many is forgiven.
MissedDealFaulty(st) ==
  IF st.missed >= MaxMissedDeals THEN EmptySeat ELSE [st EXCEPT !.missed = @ + 1]
MissedDeal(st) ==
  IF st.missed + 1 >= MaxMissedDeals THEN EmptySeat ELSE [st EXCEPT !.missed = @ + 1]

\* The seats after the deal.
Dealt(s) ==
  [u \in User |->
     IF ~s[u].in THEN s[u]
     ELSE IF s[u].bet = 0 THEN
        [MissedDeal(s[u]) EXCEPT !.hand = "none", !.stood = FALSE, !.settled = FALSE]
     ELSE [s[u] EXCEPT !.hand = "two", !.stood = FALSE, !.settled = FALSE, !.missed = 0]]

MayDeal(s) == ~HasPendingBets(s) /\ HasBets(s)

\* start_round on the seats s, with the scheduling that follows it at once
\* unless the caller is deal(): the dealer holds a natural, or the users in N
\* do and are settled.
StartRound(s, armed) ==
  /\ MayDeal(s)
  /\ cap' = [cap EXCEPT !.on = FALSE]
  /\ capLost' = FALSE /\ dblRefused' = FALSE
  /\ \/ /\ seat' = Dealt(s)
        /\ BeginDealerTurn(armed)
        /\ UNCHANGED <<stake, actTasks>>
     \/ \E N \in SUBSET {u \in User : s[u].bet > 0} :
          LET d == Dealt(s)
              t == [u \in User |-> IF u \in N THEN FinishSeat(d[u]) ELSE d[u]]
          IN /\ seat' = t
             /\ RecordSettlements(d, t)
             /\ phase' = IF HasPlayable(t) THEN "PlayerTurn" ELSE "Settling"
             /\ IF HasPlayable(t) /\ armed THEN ArmAction
                ELSE act' = [act EXCEPT !.on = FALSE] /\ UNCHANGED actTasks
             /\ UNCHANGED <<dealer, dealerTasks>>

\* start_round refusing: both deadlines are cleared before the checks.
RefuseRound ==
  /\ ~MayDeal(seat)
  /\ cap' = [cap EXCEPT !.on = FALSE]
  /\ act' = [act EXCEPT !.on = FALSE]
  /\ capLost' = (capLost \/ HasBets(seat))
  /\ UNCHANGED <<phase, seat, dealer, actTasks, dealerTasks, stake, dblRefused>>

----------------------------------------------------------------------------
(* What a user asks for *)

Sit(u) ==
  /\ ~seat[u].in
  /\ Cardinality({v \in User : seat[v].in}) < MaxSeats
  /\ seat' = [seat EXCEPT ![u].in = TRUE]
  /\ UNCHANGED <<phase, cap, act, dealer, dealing, capTasks, actTasks, dealerTasks,
                 ghostVars, betTask, dblTask, stake>>

LeaveSeat(u) ==
  /\ seat[u].in
  /\ MayLeave(seat[u])
  /\ seat' = [seat EXCEPT ![u] = EmptySeat]
  /\ UNCHANGED <<phase, cap, act, dealer, dealing, capTasks, actTasks, dealerTasks,
                 ghostVars, betTask, dblTask, stake>>

\* place_bet up to the database call.
PlaceBet(u, a) ==
  /\ bets < MaxBets
  /\ seat[u].in /\ phase = "Betting"
  /\ seat[u].bet = 0 /\ seat[u].pend = 0
  /\ seat' = [seat EXCEPT ![u].pend = a]
  /\ betTask' = [betTask EXCEPT ![u] = [st |-> "debit", amt |-> a]]
  /\ bets' = bets + 1
  /\ UNCHANGED <<phase, cap, act, dealer, dealing, capTasks, actTasks, dealerTasks,
                 capLost, dblRefused, dblTask, stake>>

Hit(u) ==
  /\ phase = "PlayerTurn" /\ seat[u].in
  /\ HandActive(seat[u])
  /\ LET drawn == [seat EXCEPT ![u].hand = "more"]
         lost  == [drawn EXCEPT ![u] = FinishSeat(drawn[u])]
     IN \/ /\ seat' = drawn
           /\ UNCHANGED <<phase, act, dealer, dealerTasks, stake>>
        \/ /\ RecordSettlements(seat, lost)
           /\ AdvanceOrFinishRound(lost)
  /\ UNCHANGED <<cap, dealing, capTasks, actTasks, ghostVars, betTask, dblTask>>

Stand(u) ==
  /\ phase = "PlayerTurn" /\ seat[u].in
  /\ HandActive(seat[u])
  /\ AdvanceOrFinishRound([seat EXCEPT ![u].stood = TRUE])
  /\ UNCHANGED <<cap, dealing, capTasks, actTasks, ghostVars, betTask, dblTask, stake>>

\* double_down up to the database call.
DoubleDown(u) ==
  /\ phase = "PlayerTurn" /\ seat[u].in
  /\ HandActive(seat[u]) /\ seat[u].hand = "two"
  /\ seat' = [seat EXCEPT ![u].dbl = TRUE]
  /\ dblTask' = [dblTask EXCEPT ![u] = [st |-> "debit", amt |-> seat[u].bet]]
  /\ UNCHANGED <<phase, cap, act, dealer, dealing, capTasks, actTasks, dealerTasks,
                 ghostVars, betTask, stake>>

\* deal: the first section of deal_task.
Deal(u) ==
  /\ seat[u].in /\ phase = "Betting"
  /\ u \notin dealing
  /\ \/ /\ StartRound(seat, FALSE)
        /\ dealing' = dealing \cup {u}
     \/ /\ RefuseRound
        /\ UNCHANGED dealing
  /\ UNCHANGED <<capTasks, bets, betTask, dblTask>>

\* Fault: the test for a scheduled dealer is inverted.
DealerUnscheduledFaulty == phase = "DealerTurn" /\ dealer.sched
DealerUnscheduled == phase = "DealerTurn" /\ ~dealer.sched

\* The second section of deal_task: the timers of whatever phase it finds.
DealFollowUp(u) ==
  /\ u \in dealing
  /\ dealing' = dealing \ {u}
  /\ IF phase = "PlayerTurn" THEN ArmAction
     ELSE act' = [act EXCEPT !.on = FALSE] /\ UNCHANGED actTasks
  /\ IF DealerUnscheduled
     THEN /\ dealer' = [dealer EXCEPT !.sched = TRUE]
          /\ dealerTasks' = dealerTasks \cup {dealer.id}
     ELSE UNCHANGED <<dealer, dealerTasks>>
  /\ UNCHANGED <<phase, seat, cap, capTasks, ghostVars, betTask, dblTask, stake>>

\* reset_to_betting; clear_round keeps the seat, its missed deals and its
\* deferred leave.
NextHand(u) ==
  /\ seat[u].in /\ phase = "Settling"
  /\ phase' = "Betting"
  /\ cap' = [cap EXCEPT !.on = FALSE] /\ act' = [act EXCEPT !.on = FALSE]
  /\ seat' = [v \in User |-> [EmptySeat EXCEPT !.in = seat[v].in, !.missed = seat[v].missed,
                                               !.leave = seat[v].leave]]
  /\ UNCHANGED <<dealer, timerVars, ghostVars, betTask, dblTask, stake>>

----------------------------------------------------------------------------
(* The chip database *)

\* debit_bet for a task: the conditional UPDATE finds the chips, or finds too
\* few or fails.  st is what the task reads.
Debit(u, task, st) ==
  /\ task.st = "debit"
  /\ stake' = IF st = "paid" THEN [stake EXCEPT ![u] = @ + task.amt] ELSE stake
  /\ UNCHANGED <<tableVars, timerVars, ghostVars>>

DebitBet(u) ==
  \E st \in {"paid", "refused"} :
    /\ Debit(u, betTask[u], st)
    /\ betTask' = [betTask EXCEPT ![u].st = st]
    /\ UNCHANGED dblTask

DebitDouble(u) ==
  \E st \in {"paid", "refused"} :
    /\ Debit(u, dblTask[u], st)
    /\ dblTask' = [dblTask EXCEPT ![u].st = st]
    /\ UNCHANGED betTask

----------------------------------------------------------------------------
(* The sections that follow the database's answer *)

\* Fault: the task is spawned only for a countdown that runs already.
EnsureBettingCountdownFaulty ==
  /\ cap' = [on |-> TRUE, id |-> IF cap.on THEN cap.id ELSE cap.id + 1]
  /\ capTasks' = IF cap.on THEN capTasks \cup {cap.id} ELSE capTasks
  /\ capLost' = (capLost /\ cap.on)
EnsureBettingCountdown ==
  LET id == IF cap.on THEN cap.id ELSE cap.id + 1 IN
  /\ cap' = [on |-> TRUE, id |-> id]
  /\ capTasks' = capTasks \cup {id}
  /\ capLost' = (capLost /\ cap.on)

LandBet(u) ==
  LET a == betTask[u].amt
      b == IF seat[u].pend > 0 THEN seat[u].pend ELSE a
      s == [seat EXCEPT ![u].pend = 0, ![u].bet = b, ![u].missed = 0]
  IN
  /\ betTask[u].st = "paid"
  /\ betTask' = [betTask EXCEPT ![u] = NoTask]
  /\ \/ /\ seat[u].in /\ AllSeatedBetsReady(s)
        /\ StartRound(s, TRUE)
        /\ UNCHANGED <<bets, capTasks>>
     \/ /\ seat[u].in /\ ~AllSeatedBetsReady(s)
        /\ seat' = s
        /\ EnsureBettingCountdown
        /\ UNCHANGED <<phase, act, dealer, actTasks, dealerTasks, bets, dblRefused, stake>>
     \/ /\ ~seat[u].in
        /\ UNCHANGED <<tableVars, capTasks, actTasks, dealerTasks, ghostVars, stake>>
  /\ UNCHANGED <<dealing, dblTask>>

RejectBet(u) ==
  /\ betTask[u].st = "refused"
  /\ betTask' = [betTask EXCEPT ![u] = NoTask]
  /\ seat' = IF seat[u].in THEN [seat EXCEPT ![u].pend = 0] ELSE seat
  /\ UNCHANGED <<phase, cap, act, dealer, timerVars, ghostVars, dblTask, stake>>

\* finish_double_down accepts the double only in the state prepare left it in.
DoubleStands(u) ==
  /\ seat[u].in /\ phase = "PlayerTurn"
  /\ seat[u].dbl /\ Unresolved(seat[u]) /\ ~seat[u].stood /\ seat[u].hand = "two"

LandDouble(u) ==
  LET drawn == [seat EXCEPT ![u].dbl = FALSE, ![u].bet = 2 * @, ![u].hand = "more"]
      lost  == [drawn EXCEPT ![u] = FinishSeat(drawn[u])]
  IN
  /\ dblTask[u].st = "paid"
  /\ dblTask' = [dblTask EXCEPT ![u] = NoTask]
  /\ \/ /\ DoubleStands(u)
        /\ \/ /\ RecordSettlements(drawn, lost)
              /\ AdvanceOrFinishRound(lost)
           \/ /\ AdvanceOrFinishRound([drawn EXCEPT ![u].stood = TRUE])
              /\ UNCHANGED <<stake>>
     \/ /\ ~DoubleStands(u)
        /\ seat' = [seat EXCEPT ![u].dbl = FALSE]
        /\ UNCHANGED <<phase, act, dealer, dealerTasks, stake>>
  /\ UNCHANGED <<cap, dealing, capTasks, actTasks, ghostVars, betTask>>

\* Something is still to end the players' turn: the action timeout, or the
\* second section of a deal, which arms it.
ActionTimed == (act.on /\ act.id \in actTasks) \/ dealing # {}

RejectDouble(u) ==
  /\ dblTask[u].st = "refused"
  /\ dblTask' = [dblTask EXCEPT ![u] = NoTask]
  /\ seat' = IF seat[u].in THEN [seat EXCEPT ![u].dbl = FALSE] ELSE seat
  /\ dblRefused' = (dblRefused \/ ~ActionTimed)
  /\ UNCHANGED <<phase, cap, act, dealer, timerVars, bets, capLost, betTask, stake>>

----------------------------------------------------------------------------
(* The timers *)

\* schedule_auto_deal.  With bets pending the task sleeps on, unless the
\* deadline passes between its two readings of the clock.
AutoDeal(id) ==
  /\ id \in capTasks
  /\ capTasks' = capTasks \ {id}
  /\ \/ /\ CapMatches(id)
        /\ StartRound(seat, TRUE) \/ (RefuseRound /\ HasPendingBets(seat))
     \/ /\ ~CapMatches(id)
        /\ UNCHANGED <<tableVars, actTasks, dealerTasks, capLost, dblRefused, stake>>
  /\ UNCHANGED <<dealing, bets, betTask, dblTask>>

\* Fault: a hand whose double is being paid for is stood as well.
AutoStandFaulty(s) ==
  [u \in User |-> IF Unresolved(s[u]) /\ ~s[u].stood
                  THEN [s[u] EXCEPT !.stood = TRUE, !.leave = TRUE] ELSE s[u]]
AutoStand(s) ==
  [u \in User |-> IF HandActive(s[u]) THEN [s[u] EXCEPT !.stood = TRUE, !.leave = TRUE] ELSE s[u]]

\* schedule_action_timeout.
ActionTimeout(id) ==
  /\ id \in actTasks
  /\ actTasks' = actTasks \ {id}
  /\ \/ /\ ActMatches(id)
        /\ AdvanceOrFinishRound(AutoStand(seat))
     \/ /\ ~ActMatches(id)
        /\ UNCHANGED <<phase, seat, act, dealer, dealerTasks>>
  /\ UNCHANGED <<cap, dealing, capTasks, ghostVars, betTask, dblTask, stake>>

\* dealer_step.  Cards the dealer draws change nothing here and end; the last
\* step is finish_dealer_turn.
DealerStep(id) ==
  /\ id \in dealerTasks
  /\ dealerTasks' = dealerTasks \ {id}
  /\ \/ /\ phase = "DealerTurn" /\ dealer.id = id
        /\ LET t == [u \in User |-> IF Unresolved(seat[u]) THEN FinishSeat(seat[u]) ELSE seat[u]]
           IN /\ RecordSettlements(seat, t)
              /\ seat' = RemoveDeferred(t)
        /\ phase' = "Settling"
        /\ dealer' = [dealer EXCEPT !.sched = FALSE]
     \/ /\ ~(phase = "DealerTurn" /\ dealer.id = id)
        /\ UNCHANGED <<phase, seat, dealer, stake>>
  /\ UNCHANGED <<cap, act, dealing, capTasks, actTasks, ghostVars, betTask, dblTask>>

\* kick_inactive_user.  Every request of a seated user starts a timer, the
\* last of which may fire; a kick the code refuses changes nothing.
KickInactive(u) ==
  /\ seat[u].in /\ ~KickRefused(seat[u])
  /\ \/ /\ phase = "PlayerTurn" /\ Unresolved(seat[u])
        /\ AdvanceOrFinishRound([seat EXCEPT ![u].stood = TRUE, ![u].leave = TRUE])
     \/ /\ phase = "DealerTurn" /\ seat[u].bet > 0
        /\ seat' = [seat EXCEPT ![u].leave = TRUE]
        /\ UNCHANGED <<phase, act, dealer, dealerTasks>>
     \/ /\ seat[u].bet = 0 \/ phase = "Settling"
        /\ seat' = [seat EXCEPT ![u] = EmptySeat]
        /\ UNCHANGED <<phase, act, dealer, dealerTasks>>
  /\ UNCHANGED <<cap, dealing, capTasks, actTasks, ghostVars, betTask, dblTask, stake>>

----------------------------------------------------------------------------
UserStep(u) ==
  \/ Sit(u) \/ LeaveSeat(u)
  \/ \E a \in Amount : PlaceBet(u, a)
  \/ Hit(u) \/ Stand(u) \/ DoubleDown(u) \/ Deal(u) \/ NextHand(u)

BetStep(u) == DebitBet(u) \/ LandBet(u) \/ RejectBet(u)
DoubleStep(u) == DebitDouble(u) \/ LandDouble(u) \/ RejectDouble(u)

TimerStep ==
  \/ \E id \in capTasks : AutoDeal(id)
  \/ \E id \in actTasks : ActionTimeout(id)
  \/ \E id \in dealerTasks : DealerStep(id)

Next ==
  \/ \E u \in User : UserStep(u) \/ BetStep(u) \/ DoubleStep(u) \/ DealFollowUp(u)
                      \/ KickInactive(u)
  \/ TimerStep

Spec == Init /\ [][Next]_vars

\* Spawned tasks are polled, sleeps end and the database answers; nothing is
\* assumed of the players, nor of their inactivity timers.
FairSpec ==
  /\ Spec
  /\ \A u \in User : WF_vars(BetStep(u)) /\ WF_vars(DoubleStep(u)) /\ WF_vars(DealFollowUp(u))
  /\ WF_vars(\E id \in capTasks : AutoDeal(id))
  /\ WF_vars(\E id \in actTasks : ActionTimeout(id))
  /\ WF_vars(\E id \in dealerTasks : DealerStep(id))

----------------------------------------------------------------------------
(* Properties *)

\* place_bet and double_down look their seat up again after the database has
\* answered (svc.rs:566, 780): while a task is out its seat is still the
\* user's, still marked pending, and the table has not moved to a phase in
\* which the chips just taken would have nowhere to go; and a seat is marked
\* pending only while its task is out.
TasksFindTheirSeat ==
  \A u \in User :
    /\ betTask[u].st # "none" =>
         /\ phase = "Betting" /\ seat[u].in
         /\ seat[u].pend = betTask[u].amt /\ seat[u].bet = 0
    /\ dblTask[u].st # "none" =>
         /\ DoubleStands(u)
         /\ seat[u].bet = dblTask[u].amt
    /\ seat[u].pend > 0 => betTask[u].st # "none"
    /\ seat[u].dbl => dblTask[u].st # "none"

\* The chips the database has taken for a hand that is not settled.
Held(u) ==
  (IF Unresolved(seat[u]) THEN seat[u].bet ELSE 0)
    + (IF betTask[u].st = "paid" THEN betTask[u].amt ELSE 0)
    + (IF dblTask[u].st = "paid" THEN dblTask[u].amt ELSE 0)

\* Every chip debited is the unresolved bet of its user's seat or on its way
\* there, and every unresolved bet was debited: no kick, leave, missed deal,
\* timeout or new hand drops a stake, none is settled twice, and a doubled bet
\* was paid for twice.
StakesBacked == \A u \in User : stake[u] = Held(u)

\* A table that holds stakes is driven by a live timer: the deal cap while
\* betting, the action timeout while playing, the dealer's task after that.
\* The two exceptions the code has are a deal refused because a bet is
\* pending, which clears the cap (svc.rs:1800), and a double refused after the
\* action timeout has fired (svc.rs:2019).
TableIsDriven ==
  /\ phase = "Betting" /\ HasBets(seat) =>
       (cap.on /\ cap.id \in capTasks) \/ capLost
  /\ phase = "PlayerTurn" => ActionTimed \/ dblRefused \/ \E u \in User : seat[u].dbl
  /\ phase = "DealerTurn" =>
       \/ dealer.sched /\ dealer.id \in dealerTasks
       \/ ~dealer.sched /\ dealing # {}

\* A stake is settled without any player's help, but for the two exceptions.
StakeIsSettled ==
  \A u \in User : stake[u] > 0 ~> (stake[u] = 0 \/ capLost \/ dblRefused)
=============================================================================
