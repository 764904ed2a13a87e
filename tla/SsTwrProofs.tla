----------------------------- MODULE SsTwrProofs -----------------------------
(***************************************************************************)
(* Two-way ranging for every period of the counters, every delay and any   *)
(* number of rounds and strangers that satisfy RangingAssumption.  IInv    *)
(* follows the poll of the round: what may still come of it, and when.     *)
(***************************************************************************)
EXTENDS SsTwrRange, TLAPS

Frames == [from: {"none", "initiator", "responder", "stranger"}, at: Nat, dly: Nat, of: Nat]

IniType == [at: {"period", "acquire", "poll"}, tnow: Nat, sent: Nat, frame: Frames,
            hid: BOOLEAN, apart: BOOLEAN]
RespType == [at: {"listen", "send"}, leaves: Nat, frame: Frames,
             hid: BOOLEAN, apart: BOOLEAN]

TypeInv ==
    /\ now \in Nat /\ phase \in Phases /\ air \subseteq Frames
    /\ ini \in IniType /\ resp \in RespType
    /\ round \in Nat /\ excuse \in BOOLEAN /\ strangers \in Nat

\* The initiator holds a frame only during a round, and only the responder and
\* the initiator are on their way.  A frame is taken by the responder in time.
PlaceInv ==
    /\ ini.at = "poll" => round > 0
    /\ ini.at # "poll" => ini.frame = None
    /\ ini.frame # None => ini.frame.from \in {"responder", "stranger"}
    /\ resp.frame.from # "responder"
    /\ resp.at = "send" => resp.frame = None
    /\ resp.frame # None => resp.frame.at <= now /\ now - resp.frame.at <= MaxLag
    /\ resp.frame.from # "initiator" => resp.frame.of = 0
    /\ \A f \in air : f.from \in {"initiator", "responder"} /\ f.at >= now

ReplyOf(f, t) == /\ f.of = round /\ f.dly <= ReplyDelay
                 /\ f.at = t + 2 * Flight + AntDelay + f.dly

\* What there is of the round whose poll left at t.
RoundInv(t) ==
    /\ ini.sent = IniStamp(t)
    /\ IF ini.at = "acquire" THEN t + RoundTrip < ini.tnow ELSE t <= ini.tnow + MaxWait
    /\ ini.tnow <= now
    /\ ini.at = "acquire" => now - ini.tnow <= MaxWait
    /\ \A f \in air : f.from = "initiator" => f.of = round /\ f.at = t + Flight
    /\ \A f \in air \cup {ini.frame} : f.from = "responder" => f.of = 0 \/ ReplyOf(f, t)
    /\ resp.frame.from = "initiator" =>
          IF resp.frame.of = round THEN resp.frame.at = t + Flight
          ELSE resp.frame.of < round /\ now - resp.frame.at > ReplyDelay

\* The one frame on the air is the poll of the round, or the reply to it.
OnlyInAir(from) == \E f \in air : air = {f} /\ f.from = from /\ f.of = round

\* The stages of a round that nothing has disturbed: the poll is under way to a
\* responder that will see it, it is there, the reply is under way, it is there.
PollOut == /\ resp.at = "listen" /\ resp.frame = None /\ ~resp.apart
           /\ OnlyInAir("initiator")
PollIn == air = {} /\ resp.frame.from = "initiator" /\ resp.frame.of = round
ReplyOut == resp.frame = None /\ OnlyInAir("responder")
ReplyIn == /\ air = {} /\ resp.frame = None
           /\ ini.frame.from = "responder" /\ ini.frame.of = round

ChainInv(t) ==
    ini.at = "poll" /\ ~excuse =>
        /\ t + RoundTrip <= ini.tnow + Timeout
        /\ \/ ini.frame = None /\ ~ini.apart /\ (PollOut \/ PollIn \/ ReplyOut)
           \/ ReplyIn

OutcomeInv == NoStaleReply /\ MeasuresRange /\ TimeoutHasReason

IInv == /\ TypeInv /\ PlaceInv /\ OutcomeInv
        /\ \E t \in 0..now : RoundInv(t) /\ ChainInv(t)
----------------------------------------------------------------------------
(* Quotients and remainders *)

LEMMA Division ==
    ASSUME NEW m \in Nat, m > 0, NEW a \in Int
    PROVE  a = m * (a \div m) + (a % m)
OBVIOUS

LEMMA Types ==
    ASSUME NEW m \in Nat, m > 0, NEW a \in Int
    PROVE  a \div m \in Int /\ a % m \in 0..(m - 1)
OBVIOUS

\* Quotient and remainder, to be named apart from their operators.
LEMMA DivMod ==
    ASSUME NEW m \in Nat, m > 0, NEW a \in Int
    PROVE  \E q \in Int, r \in 0..(m - 1) : a \div m = q /\ a % m = r /\ a = m * q + r
BY Division, Types

\* The only multiple of m that is less than m away from 0.
LEMMA NoMultiple ==
    ASSUME NEW m \in Nat, m > 0, NEW d \in Int, -m < m * d, m * d < m
    PROVE  d = 0
<1>1. CASE d >= 1
  <2>1. m * d >= m BY <1>1
  <2> QED BY <2>1
<1>2. CASE d <= -1
  <2>1. m * d <= -m BY <1>2
  <2> QED BY <2>1
<1> QED BY <1>1, <1>2

LEMMA Remainder ==
    ASSUME NEW m \in Nat, m > 0, NEW k \in Int, NEW r \in 0..(m - 1)
    PROVE  (m * k + r) % m = r
<1>1. m * k \in Int /\ m * k + r \in Int OBVIOUS
<1>2. PICK q \in Int, s \in 0..(m - 1) : (m * k + r) % m = s /\ m * k + r = m * q + s
  BY <1>1, DivMod
<1>3. m * q \in Int /\ m * (k - q) = m * k - m * q BY <1>2
<1>4. m * (k - q) = s - r BY <1>1, <1>2, <1>3
<1>5. k - q = 0 BY <1>2, <1>4, NoMultiple
<1> QED BY <1>2, <1>4, <1>5

\* A number less than m is its own remainder.
LEMMA SmallRemainder ==
    ASSUME NEW m \in Nat, m > 0, NEW r \in 0..(m - 1)
    PROVE  r % m = r
OBVIOUS

\* Cut to a grain and cut again.
LEMMA Cut ==
    ASSUME NEW g \in Nat, g > 0, NEW a \in Int
    PROVE  LET c == (a \div g) * g
           IN c \in Int /\ c <= a /\ a < c + g /\ (c \div g) * g = c
<1>1. PICK q \in Int, r \in 0..(g - 1) : a \div g = q /\ a = g * q + r BY DivMod
<1>2. q * g \in Int /\ q * g = g * q OBVIOUS
<1>3. (g * q) \div g = q OBVIOUS
<1> QED BY <1>1, <1>2, <1>3

\* Two readings of a counter that does not wrap in between differ by the time
\* that has passed, if that is less than its period.
LEMMA Elapsed ==
    ASSUME NEW m \in Nat, m > 0, NEW t \in Int, NEW x \in 0..(m - 1), t % m <= (t + x) % m
    PROVE  ((t + x) % m) - (t % m) = x
<1>1. PICK q \in Int, s \in 0..(m - 1) : t % m = s /\ t = m * q + s BY DivMod
<1>2. PICK p \in Int, r \in 0..(m - 1) : (t + x) % m = r /\ t + x = m * p + r BY DivMod
<1>3. s <= r BY <1>1, <1>2
<1>4. m * p \in Int /\ m * q \in Int /\ m * (p - q) = m * p - m * q BY <1>1, <1>2
<1>5. m * (p - q) = x - (r - s) BY <1>1, <1>2, <1>4
<1>6. p - q = 0 BY <1>1, <1>2, <1>3, <1>5, NoMultiple
<1> QED BY <1>1, <1>2, <1>5, <1>6

\* The distance from one reading of a counter to the reading that is due some
\* ticks after an earlier one.
LEMMA Distance ==
    ASSUME NEW m \in Nat, m > 0, NEW t \in Int, NEW lag \in 0..(m - 1), NEW d \in 0..(m - 1)
    PROVE  ((t % m) + d - ((t + lag) % m)) % m = IF lag <= d THEN d - lag ELSE m + d - lag
<1>1. PICK q \in Int, s \in 0..(m - 1) : t % m = s /\ t = m * q + s BY DivMod
<1>2. PICK p \in Int, r \in 0..(m - 1) : (t + lag) % m = r /\ t + lag = m * p + r
  <2>1. t + lag \in Int OBVIOUS
  <2> QED BY <2>1, DivMod
<1>3. m * p \in Int /\ m * q \in Int /\ m * (p - q) = m * p - m * q BY <1>1, <1>2
<1>4. s + d - r = m * (p - q) + (d - lag) BY <1>1, <1>2, <1>3
<1>5. CASE lag <= d
  <2>1. d - lag \in 0..(m - 1) BY <1>5
  <2>2. p - q \in Int OBVIOUS
  <2>3. (m * (p - q) + (d - lag)) % m = d - lag BY <2>1, <2>2, Remainder
  <2>4. (s + d - r) % m = d - lag BY <1>4, <2>3
  <2> QED BY <1>1, <1>2, <1>5, <2>4
<1>6. CASE lag > d
  <2>1. m + d - lag \in 0..(m - 1) BY <1>6
  <2>2. m * (p - q - 1) = m * (p - q) - m BY <1>1, <1>2
  <2>3. m * (p - q) \in Int BY <1>1, <1>2
  <2>4. s + d - r = m * (p - q - 1) + (m + d - lag) BY <1>4, <2>2, <2>3
  <2>5. p - q - 1 \in Int OBVIOUS
  <2>6. (m * (p - q - 1) + (m + d - lag)) % m = m + d - lag BY <2>1, <2>5, Remainder
  <2>7. (s + d - r) % m = m + d - lag BY <2>4, <2>6
  <2> QED BY <1>1, <1>2, <1>6, <2>7
<1> QED BY <1>5, <1>6
----------------------------------------------------------------------------
(* The delay of a reply and the time at which it leaves *)

LEMMA Delays ==
    /\ StampModulus \in Nat /\ StampModulus > 0 /\ LongModulus \in Nat /\ LongModulus > StampModulus
    /\ Grain \in Nat /\ Grain > 0 /\ ReplyDelay \in Nat /\ Grain <= ReplyDelay
    /\ AntDelay \in Nat /\ Flight \in Nat /\ Timeout \in Nat /\ Period \in Nat
    /\ MaxWait \in Nat /\ MaxLag \in Nat /\ 2 * MaxLag < StampModulus
    /\ RoundTrip = 2 * Flight + ReplyDelay + AntDelay /\ RoundTrip \in Nat
    /\ MaxWait + RoundTrip < Period /\ RoundTrip < StampModulus
    /\ Phases \subseteq Nat /\ Payloads \subseteq Nat
BY RangingAssumption DEF RoundTrip

\* A reply carries a delay of at most ReplyDelay, and one that is not missed
\* leaves exactly that long (and AntDelay) after the poll came in.
LEMMA ReplyInTime ==
    ASSUME now \in Nat, phase \in Phases, NEW at \in Nat, at <= now, now - at <= MaxLag,
           NEW ts, ts = RespStamp(at), NEW dly, dly = Scheduled(ts) - ts
    PROVE  /\ dly \in Nat /\ dly <= ReplyDelay
           /\ ~Missed(Scheduled(ts)) =>
                 now - at <= dly /\ now + Ahead(Scheduled(ts)) = at + dly
<1> DEFINE c == Scheduled(ts)
<1> DEFINE lag == now - at
<1>1. phase \in Nat /\ at + phase \in Nat BY Delays
<1>2. ts = (at + phase) % StampModulus BY DEF RespStamp
<1>3. ts \in 0..(StampModulus - 1) BY <1>1, <1>2, Delays, Types
<1>4. ts + ReplyDelay \in Int BY <1>3, Delays
<1>5. /\ c \in Int /\ c <= ts + ReplyDelay /\ ts + ReplyDelay < c + Grain
      /\ (c \div Grain) * Grain = c
  BY <1>4, Cut, Delays DEF Scheduled
<1>6. dly \in Nat /\ dly <= ReplyDelay /\ c = ts + dly
  BY <1>3, <1>5, Delays
<1>7. dly \in 0..(StampModulus - 1) BY <1>6, Delays
<1>8. /\ lag \in 0..(StampModulus - 1) /\ 2 * lag < StampModulus
      /\ now + phase = (at + phase) + lag
  BY <1>1, Delays
<1>9. Ahead(c) = (c - RespStamp(now)) % StampModulus
  BY <1>5 DEF Ahead
<1>10. RespStamp(now) = ((at + phase) + lag) % StampModulus
  BY <1>8 DEF RespStamp
<1> HIDE DEF c, lag
<1>11. Ahead(c) = IF lag <= dly THEN dly - lag ELSE StampModulus + dly - lag
  <2> DEFINE t == at + phase
  <2> DEFINE r == RespStamp(now)
  <2>1. t \in Int /\ t + lag \in Int BY <1>1, <1>8
  <2>2. StampModulus \in Nat /\ StampModulus > 0 BY Delays
  <2>3. ts = t % StampModulus /\ r = (t + lag) % StampModulus BY <1>2, <1>10
  <2>4. Ahead(c) = (c - r) % StampModulus BY <1>9
  <2> HIDE DEF t, r
  <2>5. r \in Int BY <2>1, <2>2, <2>3, Types
  <2>6. ((t % StampModulus) + dly - ((t + lag) % StampModulus)) % StampModulus
           = IF lag <= dly THEN dly - lag ELSE StampModulus + dly - lag
    BY <1>7, <1>8, <2>1, <2>2, Distance
  <2>7. (ts + dly - r) % StampModulus
           = IF lag <= dly THEN dly - lag ELSE StampModulus + dly - lag
    BY <2>3, <2>6
  <2>8. c - r = ts + dly - r BY <1>3, <1>6, <2>5
  <2> QED BY <2>4, <2>7, <2>8
<1>12. Missed(c) <=> 2 * Ahead(c) >= StampModulus BY DEF Missed
<1>13. ~Missed(c) => lag <= dly
  BY <1>6, <1>7, <1>8, <1>11, <1>12, Delays
<1>14. ~Missed(c) => Ahead(c) = dly - lag
  BY <1>11, <1>13
<1> QED BY <1>6, <1>8, <1>13, <1>14 DEF c, lag
----------------------------------------------------------------------------
(* Every step keeps the round whose poll left at t, or begins one *)

Followed(t) == TypeInv /\ PlaceInv /\ t <= now /\ RoundInv(t) /\ ChainInv(t)

LEMMA NoneIsFrame == None \in Frames /\ None.from = "none" /\ None.of = 0
BY DEF None, Frame, Frames

LEMMA FrameFields ==
    ASSUME NEW f \in Frames
    PROVE  /\ f.from \in {"none", "initiator", "responder", "stranger"}
           /\ f.at \in Nat /\ f.dly \in Nat /\ f.of \in Nat
BY DEF Frames

LEMMA IniFields ==
    ASSUME TypeInv
    PROVE  /\ ini.at \in {"period", "acquire", "poll"} /\ ini.tnow \in Nat /\ ini.frame \in Frames
           /\ ini.hid \in BOOLEAN /\ ini.apart \in BOOLEAN
BY DEF TypeInv, IniType

LEMMA RespFields ==
    ASSUME TypeInv
    PROVE  /\ resp.at \in {"listen", "send"} /\ resp.leaves \in Nat /\ resp.frame \in Frames
           /\ resp.hid \in BOOLEAN /\ resp.apart \in BOOLEAN
BY DEF TypeInv, RespType

LEMMA InitFollowed ==
    ASSUME Init PROVE Followed(0) /\ OutcomeInv
<1>1. TypeInv BY NoneIsFrame, Delays DEF Init, TypeInv, IniType, RespType
<1>2. PlaceInv BY NoneIsFrame DEF Init, PlaceInv
<1>3. IniStamp(0) = 0 BY Delays, SmallRemainder DEF IniStamp
<1>4. RoundInv(0) BY <1>3, NoneIsFrame, Delays DEF Init, RoundInv
<1>5. ChainInv(0) BY DEF Init, ChainInv
<1>6. OutcomeInv
  BY DEF Init, OutcomeInv, NoStaleReply, MeasuresRange, TimeoutHasReason, Pending
<1> QED BY <1>1, <1>2, <1>4, <1>5, <1>6 DEF Followed, Init

\* The poll of the last round, its replies and what is left of an earlier poll
\* are gone or stale by the time of the next poll.
LEMMA StartRoundStep ==
    ASSUME NEW t \in Nat, Followed(t), StartRound PROVE Followed(t)'
<1> USE DEF Followed, StartRound
<1>1. TypeInv' BY DEF TypeInv, IniType
<1>2. PlaceInv' BY DEF PlaceInv
<1>3. t + RoundTrip < now
  BY IniFields, Delays DEF RoundInv, TypeInv
<1>4. /\ ini'.at = "acquire" /\ ini'.tnow = now /\ ini'.sent = ini.sent
      /\ ini'.frame = ini.frame
  BY DEF TypeInv, IniType
<1>5. RoundInv(t)'
  BY <1>3, <1>4, Delays DEF RoundInv, TypeInv, IniStamp, ReplyOf
<1>6. ChainInv(t)' BY <1>4 DEF ChainInv
<1> QED BY <1>1, <1>2, <1>5, <1>6

LEMMA SendPollStep ==
    ASSUME NEW t \in Nat, Followed(t), SendPoll PROVE Followed(now)'
<1> DEFINE poll == Frame("initiator", now + Flight, 0, round + 1)
<1>1. poll \in Frames /\ poll.from = "initiator" /\ poll.of = round + 1 /\ poll.at = now + Flight
  BY Delays DEF Followed, TypeInv, Frame, Frames
<1> HIDE DEF poll
<1>2. /\ ini' = [ini EXCEPT !.at = "poll", !.sent = IniStamp(now), !.frame = None]
      /\ round' = round + 1 /\ air' = air \cup {poll} /\ ini.at = "acquire"
      /\ UNCHANGED <<now, phase, resp, outcome, strangers>>
      /\ excuse' = \/ air # {} \/ resp.at = "send" \/ resp.frame # None
                   \/ ini.apart \/ resp.apart
                   \/ now - ini.tnow + RoundTrip > Timeout
  BY DEF SendPoll, poll
<1>3. IniStamp(now) \in Nat BY Delays, Types DEF Followed, TypeInv, IniStamp
<1>4. TypeInv'
  <2>1. air' \subseteq Frames BY <1>1, <1>2 DEF Followed, TypeInv
  <2>2. ini' \in IniType
    BY <1>2, <1>3, NoneIsFrame DEF Followed, TypeInv, IniType
  <2>3. round' \in Nat /\ excuse' \in BOOLEAN
    BY <1>2, IniFields, RespFields DEF Followed, TypeInv
  <2> QED BY <1>2, <2>1, <2>2, <2>3 DEF Followed, TypeInv
<1>5. /\ ini'.at = "poll" /\ ini'.tnow = ini.tnow /\ ini'.sent = IniStamp(now)
      /\ ini'.frame = None /\ ini'.apart = ini.apart
  BY <1>2 DEF Followed, TypeInv, IniType
<1>6. PlaceInv'
  BY <1>1, <1>2, <1>5, NoneIsFrame, Delays DEF Followed, TypeInv, PlaceInv
<1>7. t + RoundTrip < now
  BY <1>2, IniFields, Delays DEF Followed, RoundInv, TypeInv
<1>8. \A f \in air : f.from = "responder" /\ f.of = 0
  BY <1>7, FrameFields, Delays DEF Followed, TypeInv, PlaceInv, RoundInv, ReplyOf
<1>9. resp.frame.from = "initiator" =>
         resp.frame.of < round + 1 /\ now - resp.frame.at > ReplyDelay
  BY <1>7, RespFields, FrameFields, Delays DEF Followed, TypeInv, RoundInv
<1>10. RoundInv(now)'
  <2>1. IniStamp(now)' = IniStamp(now) BY <1>2 DEF IniStamp
  <2>2. ini.tnow <= now /\ now - ini.tnow <= MaxWait /\ now <= ini.tnow + MaxWait
    BY <1>2, IniFields, Delays DEF Followed, TypeInv, RoundInv
  <2> QED BY <1>1, <1>2, <1>5, <1>8, <1>9, <2>1, <2>2, NoneIsFrame, RespFields, FrameFields
          DEF Followed, TypeInv, RoundInv
<1>11. ChainInv(now)'
  <2> SUFFICES ASSUME ~excuse'
               PROVE  (now + RoundTrip <= ini.tnow + Timeout)' /\ ~ini'.apart /\ PollOut'
    BY <1>5 DEF ChainInv
  <2>1. /\ air = {} /\ resp.at # "send" /\ resp.frame = None /\ ~ini.apart /\ ~resp.apart
        /\ ~(now - ini.tnow + RoundTrip > Timeout)
    BY <1>2
  <2>2. resp.at = "listen" BY <2>1, RespFields DEF Followed
  <2>3. (now + RoundTrip <= ini.tnow + Timeout)'
    BY <1>2, <1>5, <2>1, IniFields, Delays DEF Followed, TypeInv
  <2>4. poll \in air' /\ air' = {poll} BY <1>2, <2>1
  <2>5. OnlyInAir("initiator")' BY <1>1, <1>2, <2>4 DEF OnlyInAir
  <2> QED BY <1>2, <1>5, <2>1, <2>2, <2>3, <2>5 DEF PollOut
<1> QED BY <1>2, <1>4, <1>6, <1>10, <1>11 DEF Followed, TypeInv

\* A round that times out without an excuse would have its poll or its reply
\* still on the way, more than a round trip after the poll.
LEMMA TimedOutStep ==
    ASSUME NEW t \in Nat, Followed(t), OutcomeInv, TimedOut PROVE Followed(t)' /\ OutcomeInv'
<1>1. /\ ini' = [ini EXCEPT !.at = "period", !.frame = None, !.hid = FALSE,
                            !.apart = ini.apart]
      /\ ini.at = "poll" /\ now - ini.tnow > Timeout
      /\ UNCHANGED <<now, phase, resp, air, round, excuse, strangers>>
      /\ outcome'.how = "timeout"
      /\ outcome'.excused = (excuse \/ ini.frame # None \/ resp.frame # None)
  BY DEF TimedOut, EndRound, Pending
<1>2. TypeInv' BY <1>1, NoneIsFrame, IniFields DEF Followed, TypeInv, IniType
<1>3. /\ ini'.at = "period" /\ ini'.tnow = ini.tnow /\ ini'.sent = ini.sent
      /\ ini'.frame = None
  BY <1>1 DEF Followed, TypeInv, IniType
<1>4. PlaceInv' BY <1>1, <1>3, NoneIsFrame DEF Followed, PlaceInv
<1>5. RoundInv(t)'
  BY <1>1, <1>3, NoneIsFrame DEF Followed, RoundInv, IniStamp, ReplyOf
<1>6. ChainInv(t)' BY <1>3 DEF ChainInv
<1>7. SUFFICES ASSUME ~excuse, ini.frame = None, resp.frame = None PROVE FALSE
  BY <1>1, <1>2, <1>4, <1>5, <1>6
     DEF Followed, OutcomeInv, NoStaleReply, MeasuresRange, TimeoutHasReason
<1>8. t + RoundTrip < now
  BY <1>1, <1>7, IniFields, Delays DEF Followed, TypeInv, ChainInv
<1>9. PICK f \in air : \/ f.from = "initiator"
                       \/ f.from = "responder" /\ f.of = round
  BY <1>1, <1>7, NoneIsFrame
     DEF Followed, ChainInv, PollOut, PollIn, ReplyOut, ReplyIn, OnlyInAir
<1>10. f.at >= now /\ f \in Frames /\ round > 0
  BY <1>1, <1>9 DEF Followed, TypeInv, PlaceInv
<1>11. CASE f.from = "initiator"
  <2>1. f.at = t + Flight BY <1>11, <1>9 DEF Followed, RoundInv
  <2> QED BY <1>8, <1>10, <2>1, Delays DEF Followed, TypeInv
<1>12. CASE f.from = "responder" /\ f.of = round
  <2>1. ReplyOf(f, t) BY <1>9, <1>10, <1>12 DEF Followed, RoundInv, TypeInv
  <2> QED BY <1>8, <1>10, <2>1, FrameFields, Delays DEF Followed, TypeInv, ReplyOf
<1> QED BY <1>9, <1>11, <1>12

\* What the initiator computes from a reply to the poll that left at t.
LEMMA TwiceTheFlight ==
    ASSUME NEW t \in Nat, NEW f \in Frames, ReplyOf(f, t), ini.sent = IniStamp(t),
           NEW rx, rx = IniStamp(f.at), ~(rx < ini.sent)
    PROVE  TwiceTprop((rx - ini.sent) % LongModulus, f.dly) = 2 * Flight + AntDelay
<1> DEFINE x == 2 * Flight + AntDelay + f.dly
<1> DEFINE m == StampModulus
<1>1. x \in 0..(StampModulus - 1) /\ f.at = t + x /\ f.dly \in Nat /\ f.dly <= x
  BY FrameFields, Delays DEF ReplyOf
<1>2. x - f.dly = 2 * Flight + AntDelay
  BY FrameFields, Delays
<1> HIDE DEF x
<1>3. /\ m \in Nat /\ m > 0 /\ LongModulus \in Nat /\ LongModulus > 0 /\ LongModulus > m
      /\ x \in 0..(m - 1) /\ x \in Int /\ t \in Int /\ t + x \in Int
  BY <1>1, Delays
<1>4. rx = (t + x) % m /\ ini.sent = t % m
  BY <1>1 DEF IniStamp
<1> HIDE DEF m
<1>5. rx \in Int /\ ini.sent \in Int BY <1>3, <1>4, Types
<1>6. t % m <= (t + x) % m BY <1>4, <1>5
<1>7. rx - ini.sent = x BY <1>3, <1>4, <1>6, Elapsed
<1>8. x \in 0..(LongModulus - 1) /\ (x - f.dly) \in 0..(LongModulus - 1)
  BY <1>1, <1>3
<1>9. x % LongModulus = x /\ (x - f.dly) % LongModulus = x - f.dly
  BY <1>3, <1>8, SmallRemainder
<1> QED BY <1>2, <1>7, <1>9 DEF TwiceTprop

LEMMA TakeReplyStep ==
    ASSUME NEW t \in Nat, Followed(t), OutcomeInv, TakeReply PROVE Followed(t)' /\ OutcomeInv'
<1> DEFINE f == ini.frame
<1> DEFINE rx == IniStamp(f.at)
<1>1. /\ ini' = [ini EXCEPT !.at = "period", !.frame = None, !.hid = FALSE,
                            !.apart = ~ini.apart]
      /\ ini.at = "poll"
      /\ UNCHANGED <<now, phase, resp, air, round, excuse, strangers>>
      /\ outcome'.how = f.from /\ outcome'.of = f.of /\ outcome'.round = round
      /\ outcome'.wrapped = (rx < ini.sent)
      /\ outcome'.twice = TwiceTprop((rx - ini.sent) % LongModulus, f.dly)
  BY DEF TakeReply, EndRound
<1>2. TypeInv' BY <1>1, NoneIsFrame DEF Followed, TypeInv, IniType
<1>3. /\ ini'.at = "period" /\ ini'.tnow = ini.tnow /\ ini'.sent = ini.sent
      /\ ini'.frame = None
  BY <1>1 DEF Followed, TypeInv, IniType
<1>4. PlaceInv' BY <1>1, <1>3, NoneIsFrame DEF Followed, PlaceInv
<1>5. RoundInv(t)'
  BY <1>1, <1>3, NoneIsFrame DEF Followed, RoundInv, IniStamp, ReplyOf
<1>6. ChainInv(t)' BY <1>3 DEF ChainInv
<1>7. f \in Frames /\ round > 0 /\ ini.sent = IniStamp(t)
  BY <1>1, IniFields DEF Followed, PlaceInv, RoundInv
<1>8. f.from = "responder" => f.of = 0 \/ ReplyOf(f, t)
  BY DEF Followed, RoundInv
<1> HIDE DEF f
<1>9. NoStaleReply' BY <1>1, <1>8 DEF NoStaleReply, ReplyOf
<1>10. MeasuresRange'
  <2>1. CASE f.from = "responder" /\ f.of = round /\ ~(rx < ini.sent)
    <3>1. ReplyOf(f, t) BY <1>7, <1>8, <2>1 DEF Followed, TypeInv
    <3>2. outcome'.twice = 2 * Flight + AntDelay
      BY <1>1, <1>7, <2>1, <3>1, TwiceTheFlight
    <3> QED BY <3>2 DEF MeasuresRange
  <2>2. CASE ~(f.from = "responder" /\ f.of = round /\ ~(rx < ini.sent))
    BY <1>1, <2>2 DEF MeasuresRange
  <2> QED BY <2>1, <2>2
<1>11. TimeoutHasReason' BY <1>1, <1>7, FrameFields DEF TimeoutHasReason
<1> QED BY <1>1, <1>2, <1>4, <1>5, <1>6, <1>9, <1>10, <1>11 DEF Followed, OutcomeInv

\* A poll of an earlier round is more than ReplyDelay old: its reply is missed.
LEMMA TakePollStep ==
    ASSUME NEW t \in Nat, Followed(t), TakePoll PROVE Followed(t)'
<1> DEFINE p == resp.frame
<1> DEFINE ts == RespStamp(p.at)
<1> DEFINE dly == Scheduled(ts) - ts
<1> DEFINE leaves == now + Ahead(Scheduled(ts)) + AntDelay
<1>1. /\ resp.at = "listen" /\ p # None
      /\ UNCHANGED <<now, phase, ini, round, outcome, strangers>>
  BY DEF TakePoll
<1>2. /\ p \in Frames /\ p.at \in Nat /\ p.of \in Nat /\ p.at <= now /\ now - p.at <= MaxLag
      /\ p.from # "responder" /\ (p.from # "initiator" => p.of = 0)
  BY <1>1, RespFields, FrameFields DEF Followed, PlaceInv
<1>3. now \in Nat /\ phase \in Phases BY DEF Followed, TypeInv
<1>4. CASE Missed(Scheduled(ts))
  <2>1. /\ resp' = [resp EXCEPT !.frame = None, !.hid = FALSE, !.apart = FALSE]
        /\ excuse' = TRUE /\ air' = air
    BY <1>4 DEF TakePoll
  <2>2. resp'.at = resp.at /\ resp'.frame = None
    BY <2>1 DEF Followed, TypeInv, RespType
  <2>3. TypeInv' BY <1>1, <2>1, NoneIsFrame DEF Followed, TypeInv, RespType
  <2>4. PlaceInv' BY <1>1, <2>1, <2>2, NoneIsFrame DEF Followed, PlaceInv
  <2>5. RoundInv(t)'
    BY <1>1, <2>1, <2>2, NoneIsFrame DEF Followed, RoundInv, IniStamp, ReplyOf
  <2>6. ChainInv(t)' BY <2>1 DEF ChainInv
  <2> QED BY <1>1, <2>3, <2>4, <2>5, <2>6 DEF Followed
<1>5. CASE ~Missed(Scheduled(ts))
  <2> DEFINE reply == Frame("responder", leaves + Flight, dly, p.of)
  <2>1. /\ resp' = [at |-> "send", leaves |-> leaves,
                     frame |-> None, hid |-> FALSE, apart |-> ~resp.apart]
        /\ air' = air \cup {reply} /\ excuse' = excuse
    BY <1>5 DEF TakePoll
  <2>2. /\ dly \in Nat /\ dly <= ReplyDelay
        /\ now - p.at <= dly /\ now + Ahead(Scheduled(ts)) = p.at + dly
    BY <1>2, <1>3, <1>5, ReplyInTime
  <2> HIDE DEF dly, p
  <2>3. leaves = p.at + dly + AntDelay BY <2>2
  <2>4. /\ reply.from = "responder" /\ reply.of = p.of /\ reply.dly = dly
        /\ reply.at = leaves + Flight
    BY DEF Frame
  <2> HIDE DEF leaves
  <2>5. leaves \in Nat /\ leaves >= now BY <1>2, <1>3, <2>2, <2>3, Delays
  <2>6. reply \in Frames BY <1>2, <2>2, <2>5, Delays DEF Frame, Frames
  <2>7. reply.at = p.at + dly + AntDelay + Flight /\ reply.at >= now
    BY <1>2, <1>3, <2>2, <2>3, <2>4, <2>5, Delays
  <2> HIDE DEF reply
  <2>8. resp'.at = "send" /\ resp'.frame = None BY <2>1
  <2>9. TypeInv' BY <1>1, <2>1, <2>5, <2>6, NoneIsFrame DEF Followed, TypeInv, RespType
  <2>10. PlaceInv' BY <1>1, <2>1, <2>4, <2>7, <2>8, NoneIsFrame DEF Followed, PlaceInv
  <2>11. p.from = "initiator" => p.of = round /\ p.at = t + Flight
    BY <1>2, <1>3, <2>2, Delays DEF Followed, TypeInv, RoundInv, p
  <2>12. reply.of = 0 \/ ReplyOf(reply, t)
    BY <1>2, <2>2, <2>4, <2>7, <2>11, Delays DEF ReplyOf
  <2>13. RoundInv(t)'
    BY <1>1, <2>1, <2>4, <2>8, <2>12, NoneIsFrame DEF Followed, RoundInv, IniStamp, ReplyOf
  <2>14. ChainInv(t)'
    <3> SUFFICES ASSUME ini.at = "poll", ~excuse
                 PROVE  (t + RoundTrip <= ini.tnow + Timeout)' /\ ini'.frame = None
                        /\ ~ini'.apart /\ ReplyOut'
      BY <1>1, <2>1 DEF ChainInv
    <3>1. /\ t + RoundTrip <= ini.tnow + Timeout /\ ini.frame = None /\ ~ini.apart
          /\ air = {} /\ p.from = "initiator" /\ p.of = round
      BY <1>1, NoneIsFrame DEF Followed, ChainInv, PollOut, PollIn, ReplyOut, ReplyIn, p
    <3>2. reply \in air' /\ air' = {reply} BY <2>1, <3>1
    <3>3. OnlyInAir("responder")' BY <1>1, <2>4, <3>1, <3>2 DEF OnlyInAir
    <3> QED BY <1>1, <2>8, <3>1, <3>3 DEF ReplyOut
  <2> QED BY <1>1, <2>9, <2>10, <2>13, <2>14 DEF Followed
<1> QED BY <1>4, <1>5

LEMMA SentStep ==
    ASSUME NEW t \in Nat, Followed(t), Sent PROVE Followed(t)'
<1>1. /\ resp.at = "send" /\ resp' = [resp EXCEPT !.at = "listen"]
      /\ UNCHANGED <<now, phase, ini, air, round, excuse, outcome, strangers>>
  BY DEF Sent
<1>2. resp'.at = "listen" /\ resp'.frame = resp.frame /\ resp.frame = None
  BY <1>1 DEF Followed, TypeInv, RespType, PlaceInv
<1>3. TypeInv' BY <1>1 DEF Followed, TypeInv, RespType
<1>4. PlaceInv' BY <1>1, <1>2 DEF Followed, PlaceInv
<1>5. RoundInv(t)' BY <1>1, <1>2 DEF Followed, RoundInv, IniStamp, ReplyOf
<1>6. ChainInv(t)'
  <2> SUFFICES ASSUME ini.at = "poll", ~excuse
               PROVE  /\ (t + RoundTrip <= ini.tnow + Timeout)'
                      /\ \/ ini'.frame = None /\ ~ini'.apart /\ ReplyOut'
                         \/ ReplyIn'
    BY <1>1 DEF ChainInv
  <2>1. /\ t + RoundTrip <= ini.tnow + Timeout
        /\ \/ ini.frame = None /\ ~ini.apart /\ ReplyOut
           \/ ReplyIn
    BY <1>1, <1>2, NoneIsFrame DEF Followed, ChainInv, PollOut, PollIn
  <2>2. OnlyInAir("responder")' <=> OnlyInAir("responder") BY <1>1 DEF OnlyInAir
  <2> QED BY <1>1, <1>2, <2>1, <2>2 DEF ReplyOut, ReplyIn
<1> QED BY <1>1, <1>3, <1>4, <1>5, <1>6 DEF Followed

\* What a radio may make of a frame: it holds it, or what it held, or nothing.
LEMMA HearResp ==
    ASSUME TypeInv, NEW f \in Frames, NEW h \in Hear(resp, "listen", f)
    PROVE  /\ h \in RespType /\ h.at = resp.at
           /\ \/ h.frame \in {resp.frame, None}
              \/ resp.at = "listen" /\ h.frame = f
           /\ resp.at = "listen" /\ resp.frame = None /\ ~resp.apart => h.frame = f
<1>1. /\ resp \in RespType /\ resp.apart \in BOOLEAN /\ resp.hid \in BOOLEAN
      /\ None \in Frames
  BY NoneIsFrame DEF TypeInv, RespType
<1>2. CASE h = resp /\ resp.at # "listen" BY <1>1, <1>2
<1>3. CASE /\ resp.at = "listen" /\ ~resp.apart /\ resp.frame = None
           /\ h = [resp EXCEPT !.frame = f, !.apart = TRUE]
  BY <1>1, <1>3 DEF RespType
<1>4. CASE resp.apart /\ h = [resp EXCEPT !.hid = TRUE, !.apart = FALSE]
  BY <1>1, <1>4 DEF RespType
<1>5. ASSUME ~(~resp.apart /\ resp.frame = None) PROVE
      /\ h = [resp EXCEPT !.frame = None, !.hid = FALSE, !.apart = FALSE] =>
            h \in RespType /\ h.frame = None /\ h.at = resp.at
      /\ \A b \in BOOLEAN : h = [resp EXCEPT !.apart = b] =>
            h \in RespType /\ h.frame = resp.frame /\ h.at = resp.at
  BY <1>1 DEF RespType
<1> QED BY <1>1, <1>2, <1>3, <1>4, <1>5 DEF Hear

LEMMA HearIni ==
    ASSUME TypeInv, NEW f \in Frames, NEW h \in Hear(ini, "poll", f)
    PROVE  /\ h \in IniType /\ h.at = ini.at /\ h.tnow = ini.tnow /\ h.sent = ini.sent
           /\ \/ h.frame \in {ini.frame, None}
              \/ ini.at = "poll" /\ h.frame = f
           /\ ini.at = "poll" /\ ini.frame = None /\ ~ini.apart => h.frame = f
<1>1. /\ ini \in IniType /\ ini.apart \in BOOLEAN /\ ini.hid \in BOOLEAN
      /\ None \in Frames
  BY NoneIsFrame DEF TypeInv, IniType
<1>2. CASE h = ini /\ ini.at # "poll" BY <1>1, <1>2
<1>3. CASE /\ ini.at = "poll" /\ ~ini.apart /\ ini.frame = None
           /\ h = [ini EXCEPT !.frame = f, !.apart = TRUE]
  BY <1>1, <1>3 DEF IniType
<1>4. CASE ini.apart /\ h = [ini EXCEPT !.hid = TRUE, !.apart = FALSE]
  BY <1>1, <1>4 DEF IniType
<1>5. ASSUME ~(~ini.apart /\ ini.frame = None) PROVE
      /\ h = [ini EXCEPT !.frame = None, !.hid = FALSE, !.apart = FALSE] =>
            h \in IniType /\ h.frame = None /\ h.at = ini.at /\ h.tnow = ini.tnow /\ h.sent = ini.sent
      /\ \A b \in BOOLEAN : h = [ini EXCEPT !.apart = b] =>
            h \in IniType /\ h.frame = ini.frame /\ h.at = ini.at /\ h.tnow = ini.tnow /\ h.sent = ini.sent
  BY <1>1 DEF IniType
<1> QED BY <1>1, <1>2, <1>3, <1>4, <1>5 DEF Hear

LEMMA ArriveStep ==
    ASSUME NEW t \in Nat, Followed(t), Arrive PROVE Followed(t)'
<1>1. PICK f \in air :
        /\ f.at = now /\ air' = air \ {f}
        /\ IF f.from = "initiator"
           THEN resp' \in Hear(resp, "listen", f) /\ ini' = ini
           ELSE ini' \in Hear(ini, "poll", f) /\ resp' = resp
        /\ UNCHANGED <<now, phase, round, excuse, outcome, strangers>>
  BY DEF Arrive
<1>2. f \in Frames /\ f.from \in {"initiator", "responder"} /\ now \in Nat /\ f # None
  BY NoneIsFrame DEF Followed, TypeInv, PlaceInv
<1>5. ASSUME NEW from, OnlyInAir(from) PROVE air' = {} /\ f.from = from /\ f.of = round
  BY <1>1, <1>5 DEF OnlyInAir
<1>3. CASE f.from = "initiator"
  <2>1. /\ resp' \in RespType /\ resp'.at = resp.at
        /\ \/ resp'.frame \in {resp.frame, None}
           \/ resp.at = "listen" /\ resp'.frame = f
        /\ resp.at = "listen" /\ resp.frame = None /\ ~resp.apart => resp'.frame = f
    BY <1>1, <1>2, <1>3, HearResp DEF Followed
  <2>2. TypeInv' BY <1>1, <1>3, <2>1 DEF Followed, TypeInv
  <2>3. PlaceInv' BY <1>1, <1>2, <1>3, <2>1, NoneIsFrame, Delays DEF Followed, PlaceInv
  <2>4. f.of = round /\ f.at = t + Flight BY <1>1, <1>3 DEF Followed, RoundInv
  <2>5. RoundInv(t)'
    BY <1>1, <1>2, <1>3, <2>1, <2>4, NoneIsFrame DEF Followed, RoundInv, IniStamp, ReplyOf
  <2>6. ChainInv(t)'
    <3> SUFFICES ASSUME ini.at = "poll", ~excuse
                 PROVE  /\ (t + RoundTrip <= ini.tnow + Timeout)'
                        /\ ini'.frame = None /\ ~ini'.apart /\ PollIn'
      BY <1>1, <1>3 DEF ChainInv
    <3>1. /\ t + RoundTrip <= ini.tnow + Timeout
          /\ ini.frame = None /\ ~ini.apart /\ PollOut
      BY <1>3, <1>5 DEF Followed, ChainInv, PollIn, ReplyOut, ReplyIn
    <3>2. air' = {} /\ resp'.frame = f BY <1>5, <2>1, <3>1 DEF PollOut
    <3> QED BY <1>1, <1>3, <2>4, <3>1, <3>2 DEF PollIn
  <2> QED BY <1>1, <2>2, <2>3, <2>5, <2>6 DEF Followed
<1>4. CASE f.from = "responder"
  <2>1. /\ ini' \in IniType
        /\ ini'.at = ini.at /\ ini'.tnow = ini.tnow /\ ini'.sent = ini.sent
        /\ \/ ini'.frame \in {ini.frame, None}
           \/ ini.at = "poll" /\ ini'.frame = f
        /\ ini.at = "poll" /\ ini.frame = None /\ ~ini.apart => ini'.frame = f
    BY <1>1, <1>2, <1>4, HearIni DEF Followed
  <2>2. TypeInv' BY <1>1, <1>4, <2>1 DEF Followed, TypeInv
  <2>3. PlaceInv' BY <1>1, <1>2, <1>4, <2>1, NoneIsFrame DEF Followed, PlaceInv
  <2>4. RoundInv(t)'
    BY <1>1, <1>2, <1>4, <2>1, NoneIsFrame DEF Followed, RoundInv, IniStamp, ReplyOf
  <2>5. ChainInv(t)'
    <3> SUFFICES ASSUME ini.at = "poll", ~excuse
                 PROVE  (t + RoundTrip <= ini.tnow + Timeout)' /\ ReplyIn'
      BY <1>1, <2>1 DEF ChainInv
    <3>1. /\ t + RoundTrip <= ini.tnow + Timeout
          /\ ini.frame = None /\ ~ini.apart /\ ReplyOut
      BY <1>4, <1>5 DEF Followed, ChainInv, PollOut, PollIn, ReplyIn
    <3>2. air' = {} /\ f.of = round /\ ini'.frame = f BY <1>5, <2>1, <3>1 DEF ReplyOut
    <3> QED BY <1>1, <1>4, <2>1, <3>1, <3>2 DEF ReplyIn, ReplyOut
  <2> QED BY <1>1, <2>2, <2>3, <2>4, <2>5 DEF Followed
<1> QED BY <1>2, <1>3, <1>4

LEMMA LoseStep ==
    ASSUME NEW t \in Nat, Followed(t), Lose PROVE Followed(t)'
<1>1. PICK f \in air : /\ air' = air \ {f} /\ excuse' = TRUE
                       /\ UNCHANGED <<now, phase, ini, resp, round, outcome, strangers>>
  BY DEF Lose
<1>2. TypeInv' BY <1>1 DEF Followed, TypeInv
<1>3. PlaceInv' BY <1>1 DEF Followed, PlaceInv
<1>4. RoundInv(t)' BY <1>1 DEF Followed, RoundInv, IniStamp, ReplyOf
<1>5. ChainInv(t)' BY <1>1 DEF ChainInv
<1> QED BY <1>1, <1>2, <1>3, <1>4, <1>5 DEF Followed

LEMMA StrangerStep ==
    ASSUME NEW t \in Nat, Followed(t), StrangerSends PROVE Followed(t)'
<1>1. PICK payload \in Payloads :
        /\ ini' \in {ini} \cup Hear(ini, "poll", Frame("stranger", now, payload, 0))
        /\ resp' \in {resp} \cup Hear(resp, "listen", Frame("stranger", now, payload, 0))
  BY DEF StrangerSends
<1> DEFINE f == Frame("stranger", now, payload, 0)
<1>2. f \in Frames /\ f.from = "stranger" /\ f.at = now /\ f.of = 0 /\ now \in Nat
  BY Delays DEF Followed, TypeInv, Frame, Frames
<1>3. ini' \in {ini} \cup Hear(ini, "poll", f) /\ resp' \in {resp} \cup Hear(resp, "listen", f)
  BY <1>1
<1> HIDE DEF f
<1>4. /\ ini' \in IniType
      /\ ini'.at = ini.at /\ ini'.tnow = ini.tnow /\ ini'.sent = ini.sent
      /\ \/ ini'.frame \in {ini.frame, None}
         \/ ini.at = "poll" /\ ini'.frame = f
  BY <1>2, <1>3, HearIni DEF Followed, TypeInv
<1>5. /\ resp' \in RespType
      /\ resp'.at = resp.at
      /\ \/ resp'.frame \in {resp.frame, None}
         \/ resp.at = "listen" /\ resp'.frame = f
  BY <1>2, <1>3, HearResp DEF Followed, TypeInv
<1>6. /\ UNCHANGED <<now, phase, air, round, outcome>>
      /\ excuse' = TRUE /\ strangers' = strangers + 1
  BY DEF StrangerSends
<1>7. TypeInv' BY <1>4, <1>5, <1>6 DEF Followed, TypeInv
<1>8. PlaceInv' BY <1>2, <1>4, <1>5, <1>6, NoneIsFrame, Delays DEF Followed, PlaceInv
<1>9. RoundInv(t)'
  BY <1>2, <1>4, <1>5, <1>6, NoneIsFrame DEF Followed, RoundInv, IniStamp, ReplyOf
<1>10. ChainInv(t)' BY <1>6 DEF ChainInv
<1> QED BY <1>6, <1>7, <1>8, <1>9, <1>10 DEF Followed

LEMMA TickStep ==
    ASSUME NEW t \in Nat, Followed(t), Tick PROVE Followed(t)'
<1>1. /\ now' = now + 1 /\ now \in Nat
      /\ \A f \in air : f.at > now
      /\ resp.frame # None => now - resp.frame.at < MaxLag
      /\ ini.at = "acquire" => now - ini.tnow < MaxWait
      /\ phase' = phase /\ ini' = ini /\ resp' = resp /\ air' = air /\ round' = round
      /\ excuse' = excuse /\ strangers' = strangers
  BY DEF Followed, TypeInv, Tick
<1>2. TypeInv' BY <1>1 DEF Followed, TypeInv
<1>3. \A f \in air : f.at >= now'
  BY <1>1, FrameFields DEF Followed, TypeInv
<1>4. resp.frame # None => resp.frame.at <= now' /\ now' - resp.frame.at <= MaxLag
  BY <1>1, RespFields, FrameFields, Delays DEF Followed, PlaceInv
<1>5. PlaceInv'
  <2>1. /\ phase' = phase /\ ini' = ini /\ resp' = resp /\ air' = air /\ round' = round
    BY <1>1
  <2> QED BY <1>3, <1>4, <2>1 DEF Followed, PlaceInv
<1>6. ini.tnow <= now' /\ (ini.at = "acquire" => now' - ini.tnow <= MaxWait)
  BY <1>1, IniFields, Delays DEF Followed, RoundInv
<1>7. now - resp.frame.at > ReplyDelay => now' - resp.frame.at > ReplyDelay
  BY <1>1, RespFields, FrameFields, Delays DEF Followed
<1>8. RoundInv(t)'
  <2>1. /\ phase' = phase /\ ini' = ini /\ resp' = resp /\ air' = air /\ round' = round
    BY <1>1
  <2> QED BY <1>6, <1>7, <2>1 DEF Followed, RoundInv, IniStamp, ReplyOf
<1>9. ChainInv(t)'
  BY <1>1 DEF Followed, ChainInv, PollOut, PollIn, ReplyOut, ReplyIn, OnlyInAir
<1> QED BY <1>1, <1>2, <1>5, <1>8, <1>9 DEF Followed
----------------------------------------------------------------------------
(* The theorems *)

LEMMA StepInv == IInv /\ [Next]_vars => IInv'
<1> SUFFICES ASSUME IInv, [Next]_vars PROVE IInv' OBVIOUS
<1>1. PICK t \in Nat : Followed(t) BY DEF IInv, TypeInv, Followed
<1>2. OutcomeInv BY DEF IInv
<1>3. SUFFICES (\E u \in Nat : Followed(u)') /\ OutcomeInv'
  BY DEF IInv, TypeInv, Followed
<1>4. now \in Nat BY <1>1 DEF Followed, TypeInv
<1>5. CASE SendPoll
  BY <1>1, <1>2, <1>4, <1>5, SendPollStep
     DEF SendPoll, OutcomeInv, NoStaleReply, MeasuresRange, TimeoutHasReason
<1>6. CASE TimedOut BY <1>1, <1>2, <1>6, TimedOutStep
<1>7. CASE TakeReply BY <1>1, <1>2, <1>7, TakeReplyStep
<1>8. ASSUME outcome' = outcome PROVE OutcomeInv'
  BY <1>2, <1>8 DEF OutcomeInv, NoStaleReply, MeasuresRange, TimeoutHasReason
<1>9. CASE StartRound BY <1>1, <1>8, <1>9, StartRoundStep DEF StartRound
<1>10. CASE TakePoll BY <1>1, <1>8, <1>10, TakePollStep DEF TakePoll
<1>11. CASE Sent BY <1>1, <1>8, <1>11, SentStep DEF Sent
<1>12. CASE Arrive BY <1>1, <1>8, <1>12, ArriveStep DEF Arrive
<1>13. CASE Lose BY <1>1, <1>8, <1>13, LoseStep DEF Lose
<1>14. CASE StrangerSends BY <1>1, <1>8, <1>14, StrangerStep DEF StrangerSends
<1>15. CASE Tick BY <1>1, <1>8, <1>15, TickStep DEF Tick
<1>16. CASE UNCHANGED vars
  BY <1>1, <1>8, <1>16
     DEF vars, Followed, TypeInv, PlaceInv, RoundInv, ChainInv, IniStamp, ReplyOf,
         PollOut, PollIn, ReplyOut, ReplyIn, OnlyInAir
<1> QED
  BY <1>5, <1>6, <1>7, <1>9, <1>10, <1>11, <1>12, <1>13, <1>14, <1>15, <1>16 DEF Next

\* Types, places and the round's poll: the inductive invariant of the exchange.
THEOREM Invariant == Spec => []IInv
<1>1. Init => IInv
  BY InitFollowed DEF IInv, Followed, TypeInv, Init
<1> QED BY <1>1, StepInv, PTL DEF Spec

\* A reply taken in a round is never one to an earlier poll, in ss_twr_responder_run
\* and ss_twr_initiator_run, for all delays, lags and phases.
THEOREM NoStaleReplies == Spec => []NoStaleReply
<1>1. IInv => NoStaleReply BY DEF IInv, OutcomeInv
<1> QED BY <1>1, Invariant, PTL

\* The arithmetic of ss_twr_initiator_run gives twice the time of flight and
\* the antenna delay, wherever the responder's counter wraps.
THEOREM MeasuresTheRange == Spec => []MeasuresRange
<1>1. IInv => MeasuresRange BY DEF IInv, OutcomeInv
<1> QED BY <1>1, Invariant, PTL

\* A round of ss_twr_initiator_run times out only for one of the reasons that
\* TimeoutHasReason lists, a WAIT4RESP start with the sets apart among them: with
\* both receivers aligned, both nodes in time and no frame lost or strange, the
\* reply is there.
THEOREM TimeoutsHaveReasons == Spec => []TimeoutHasReason
<1>1. IInv => TimeoutHasReason BY DEF IInv, OutcomeInv
<1> QED BY <1>1, Invariant, PTL
----------------------------------------------------------------------------
(* Ranging implements RangeRound *)

\* What is not the end of a round or its begin goes on the air.
LEMMA MapsAir ==
    ASSUME IInv, IInv', excuse => excuse', round' = round, outcome' = outcome,
           ini'.at = "poll" <=> ini.at = "poll"
    PROVE  R!Next
<1>1. excuse' \in BOOLEAN BY DEF IInv, TypeInv
<1>2. (ini.at = "poll")' = (ini.at = "poll") OBVIOUS
<1>3. (ini.frame # None \/ resp.frame # None)' \in BOOLEAN BY Zenon
<1> QED BY <1>1, <1>2, <1>3 DEF R!Next, R!Air, How, Answered

LEMMA MapsReply ==
    ASSUME IInv, IInv', TakeReply
    PROVE  R!Next
<1> DEFINE f == ini.frame
<1>1. PICK t \in Nat : Followed(t) BY DEF IInv, TypeInv, Followed
<1>2. /\ ini.at = "poll" /\ f # None /\ ini'.at = "period"
      /\ UNCHANGED <<resp, round, excuse>>
      /\ outcome'.how = f.from /\ outcome'.of = f.of /\ outcome'.round = round
  BY <1>1 DEF TakeReply, EndRound, Followed, TypeInv, IniType
<1>3. ini'.at = "period" BY <1>2
<1>4. (ini.frame # None \/ resp.frame # None)' \in BOOLEAN BY Zenon
<1>5. f.from \in {"responder", "stranger"} BY <1>1, <1>2 DEF Followed, PlaceInv
<1>6. round \in Nat /\ round > 0 BY <1>1, <1>2 DEF Followed, TypeInv, PlaceInv
<1>7. outcome'.wrapped \in BOOLEAN BY DEF TakeReply, EndRound
<1>8. CASE f.from = "responder" /\ f.of # 0
  <2>1. f.of = round BY <1>1, <1>8 DEF Followed, RoundInv, ReplyOf
  <2>2. Answered' BY <1>2, <1>8 DEF Answered
  <2>3. CASE outcome'.wrapped
    <3>1. How' = "wrapped" BY <2>2, <2>3 DEF How
    <3> QED BY <1>2, <1>3, <1>4, <2>1, <2>2, <3>1 DEF R!Next, R!Wrap, R!End, R!Ending
  <2>4. CASE ~outcome'.wrapped
    <3>1. How' = "range" BY <2>2, <2>4 DEF How
    <3>2. outcome'.twice = 2 * Flight + AntDelay
      BY <1>2, <1>8, <2>1, <2>4 DEF IInv, OutcomeInv, MeasuresRange
    <3> QED BY <1>2, <1>3, <1>4, <2>1, <2>2, <3>1, <3>2 DEF R!Next, R!Measure, R!End, R!Ending
  <2> QED BY <1>7, <2>3, <2>4
<1>9. CASE f.from = "stranger" \/ f.of = 0
  <2>1. excuse BY <1>1, <1>2, <1>6, <1>9 DEF Followed, ChainInv, ReplyIn
  <2>2. ~Answered' /\ How' = "foreign" BY <1>2, <1>5, <1>9 DEF Answered, How
  <2> QED BY <1>2, <1>3, <1>4, <2>1, <2>2 DEF R!Next, R!Foreign, R!End, R!Ending
<1> QED BY <1>5, <1>8, <1>9

LEMMA MapsTimeout ==
    ASSUME IInv, IInv', TimedOut
    PROVE  R!Next
<1>1. TypeInv BY DEF IInv
<1>2. /\ ini.at = "poll" /\ ini'.at = "period"
      /\ UNCHANGED <<resp, round, excuse>>
      /\ outcome'.how = "timeout"
      /\ outcome'.excused = (excuse \/ ini.frame # None \/ resp.frame # None)
  BY <1>1 DEF TimedOut, EndRound, Pending, TypeInv, IniType
<1>3. ini'.at = "period" BY <1>2
<1>4. (ini.frame # None \/ resp.frame # None)' \in BOOLEAN BY Zenon
<1>5. excuse \/ ini.frame # None \/ resp.frame # None
  BY <1>2 DEF IInv, OutcomeInv, TimeoutHasReason
<1>6. ~Answered' /\ How' = "timeout" BY <1>2 DEF Answered, How
<1> QED BY <1>2, <1>3, <1>4, <1>5, <1>6 DEF R!Next, R!GiveUp, R!End, R!Ending

LEMMA MapsStep == IInv /\ IInv' /\ [Next]_vars => [R!Next]_(R!vars)
<1> SUFFICES ASSUME IInv, IInv', [Next]_vars PROVE R!Next \/ UNCHANGED R!vars
  OBVIOUS
<1>1. IInv /\ IInv' /\ TypeInv BY DEF IInv
<1>2. CASE SendPoll
  <2>1. /\ ini.at = "acquire" /\ ini'.at = "poll" /\ round' = round + 1 /\ outcome' = outcome
    BY <1>1, <1>2 DEF SendPoll, TypeInv, IniType
  <2>2. excuse' \in BOOLEAN BY <1>1 DEF IInv, TypeInv
  <2>3. (ini.frame # None \/ resp.frame # None)' \in BOOLEAN BY Zenon
  <2> QED BY <2>1, <2>2, <2>3 DEF R!Next, R!Ask, How, Answered
<1>3. CASE TakeReply BY <1>1, <1>3, MapsReply
<1>4. CASE TimedOut BY <1>1, <1>4, MapsTimeout
<1>5. CASE StartRound \/ Sent \/ Tick \/ Lose \/ TakePoll
  <2>1. /\ excuse => excuse'
        /\ round' = round /\ outcome' = outcome
        /\ ini'.at = "poll" <=> ini.at = "poll"
    BY <1>1, <1>5 DEF StartRound, Sent, Tick, Lose, TakePoll, TypeInv, IniType
  <2> QED BY <1>1, <2>1, MapsAir
<1>6. CASE Arrive \/ StrangerSends
  <2>1. excuse => excuse' BY <1>6 DEF Arrive, StrangerSends
  <2>2. round' = round /\ outcome' = outcome BY <1>6 DEF Arrive, StrangerSends
  <2>3. ini' = ini \/ \E f : ini' \in Hear(ini, "poll", f)
    BY <1>6 DEF Arrive, StrangerSends
  <2>4. ini'.at = "poll" <=> ini.at = "poll" BY <1>1, <2>3 DEF Hear, TypeInv, IniType
  <2> QED BY <1>1, <2>1, <2>2, <2>4, MapsAir
<1>7. CASE UNCHANGED vars BY <1>7 DEF vars, R!vars, How, Answered
<1> QED BY <1>2, <1>3, <1>4, <1>5, <1>6, <1>7 DEF Next

LEMMA MapsInit == Init => R!Init
BY NoneIsFrame DEF Init, R!Init, R!Ending, How, Answered, Pending

\* The two loops of src/main.c over any channel implement RangeRound: an
\* undisturbed round gives the range, and no round the answer to another.
THEOREM Implements == Spec => ImplementsRangeRound
BY MapsInit, MapsStep, Invariant, PTL DEF Spec, ImplementsRangeRound, R!Spec
=============================================================================
