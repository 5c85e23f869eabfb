----------------------------- MODULE MCBackground -----------------------------
(* Seven parts of the program that share neither state nor a lock: the browser  *)
(* queue, the alert evaluator, the Upbit writers, the /ws broadcast, the REST   *)
(* verdict on a subscription, the KRX close, and the ledger of crawler rounds.  *)
(* An interleaving of two of them adds nothing to what each does alone, so a    *)
(* behaviour here is one of a single part, picked at the start.                 *)
EXTENDS Integers, TLC

CONSTANTS
    Bank, SoftLimit, Capacity, NoBank,
    Task, Level, Rate, MaxEpoch, MaxFaults, MaxThreads, None,
    MaxTime, Grain, MaxPending, MaxStrays,
    Conn, MaxVersion,
    Call, FreshTTL, StaleTTL, PendingTTL, MaxCall, MaxNow,
    CloseFaults,
    Inv, Round, Close, Expiry, Late, Freshness, Skew, Offset, MaxMinute

ASSUME SeleniumAssumption == SoftLimit \in Nat /\ Capacity \in Nat /\ SoftLimit < Capacity

ASSUME UpbitAssumption == MaxTime \in Nat /\ Grain \in Nat \ {0}

ASSUME AlertsAssumption == MaxEpoch \in Nat \ {0}

ASSUME PremiumAssumption == StaleTTL \in Nat \ {0} /\ MaxCall \in Nat

ASSUME LedgerAssumption ==
    /\ Close \in Nat /\ Expiry \in Nat /\ Offset \subseteq Int
    /\ None \notin Inv
    /\ None \notin [live : BOOLEAN, conn : {"unbound", "started", "init_failed"},
                    round : Round \cup {None}, terminal : BOOLEAN, included : BOOLEAN,
                    done : BOOLEAN, expired : BOOLEAN, retire : [w : Int, m : Int]]

VARIABLES
    service,
    queue, worker, current, health, orphans, ending,
    row, cached, loader, task, threads, session, epoch, pushed, unmarked,
    waiting, calls, redis, memo, strayed, pending, timer, phase,
    version, cache, filler, job, listed, sock, last, unserved,
    now, premium, seen, entry, doubt, call, answer, since, tainted,
    traded, writeOn, clock, faults, loop, tick, window, flush, rest, rows,
    latest, flag, daily, wsStored,
    mono, ahead, start, fin, receipt, isolation, book, stopped, merged, admitted

seleniumVars == <<queue, worker, current, health, orphans, ending>>
alertVars == <<row, cached, loader, task, threads, session, epoch, pushed, unmarked>>
upbitVars == <<waiting, calls, redis, memo, strayed, pending, timer, phase>>
legacyVars == <<version, cache, filler, job, listed, sock, last, unserved>>
premiumVars == <<now, premium, seen, entry, doubt, call, answer, since, tainted>>
krxVars == <<traded, writeOn, clock, faults, loop, tick, window, flush, rest, rows,
             latest, flag, daily, wsStored>>
ledgerVars == <<mono, ahead, start, fin, receipt, isolation, book, stopped, merged,
                admitted>>

Selenium == INSTANCE SeleniumQueue
Alerts == INSTANCE AlertEvaluator
Upbit == INSTANCE UpbitWriters
Legacy == INSTANCE LegacyBroadcast
Premium == INSTANCE PremiumCache WITH cache <- entry, pending <- doubt
Krx == INSTANCE KrxClose WITH MaxFaults <- CloseFaults, timer <- window, redis <- latest
Ledger == INSTANCE RoundLedger WITH last <- receipt

\* Two invocations under a steady clock, or, one minute longer, one under a clock that
\* jumps.
ClockBound ==
    \/ service = "ledger" /\ ahead' = 0 /\ mono' < MaxMinute
    \/ service = "clock" /\ \A i \in Inv \ {CHOOSE j \in Inv : TRUE} : start'[i] = None

Services == {"selenium", "alerts", "upbit", "legacy", "premium", "krx", "ledger", "clock"}

\* The parts that were not picked hold nothing (the action property of the writers
\* reads two of their variables in every step).
Init ==
    /\ service \in Services
    /\ IF service = "selenium" THEN Selenium!Init
       ELSE /\ queue = None /\ worker = None /\ current = None /\ health = None
            /\ orphans = None /\ ending = None
    /\ IF service = "alerts" THEN Alerts!Init
       ELSE /\ row = None /\ cached = None /\ loader = None /\ task = None
            /\ threads = None /\ session = None /\ epoch = None /\ pushed = None
            /\ unmarked = None
    /\ IF service = "upbit" THEN Upbit!Init
       ELSE /\ waiting = None /\ calls = None /\ redis = 0 /\ memo = None
            /\ strayed = FALSE /\ pending = None /\ timer = None /\ phase = None
    /\ IF service = "legacy" THEN Legacy!Init
       ELSE /\ version = None /\ cache = None /\ filler = None /\ job = None
            /\ listed = None /\ sock = None /\ last = None /\ unserved = None
    /\ IF service = "premium" THEN Premium!Init
       ELSE /\ now = None /\ premium = None /\ seen = None /\ entry = None
            /\ doubt = None /\ call = None /\ answer = None /\ since = None
            /\ tainted = None
    /\ IF service = "krx" THEN Krx!Init
       ELSE /\ traded = None /\ writeOn = None /\ clock = None /\ faults = None
            /\ loop = None /\ tick = None /\ window = None /\ flush = None
            /\ rest = None /\ rows = None /\ latest = None /\ flag = None
            /\ daily = None /\ wsStored = None
    /\ IF service \in {"ledger", "clock"} THEN Ledger!Init
       ELSE /\ mono = None /\ ahead = None /\ start = None /\ fin = None
            /\ receipt = None /\ isolation = None /\ book = None /\ stopped = None
            /\ merged = None /\ admitted = None

Next ==
    /\ UNCHANGED service
    /\ \/ /\ service = "selenium"
          /\ Selenium!Next
          /\ UNCHANGED <<alertVars, upbitVars, legacyVars, premiumVars, krxVars,
                          ledgerVars>>
       \/ /\ service = "alerts"
          /\ Alerts!Next
          /\ UNCHANGED <<seleniumVars, upbitVars, legacyVars, premiumVars, krxVars,
                          ledgerVars>>
       \/ /\ service = "upbit"
          /\ Upbit!Next
          /\ UNCHANGED <<seleniumVars, alertVars, legacyVars, premiumVars, krxVars,
                          ledgerVars>>
       \/ /\ service = "legacy"
          /\ Legacy!Next
          /\ UNCHANGED <<seleniumVars, alertVars, upbitVars, premiumVars, krxVars,
                          ledgerVars>>
       \/ /\ service = "premium"
          /\ Premium!Next
          /\ UNCHANGED <<seleniumVars, alertVars, upbitVars, legacyVars, krxVars,
                          ledgerVars>>
       \/ /\ service = "krx"
          /\ Krx!Next
          /\ UNCHANGED <<seleniumVars, alertVars, upbitVars, legacyVars, premiumVars,
                          ledgerVars>>
       \/ /\ service \in {"ledger", "clock"}
          /\ Ledger!Next /\ ClockBound
          /\ UNCHANGED <<seleniumVars, alertVars, upbitVars, legacyVars, premiumVars,
                          krxVars>>

Spec == Init /\ [][Next]_<<service, seleniumVars, alertVars, upbitVars, legacyVars,
                           premiumVars, krxVars, ledgerVars>>

\* The browser worker never waits on the queue only it empties, a bank waits or runs
\* once at most, and no worker survives the shutdown that joined it
\* (scheduler.py:595, 661-675, 1853-1859).
QueueSound == service = "selenium" => Selenium!QueueSound

\* One push per arming or per interval (alert_evaluator.py:493-606).
OnePushPerArming == service = "alerts" => Alerts!OnePushPerArming

\* The stored USDT rate never goes back in time (latest_rates_cache.py:504-511).
LatestNeverRegresses == Upbit!LatestNeverRegresses

\* No tick waits without a timer (crawlers/usdt_ws/upbit.py:405-411).
NoTickForgotten == service = "upbit" => Upbit!NoTickForgotten

\* No listed socket is behind the cached payload, but for three races it names
\* (main.py:975-1023, 1127, 1150, 1162).
NobodyLeftBehind == service = "legacy" => Legacy!NobodyLeftBehind

\* A definite verdict on a subscription is a recent one, and after a webhook a newer
\* one (subscription.py:130-140, 404-490).
VerdictTrusted == service = "premium" => Premium!VerdictTrusted

\* The stored close is kept, a holiday leaves none, and the fallback is spared only
\* when there is nothing to fall back for (crawlers/krx_kis.py:2265-2970).
CloseSettled == service = "krx" => Krx!CloseSettled

\* Whatever the clocks and the calls do, a round is counted once, not before its time,
\* and under one owner (d7_round_ledger.py:1259-1385, 1426-1456).
LedgerTruth == service \in {"ledger", "clock"} => Ledger!LedgerTruth
===============================================================================
