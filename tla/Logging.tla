------------------------------ MODULE Logging ------------------------------
(***************************************************************************)
(* base/Logging.h/.cc: one thread that logs, statement by statement, while *)
(* others change the log level and the time zone, which nothing protects.  *)
(* A Logger formats the time, whose text the thread caches for the second, *)
(* adds the thread's tid, which is cached as well, builds the line in its  *)
(* LogStream and gives it to g_output when it is destroyed.  The program   *)
(* may fork; the thread is then followed into the child.                   *)
(*                                                                         *)
(* The fixed parts of a line are one character each and SIZE is scaled     *)
(* with them.  LOG_TRACE and LOG_DEBUG are left out: the constructor their *)
(* macros name is declared and never defined.                              *)
(***************************************************************************)
EXTENDS LogStream

CONSTANTS Times,       \* the seconds the clock may show
          Tids,        \* what gettid may return
          Parts,       \* what the program inserts into a line
          MaxInserts   \* bound: the insertions into one line

TRACE == 0
INFO == 2
WARN == 3
ERROR == 4
FATAL == 5
Levels == INFO..FATAL

ASSUME TimesAssumption == Times \subseteq Nat \ {0}
ASSUME TidsAssumption == Tids \subseteq Nat \ {0}
ASSUME BoundAssumption == MaxInserts \in Nat /\ SIZE \in Nat /\ kMaxNumericSize \in Nat

Part == [kind : {"text", "integer", "pointer", "double"}, text : Seq(STRING), number : Int]

\* kMaxNumericSize is room for every number, with its sign or its 0x and with the
\* NUL; for a double snprintf sees to it.
Fits(part) ==
    /\ part.kind = "integer" => Len(convert(part.number)) < kMaxNumericSize
    /\ part.kind = "pointer" => /\ part.number \in Nat
                               /\ Len(convertHex(part.number)) + 2 < kMaxNumericSize
    /\ part.kind = "double" => Len(part.text) < kMaxNumericSize

\* The Logger itself inserts an errno and a line number, here 4 and 7.
ASSUME PartsAssumption == /\ Parts \subseteq Part
                          /\ \A part \in Parts \cup {Integer(4), Integer(7)} : Fits(part)

VARIABLES now,            \* the clock
          g_logLevel,
          g_logTimeZone,  \* is it valid?
          t_lastSecond, t_time,   \* the thread's cache: t_time is the second it was made for
          tid,            \* what gettid returns
          t_cachedtid, t_tidString,    \* its cache: t_tidString is the tid it was made for
          m_level, m_time, m_stream,   \* the Logger
          stamp,          \* history: the second and the tid whose texts are in the line
          logger,         \* history: the tid of the thread when it began the line
          wanted,         \* history: the parts given to the line
          pc              \* where the thread is

globalVars == <<now, g_logLevel, g_logTimeZone>>
cacheVars == <<t_lastSecond, t_time>>
tidVars == <<tid, t_cachedtid, t_tidString>>
loggerVars == <<m_level, m_time, logger>>
streamVars == <<m_stream, stamp, wanted>>
vars == <<globalVars, cacheVars, tidVars, loggerVars, streamVars, pc>>

\* ThreadNameInitializer has cached the tid of the main thread; other threads
\* start without.
Init == /\ now \in Times
        /\ g_logLevel \in TRACE..INFO /\ g_logTimeZone = FALSE
        /\ t_lastSecond = 0 /\ t_time = 0
        /\ tid \in Tids
        /\ t_cachedtid \in {0, tid} /\ t_tidString = t_cachedtid
        /\ m_level = INFO /\ m_time = 0 /\ m_stream = EmptyBuffer /\ logger = 0
        /\ stamp = <<0, 0>> /\ wanted = <<>>
        /\ pc = "idle"

-----------------------------------------------------------------------------
(* The clock and the other threads *)

Tick == /\ now' \in Times \ {now}
        /\ UNCHANGED <<g_logLevel, g_logTimeZone, cacheVars, tidVars, loggerVars, streamVars, pc>>

setLogLevel == /\ g_logLevel' \in TRACE..FATAL
               /\ UNCHANGED <<now, g_logTimeZone, cacheVars, tidVars, loggerVars, streamVars, pc>>

setTimeZone == /\ g_logTimeZone' \in BOOLEAN
               /\ UNCHANGED <<now, g_logLevel, cacheVars, tidVars, loggerVars, streamVars, pc>>

-----------------------------------------------------------------------------
(* The thread *)

\* cacheTid of a thread with this tid and this cache.
cacheTid(id, cached) == IF cached = 0 THEN id ELSE cached

\* Faulty variant: the child's handler renews nothing.
afterForkKeeps(id) == t_cachedtid' = cacheTid(id, t_cachedtid) /\ UNCHANGED t_tidString

\* The handler that pthread_atfork runs in the child.
afterFork(id) == t_cachedtid' = cacheTid(id, 0) /\ t_tidString' = t_cachedtid'

\* fork between two log statements, as seen by the child.
fork == /\ pc = "idle"
        /\ tid' \in Tids \ {tid}
        /\ afterFork(tid')
        /\ UNCHANGED <<globalVars, cacheVars, loggerVars, streamVars, pc>>

\* LOG_INFO asks for the level, LOG_WARN and the constructor for ERROR and
\* FATAL do not.
logged(level) == level = INFO => g_logLevel <= INFO

log(level) == /\ pc = "idle" /\ logged(level)
              /\ m_level' = level /\ m_time' = now /\ m_stream' = EmptyBuffer
              /\ stamp' = <<0, 0>> /\ wanted' = <<>> /\ logger' = tid
              /\ pc' = "format"
              /\ UNCHANGED <<globalVars, cacheVars, tidVars>>

newSecond == m_time # t_lastSecond

\* The first half of formatTime.  TimeZone::toLocalTime returns a struct tm it
\* has not initialised: the text made of it may fail the assertion on its length.
format == /\ pc = "format"
          /\ \/ /\ newSecond
                /\ t_lastSecond' = m_time /\ t_time' = m_time
                /\ \/ pc' = "prefix"
                   \/ g_logTimeZone /\ pc' = "aborted"
             \/ ~newSecond /\ pc' = "prefix" /\ UNCHANGED cacheVars
          /\ UNCHANGED <<globalVars, tidVars, loggerVars, streamVars>>

\* The parts go into the stream, one operator << after the other.
Write(parts) == /\ m_stream' = insertAll(m_stream, parts)
                /\ wanted' = wanted \o parts

\* The second half of formatTime, and what the constructor of Impl adds: the
\* tid, the level and, for ERROR and FATAL, the error.
prefix == /\ pc = "prefix"
          /\ \E savedErrno \in IF m_level >= ERROR THEN {0, 4} ELSE {0} :
                Write(<<Text(<<"time">>),
                        Text(IF g_logTimeZone THEN <<"us">> ELSE <<"us", "Z">>),
                        Text(<<"tid">>), Text(<<"level">>)>>
                      \o IF savedErrno = 0 THEN <<>>
                         ELSE <<Text(<<"strerror">>), Text(<<"(errno=">>),
                                Integer(savedErrno), Text(<<")">>)>>)
          /\ t_cachedtid' = cacheTid(tid, t_cachedtid)
          /\ t_tidString' = IF t_cachedtid = 0 THEN tid ELSE t_tidString
          /\ stamp' = <<t_time, t_tidString'>>
          /\ pc' = "insert"
          /\ UNCHANGED <<globalVars, cacheVars, tid, loggerVars>>

\* The number of parts the program has inserted so far.
Inserted == Len(SelectSeq(wanted, LAMBDA p : p \in Parts))

insertPart == /\ pc = "insert" /\ Inserted < MaxInserts
              /\ \E part \in Parts : Write(<<part>>)
              /\ UNCHANGED <<globalVars, cacheVars, tidVars, loggerVars, stamp, pc>>

\* Impl::finish and the rest of ~Logger.
finish == /\ pc = "insert"
          /\ Write(<<Text(<<"dash">>), Text(<<"file">>), Text(<<":">>), Integer(7), Text(<<"\n">>)>>)
          /\ pc' = IF m_level = FATAL THEN "aborted" ELSE "idle"
          /\ UNCHANGED <<globalVars, cacheVars, tidVars, loggerVars, stamp>>

Next == \/ Tick \/ setLogLevel \/ setTimeZone \/ fork
        \/ \E level \in Levels : log(level)
        \/ format \/ prefix \/ insertPart \/ finish

Spec == Init /\ [][Next]_vars
-----------------------------------------------------------------------------
\* The conversions and the reserve of kMaxNumericSize bytes never write behind
\* the end of the buffer, terminating NULs included.
NoOverrun == m_stream.top <= SIZE

Power(base) == LET power[w \in Nat] == IF w = 0 THEN 1 ELSE base * power[w - 1] IN power

\* The places of the numeral of n in a base, from the definition of the
\* positional system.
Places(n, base) == CHOOSE w \in 1..kMaxNumericSize : /\ n < Power(base)[w]
                                                     /\ w = 1 \/ n >= Power(base)[w - 1]
Numeral(n, base) == [k \in 1..Places(n, base) |->
                        digitsHex[((n \div Power(base)[Places(n, base) - k]) % base) + 1]]

\* What a part should look like in the line.
Rendered(part) ==
    CASE part.kind = "integer" -> IF part.number < 0 THEN <<"-">> \o Numeral(-part.number, 10)
                                  ELSE Numeral(part.number, 10)
      [] part.kind = "pointer" -> <<"0", "x">> \o Numeral(part.number, 16)
      [] OTHER -> part.text

\* The room without which a part is left out.
Need(part) == IF part.kind = "text" THEN Len(part.text) ELSE kMaxNumericSize

\* What is in the line when these parts have been inserted.
Line(parts) ==
    LET upTo[n \in 0..Len(parts)] ==
            IF n = 0 THEN <<>>
            ELSE LET line == upTo[n - 1]
                 IN  IF SIZE - Len(line) >= Need(parts[n]) THEN line \o Rendered(parts[n]) ELSE line
    IN  upTo[Len(parts)]

\* The line is its parts in order, each written out in full or, when the room
\* is short, left out altogether: no operator << truncates, and every number,
\* the smallest negative one included, is its numeral.
LineExact == m_stream.text = Line(wanted)

\* The line has just been given to g_output.
Output == pc \in {"idle", "aborted"} /\ wanted # <<>>

\* The time in a line is the second in which it was logged and the tid that of
\* the thread which logged it: neither cached text is ever that of another
\* second, even if the clock is set back, or of another thread, also in a child
\* whose parent had its own tid in the cache.
StampIsCurrent == Output => stamp = <<m_time, logger>>
=============================================================================
