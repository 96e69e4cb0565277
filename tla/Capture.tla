------------------------------ MODULE Capture ------------------------------
(***************************************************************************)
(* Market data on its way into the event lake: the Kalshi WebSocket client *)
(* (adapters/venues/kalshi/client.py), the capture commands                *)
(* (cli/capture_weather.py, and cli/capture.py over WebSocket and REST),   *)
(* the Parquet store they append to (storage/parquet_store.py) and the     *)
(* normalizer that turns the stored envelopes, in replay order, into books *)
(* and trades (storage/sorting.py, normalization/).                        *)
(*                                                                         *)
(* One market is followed.  The venue is external: it numbers the messages *)
(* of a subscription, opens each subscription with a snapshot, may fail to *)
(* deliver a message, and its connection may break and lose what is under  *)
(* way.  Messages on one connection stay in order.  A process may be       *)
(* killed at any time, also while it writes.                               *)
(***************************************************************************)
EXTENDS Integers, Sequences, FiniteSets, FiniteSetsExt, SequencesExt

CONSTANTS BatchSize,            \* ParquetEventStore.batch_size
          MaxSequenceCache,     \* KalshiWebSocketClient.max_sequence_cache_size
          TradesLimit,          \* --trades-limit of REST polling
          Radix,                \* sequence numbers are sorted as text: base 10
          DayLength,
          Prices, MaxQuantity,  \* the ladder of the market
          MaxTime, MaxMessages, MaxRestRows, MaxChanges, MaxWire, MaxStarts     \* bounds of an instance

BookSid == 1
TradeSid == 2
Commands == {"capture_weather", "capture_ws", "capture_rest"}

(* The sequence cache holds every subscription of the client (4096 against *)
(* one per channel).                                                       *)
ASSUME CacheAssumption ==
    /\ MaxSequenceCache \in Nat /\ MaxSequenceCache >= Cardinality({BookSid, TradeSid})
    /\ BatchSize \in Nat \ {0} /\ DayLength \in Nat \ {0}
    /\ TradesLimit \in Nat \ {0} /\ MaxQuantity \in Nat /\ Radix \in Nat \ {0, 1}

VARIABLES now,
          command,       \* the capture command in use
          phase,         \* where its main loop stands
          starts,        \* how often it was started
          last_tickers,  \* whether an earlier discovery found the market
          up, wire,      \* the connection, and the messages under way on it
          seq,           \* the venue's last number on each subscription
          last_seq,      \* the client's _last_seq_by_sid, oldest first
          seen_trades,   \* REST trades this process has appended
          answer,        \* those of the last answer still to be appended
          buffer,        \* the store's _raw_buffer
          files,         \* the part files, in the order they were written
          normalized,    \* the normalized store
          ladder,        \* venue: the resting quantity at each price
          trades,        \* venue: how many trades there were
          changes,       \* venue: how much happened
          received,      \* history: envelopes appended so far
          forgotten      \* history: envelopes a dead process took with it

vars == <<now, command, phase, starts, last_tickers, up, wire, seq, last_seq,
          seen_trades, answer, buffer, files, normalized, ladder, trades, changes, received, forgotten>>
venue == <<ladder, trades, changes>>
process == <<command, phase, starts, last_tickers>>
polling == <<seen_trades, answer>>
link == <<up, wire, seq, last_seq>>
histories == <<received, forgotten>>

None == -1
Empty == [p \in Prices |-> 0]
day(t) == t \div DayLength

(* A set of positions, or of trades, in increasing order; and the elements  *)
(* of s at the positions S.                                                *)
in_order(S) ==
    CHOOSE f \in [1 .. Cardinality(S) -> S] : \A i, j \in DOMAIN f : i < j => f[i] < f[j]

select(s, S) == LET at == in_order(S) IN [k \in DOMAIN at |-> s[at[k]]]

Init ==
    /\ now = 0
    /\ command \in Commands
    /\ phase = "down" /\ starts = 0 /\ last_tickers = FALSE
    /\ up = FALSE /\ wire = <<>> /\ last_seq = <<>>
    /\ seq = [s \in {BookSid, TradeSid} |-> 0]
    /\ seen_trades = {} /\ answer = <<>>
    /\ buffer = <<>> /\ files = <<>> /\ normalized = <<>>
    /\ ladder = Empty /\ trades = 0 /\ changes = 0
    /\ received = 0 /\ forgotten = {}

-----------------------------------------------------------------------------
(* The WebSocket client. *)

expected(sid) ==
    LET at == {k \in DOMAIN last_seq : last_seq[k].sid = sid}
    IN  IF at = {} THEN None ELSE last_seq[CHOOSE k \in at : TRUE].seq + 1

(* Mutant of remember_sequence: the cache holds one subscription too few. *)
remember_sequence_off_by_one(sid, n) ==
    LET others == {k \in DOMAIN last_seq : last_seq[k].sid # sid}
        later == Append(select(last_seq, others), [sid |-> sid, seq |-> n])
    IN  SubSeq(later, Max({1, Len(later) - MaxSequenceCache + 2}), Len(later))

(* _remember_sequence: an ordered dictionary that evicts its oldest entry. *)
remember_sequence(sid, n) ==
    LET others == {k \in DOMAIN last_seq : last_seq[k].sid # sid}
        later == Append(select(last_seq, others), [sid |-> sid, seq |-> n])
    IN  SubSeq(later, Max({1, Len(later) - MaxSequenceCache + 1}), Len(later))

(* message_to_envelope.  id and truth are history: the order of arrival    *)
(* and the venue's book after the message.                                 *)
message_to_envelope(m) ==
    [channel |-> m.channel, exchange_ts |-> m.ts, received_at |-> now,
     sequence |-> m.seq, content |-> m.content,
     sequence_gap |-> expected(m.sid) \notin {None, m.seq},
     id |-> received + 1, truth |-> m.truth]

-----------------------------------------------------------------------------
(* ParquetEventStore. *)

(* Mutant of by_partition: one file for the whole buffer. *)
by_partition_whole(rows) ==
    IF rows = <<>> THEN <<>> ELSE <<[torn |-> FALSE, rows |-> rows]>>

(* _flush_raw groups the buffer by venue, source and day; a command writes *)
(* one venue and source, so by day, in order of first appearance.          *)
by_partition(rows) ==
    LET of_day(i) == {j \in DOMAIN rows : day(rows[j].received_at) = day(rows[i].received_at)}
        first == in_order({i \in DOMAIN rows : \A j \in of_day(i) : i <= j})
    IN  [k \in DOMAIN first |-> [torn |-> FALSE, rows |-> select(rows, of_day(first[k]))]]

(* Mutant of after_flush: the buffer is emptied before it is written. *)
after_flush_cleared_first(rows, k) == <<>>

(* The buffer is cleared when every partition has been written. *)
after_flush(rows, k) == IF k = Len(by_partition(rows)) THEN <<>> ELSE rows

(* flush writes the first k partitions; with k short of all of them the    *)
(* next one raised (disk, or an envelope dated in the future) and the      *)
(* buffer is kept.                                                         *)
flush(rows, k) ==
    /\ k \in 0 .. Len(by_partition(rows))
    /\ files' = files \o SubSeq(by_partition(rows), 1, k)

flush_raises(rows, k) == k < Len(by_partition(rows))

(* append, and the flush of a full buffer. *)
is_full(rows) == Len(rows) >= BatchSize

append(rows, k) == IF is_full(rows) THEN flush(rows, k) ELSE k = 0 /\ UNCHANGED files

append_raises(rows, k) == is_full(rows) /\ flush_raises(rows, k)

after_append(rows, k) == IF is_full(rows) THEN after_flush(rows, k) ELSE rows

ids(rows) == {rows[i].id : i \in DOMAIN rows}
ids_on_file(fs) == UNION {ids(fs[f].rows) : f \in DOMAIN fs}

(* The process ends and takes with it what was not written. *)
take_down(rows) ==
    /\ phase' = "down"
    /\ buffer' = <<>> /\ answer' = <<>>
    /\ up' = FALSE /\ wire' = <<>> /\ last_seq' = <<>>
    /\ seen_trades' = {} /\ last_tickers' = FALSE
    /\ forgotten' = forgotten \cup (ids(rows) \ ids_on_file(files'))

-----------------------------------------------------------------------------
(* The venue. *)

send(m) == wire' = IF up THEN Append(wire, m) ELSE wire

next_seq(sid) == seq' = IF up THEN [seq EXCEPT ![sid] = @ + 1] ELSE seq

(* Bound: the venue moves only while some process will still look. *)
observed == normalized = <<>> /\ (phase # "down" \/ starts < MaxStarts) /\ Len(wire) < MaxWire

(* A resting quantity changes; the message about it may fail to arrive. *)
venue_delta(p, d, delivered) ==
    LET book == [ladder EXCEPT ![p] = @ + d]
    IN  /\ observed
        /\ changes < MaxChanges /\ changes' = changes + 1
        /\ book[p] \in 0 .. MaxQuantity
        /\ ladder' = book
        /\ next_seq(BookSid)
        /\ IF delivered
           THEN send([channel |-> "orderbook_delta", sid |-> BookSid, ts |-> now,
                      seq |-> seq[BookSid] + 1, content |-> [price |-> p, delta |-> d],
                      truth |-> book])
           ELSE up /\ UNCHANGED wire
        /\ UNCHANGED <<now, process, up, last_seq, polling, buffer, files, normalized,
                       trades, histories>>

venue_trade ==
    /\ observed
    /\ changes < MaxChanges /\ changes' = changes + 1
    /\ trades' = trades + 1
    /\ next_seq(TradeSid)
    /\ send([channel |-> "trade", sid |-> TradeSid, ts |-> now, seq |-> seq[TradeSid] + 1,
             content |-> trades + 1, truth |-> ladder])
    /\ UNCHANGED <<now, process, up, last_seq, polling, buffer, files, normalized,
                   ladder, histories>>

tick ==
    /\ now < MaxTime /\ observed
    /\ now' = now + 1
    /\ UNCHANGED <<process, link, polling, buffer, files, normalized, venue, histories>>

-----------------------------------------------------------------------------
(* The capture commands. *)

(* A process starts with an empty store object and a new client. *)
start ==
    /\ phase = "down" /\ starts < MaxStarts /\ normalized = <<>>
    /\ starts' = starts + 1
    /\ phase' = CASE command = "capture_weather" -> "discover"
                  [] command = "capture_ws" -> "session"
                  [] command = "capture_rest" -> "poll"
    /\ buffer' = <<>>
    /\ UNCHANGED <<now, command, last_tickers, link, polling, files, normalized, venue,
                   histories>>

(* _run_loop's discovery.  A time-out keeps the markets of the last one;   *)
(* without markets the loop sleeps and asks again.                         *)
discover(outcome) ==
    /\ phase = "discover"
    /\ LET found == IF outcome = "timeout" THEN last_tickers ELSE outcome = "found"
       IN  /\ phase' = IF found THEN "session" ELSE "discover"
           /\ last_tickers' = (found \/ last_tickers)
    /\ UNCHANGED <<now, command, starts, link, polling, buffer, files, normalized, venue,
                   histories>>

(* _stream_once: connect and subscribe, on the first try or after backoff. *)
connect ==
    /\ phase = "session" /\ ~up
    /\ received < MaxMessages
    /\ up' = TRUE
    /\ seq' = [s \in DOMAIN seq |-> IF s = BookSid THEN 1 ELSE 0]
    /\ wire' = <<[channel |-> "orderbook_snapshot", sid |-> BookSid, ts |-> None, seq |-> 1,
                  content |-> ladder, truth |-> ladder]>>
    /\ UNCHANGED <<now, process, last_seq, polling, buffer, files, normalized, venue,
                   histories>>

(* The stream raises: stream sleeps and connects again; the client keeps   *)
(* its sequence numbers.                                                   *)
disconnect ==
    /\ up
    /\ up' = FALSE /\ wire' = <<>>
    /\ UNCHANGED <<now, process, seq, last_seq, polling, buffer, files, normalized, venue,
                   histories>>

(* One envelope is received and appended; a full buffer is flushed.  A     *)
(* flush that raises ends the session of capture_weather, which flushes    *)
(* again, and ends capture_ws without another flush.                       *)
receive(k) ==
    /\ up /\ wire # <<>>
    /\ LET m == Head(wire)
           rows == Append(buffer, message_to_envelope(m))
       IN  /\ received' = received + 1
           /\ append(rows, k)
           /\ IF ~append_raises(rows, k)
              THEN /\ wire' = Tail(wire)
                   /\ last_seq' = remember_sequence(m.sid, m.seq)
                   /\ buffer' = after_append(rows, k)
                   /\ UNCHANGED <<phase, up, polling, last_tickers, forgotten>>
              ELSE IF command = "capture_weather"
              THEN /\ phase' = "end session"
                   /\ up' = FALSE /\ wire' = <<>> /\ last_seq' = <<>>
                   /\ buffer' = after_append(rows, k)
                   /\ UNCHANGED <<polling, last_tickers, forgotten>>
              ELSE take_down(rows)
    /\ UNCHANGED <<now, command, starts, seq, normalized, venue>>

(* _stream_session returns: the session's time is up (a new client and a   *)
(* new discovery follow), or shutdown was asked for.                       *)
stop_session ==
    /\ phase = "session" /\ command = "capture_weather"
    /\ phase' = "end session"
    /\ up' = FALSE /\ wire' = <<>> /\ last_seq' = <<>>
    /\ UNCHANGED <<now, command, starts, last_tickers, seq, polling, buffer, files,
                   normalized, venue, histories>>

(* The flush after a session.  When it raises, the handler of the command  *)
(* flushes once more and the process ends, in any case.                    *)
end_session(k) ==
    /\ phase = "end session"
    /\ flush(buffer, k)
    /\ buffer' = after_flush(buffer, k)
    /\ phase' = IF flush_raises(buffer, k) THEN "last flush" ELSE "discover"
    /\ UNCHANGED <<now, command, starts, last_tickers, link, polling, normalized, venue,
                   histories>>

(* The flush in the finally clause of capture_weather, after a failure, a  *)
(* discovery that raised, the deadline or a signal; and the flush at the   *)
(* end of capture_ws and capture_rest.                                     *)
last_flush(k) ==
    /\ \/ phase \in {"last flush", "discover"}
       \/ phase = "session" /\ command = "capture_ws"
       \/ phase = "append trades" /\ answer = <<>>
    /\ flush(buffer, k)
    /\ take_down(buffer)
    /\ UNCHANGED <<now, command, starts, seq, normalized, venue, received>>

(* Mutant of new_trades: nothing is remembered from poll to poll. *)
new_trades_all(n) == in_order(Max({1, n - TradesLimit + 1}) .. n)

(* The trades of an answer that this process has not seen: the venue       *)
(* returns the latest TradesLimit.                                         *)
new_trades(n) == in_order((Max({1, n - TradesLimit + 1}) .. n) \ seen_trades)

rest_envelope(channel, content) ==
    [channel |-> channel, exchange_ts |-> None, received_at |-> now, sequence |-> None,
     content |-> content, sequence_gap |-> FALSE, id |-> received + 1, truth |-> ladder]

(* then, rest and seen are the phase, the answer and the memory that       *)
(* follow an append that does not raise.                                   *)
poll_append(row, k, then, rest, seen) ==
    LET rows == Append(buffer, row)
    IN  /\ received < MaxRestRows
        /\ received' = received + 1
        /\ append(rows, k)
        /\ IF append_raises(rows, k)
           THEN take_down(rows)
           ELSE /\ buffer' = after_append(rows, k)
                /\ phase' = then /\ answer' = rest /\ seen_trades' = seen
                /\ UNCHANGED <<up, wire, last_seq, last_tickers, forgotten>>
        /\ UNCHANGED <<now, command, starts, seq, normalized, venue>>

(* capture_kalshi_rest_polls: each poll appends the book, asks for the     *)
(* latest trades and appends the ones not seen yet, one by one.  A flush   *)
(* that raises ends the process without another flush.                     *)
poll_book(k) ==
    /\ phase = "poll"
    /\ poll_append(rest_envelope("book", ladder), k, "trades", <<>>, seen_trades)

get_trades ==
    /\ phase = "trades"
    /\ phase' = "append trades"
    /\ answer' = new_trades(trades)
    /\ UNCHANGED <<now, command, starts, last_tickers, link, seen_trades, buffer, files,
                   normalized, venue, histories>>

poll_trade(k) ==
    /\ phase = "append trades" /\ answer # <<>>
    /\ poll_append(rest_envelope("trade", Head(answer)), k, phase, Tail(answer),
                   seen_trades \cup {Head(answer)})

next_poll ==
    /\ phase = "append trades" /\ answer = <<>>
    /\ phase' = "poll"
    /\ UNCHANGED <<now, command, starts, last_tickers, link, polling, buffer, files,
                   normalized, venue, histories>>

(* The process is killed, or is killed while it flushes: k partitions are  *)
(* written, and the file of the next one may be cut short.                 *)
kill(k, torn) ==
    /\ phase # "down"
    /\ LET parts == by_partition(buffer)
       IN  /\ k \in 0 .. Len(parts)
           /\ torn => k < Len(parts)
           /\ k > 0 \/ torn => phase \in {"end session", "last flush"}
           /\ files' = files \o SubSeq(parts, 1, k)
                         \o (IF torn THEN <<[torn |-> TRUE, rows |-> <<>>]>> ELSE <<>>)
    /\ take_down(buffer)
    /\ UNCHANGED <<now, command, starts, seq, normalized, venue, received>>

-----------------------------------------------------------------------------
(* Normalization. *)

event_time(r) == IF r.exchange_ts = None THEN r.received_at ELSE r.exchange_ts

(* envelope_sort_key.  A channel sorts by its name: book, orderbook_delta, *)
(* orderbook_snapshot, trade.                                              *)
channel_rank(r) == CHOOSE k \in 1 .. 4 :
    <<"book", "orderbook_delta", "orderbook_snapshot", "trade">>[k] = r.channel

(* str(n): the digits of a number, and nothing for no number. *)
text(n) ==
    LET length == CHOOSE k \in 1 .. n + 1 :
                      n < Radix ^ k /\ (k = 1 \/ n >= Radix ^ (k - 1))
    IN  IF n = None THEN <<>>
        ELSE [i \in 1 .. length |-> (n \div Radix ^ (length - i)) % Radix]

text_before(s, t) ==
    \E i \in DOMAIN t :
        /\ \A j \in 1 .. i - 1 : j \in DOMAIN s /\ s[j] = t[j]
        /\ i \in DOMAIN s => s[i] < t[i]

(* Where each of the sequence numbers sorts as text. *)
ranks(numbers) ==
    [n \in numbers |-> Cardinality({m \in numbers : text_before(text(m), text(n))})]

sort_key(r, rank) ==
    <<event_time(r), r.received_at, channel_rank(r), rank[r.sequence]>>

key_before(a, b) ==
    \E i \in DOMAIN a : a[i] < b[i] /\ \A j \in 1 .. i - 1 : a[j] = b[j]

(* The orders the paths of files can sort in.  A path ends in a random     *)
(* name, so files that hold rows of equal keys stand in any order to each  *)
(* other; where the other files stand makes no difference.                 *)
path_orders(fs) ==
    LET keys(f) == {<<event_time(r), r.received_at, r.channel, r.sequence>> :
                        r \in ToSet(fs[f].rows)}
        tied == {f \in DOMAIN fs : \E g \in DOMAIN fs \ {f} : keys(f) \cap keys(g) # {}}
    IN  {[f \in DOMAIN fs |-> IF f \in tied THEN o[f] ELSE f] : o \in Bijection(tied, tied)}

(* Rows with equal keys keep the order of the files and of the rows in     *)
(* them.                                                                   *)
read(fs, order) ==
    LET places == UNION {{<<f, i>> : i \in DOMAIN fs[f].rows} : f \in DOMAIN fs}
        row(x) == fs[x[1]].rows[x[2]]
        rank == ranks({row(x).sequence : x \in places})
        keyed == {[key |-> sort_key(row(x), rank) \o <<order[x[1]], x[2]>>,
                   row |-> row(x)] : x \in places}
        earlier(e) == {y \in keyed : key_before(y.key, e.key)}
        placed == {[place |-> Cardinality(earlier(e)) + 1, row |-> e.row] : e \in keyed}
    IN  [k \in 1 .. Cardinality(keyed) |-> (CHOOSE p \in placed : p.place = k).row]

(* normalize_orderbook_delta: a level of nothing is removed. *)
apply_delta(book, c) == [book EXCEPT ![c.price] = Max({0, @ + c.delta})]

(* KalshiNormalizer over the rows in replay order: a snapshot replaces the *)
(* ladder, a delta changes it, and each of them emits the full book; a     *)
(* REST book is emitted as it is.                                          *)
normalizer(book, r) ==
    CASE r.channel = "orderbook_snapshot" -> r.content
      [] r.channel = "orderbook_delta" -> apply_delta(book, r.content)
      [] OTHER -> book

replay(rows) ==
    LET book[k \in 0 .. Len(rows)] == IF k = 0 THEN Empty ELSE normalizer(book[k - 1], rows[k])
    IN  [k \in DOMAIN rows |->
            [row |-> rows[k], shows |-> IF rows[k].channel = "book" THEN rows[k].content
                                        ELSE book[k]]]

(* normalize_event_lake: a file cut short makes every read raise. *)
normalize ==
    /\ phase = "down" /\ normalized = <<>> /\ files # <<>>
    /\ \A f \in ToSet(files) : ~f.torn
    /\ \E rows \in {read(files, order) : order \in path_orders(files)} :
          normalized' = replay(rows)
    /\ UNCHANGED <<now, process, link, polling, buffer, files, venue, histories>>

Next ==
    \/ \E p \in Prices, d \in {-1, 1}, delivered \in BOOLEAN : venue_delta(p, d, delivered)
    \/ venue_trade
    \/ tick
    \/ start
    \/ \E o \in {"found", "none", "timeout"} : discover(o)
    \/ connect
    \/ disconnect
    \/ \E k \in 0 .. 2 : receive(k)
    \/ stop_session
    \/ \E k \in 0 .. 2 : end_session(k)
    \/ \E k \in 0 .. 2 : last_flush(k)
    \/ \E k \in 0 .. 2 : poll_book(k)
    \/ get_trades
    \/ \E k \in 0 .. 2 : poll_trade(k)
    \/ next_poll
    \/ \E k \in 0 .. 2, torn \in BOOLEAN : kill(k, torn)
    \/ normalize

Spec == Init /\ [][Next]_vars

-----------------------------------------------------------------------------
(* The store's objects have their types. *)
CaptureTypeOK ==
    /\ phase \in {"down", "discover", "session", "end session", "last flush", "poll",
                  "trades", "append trades"}
    /\ up => phase = "session"
    /\ Len(buffer) < BatchSize \/ phase \in {"end session", "last flush"}
    /\ Len(last_seq) <= MaxSequenceCache
    /\ ladder \in [Prices -> 0 .. MaxQuantity]
    /\ \A f \in ToSet(files) : \A i, j \in DOMAIN f.rows :
          day(f.rows[i].received_at) = day(f.rows[j].received_at)

(* ParquetEventStore loses no envelope while its process lives: through    *)
(* batches, sessions, midnight and writes that fail part of the way, every *)
(* envelope appended is in the buffer or in a file, until a process dies   *)
(* with it in its buffer.                                                  *)
AppendedIsKept ==
    \A id \in 1 .. received : id \notin forgotten => id \in ids(buffer) \cup ids_on_file(files)

(* The replayed book is the venue's: where the replay order keeps the      *)
(* order of arrival since the last snapshot and no envelope since then is  *)
(* marked with a sequence gap, the book KalshiNormalizer emits is the book *)
(* the venue had after that message, whatever was lost, flushed, rotated,  *)
(* reconnected or restarted in between.                                    *)
ReplayedBookIsTheVenues ==
    LET row(k) == normalized[k].row
        ws == {k \in DOMAIN normalized : row(k).channel \in {"orderbook_snapshot", "orderbook_delta"}}
        intact(j, k) == /\ row(j).channel = "orderbook_snapshot"
                        /\ \A x \in ws \cap (j + 1 .. k) :
                              row(x).channel = "orderbook_delta" /\ ~row(x).sequence_gap
                        /\ \A x, y \in ws \cap (j .. k) : x < y => row(x).id < row(y).id
                        /\ \A x \in ws : row(x).id \in row(j).id .. row(k).id => x \in j .. k
    IN  \A j, k \in ws : j <= k /\ intact(j, k) => normalized[k].shows = row(k).truth

ids_of(rows, t) ==
    {rows[i].id : i \in {j \in DOMAIN rows : rows[j].channel = "trade" /\ rows[j].content = t}}

(* "Trades are only appended once so repeated /markets/trades calls do not *)
(* inflate passive fill volume": a REST trade is stored once for every     *)
(* process that polled it, unless a flush failed part of the way.          *)
TradesNotInflated ==
    command = "capture_rest" =>
        \A t \in 1 .. trades :
            Cardinality(ids_of(buffer, t) \cup UNION {ids_of(files[f].rows, t) : f \in DOMAIN files})
                <= starts
=============================================================================
