-------------------------------- MODULE Lake --------------------------------
(***************************************************************************)
(* The event lake over its life (storage/parquet_store.py): three trees of *)
(* day partitions (raw envelopes, normalized events, rejects), the         *)
(* normalizer that fills two of them from the third                        *)
(* (normalization/kalshi.py, pipeline.py), private data that is redacted   *)
(* when it is written and expires, and files of older and newer builds.    *)
(* world.disk is the part files in the order they were written.            *)
(***************************************************************************)
EXTENDS Studies

CONSTANTS LakeMessages,     \* what may be captured: [channel, source, secret, content]
          FoundFiles,       \* partitions of other builds: [version, column]
          LakeBatch,        \* batch_size
          Retention         \* retention_days

SchemaVersion == 1
NoVersion == 0              \* a file without the marker or without the column

(* cutoff, of the last sweep, swept, whether the normalizer has not run    *)
(* since, and of a file written_by, the version that wrote it, are history. *)
LakeWorlds == {[buffer |-> <<>>, disk |-> <<>>, count |-> 0, cutoff |-> 0, swept |-> FALSE]}

-----------------------------------------------------------------------------
(* Writing. *)

PrivateChannels == {"fill", "orders", "own_order_update"}

private_source(e) == e.source = "portfolio"
private_channel(e) == e.channel \in PrivateChannels

(* _is_private_payload *)
is_private_payload(e) == private_source(e) \/ private_channel(e)

(* _envelope_to_row, _payload_for_storage, _redact_private_payload. *)
envelope_to_row(e) == [e EXCEPT !.secret = @ /\ ~is_private_payload(e)]

(* _normalized_event_to_row writes an event as it is; the row is dated by  *)
(* the event's own received_at.                                            *)
part_file(tree, e, rows) ==
    [tree |-> tree, source |-> e.source, channel |-> e.channel, day |-> e.at,
     version |-> SchemaVersion, column |-> SchemaVersion, written_by |-> SchemaVersion,
     rows |-> rows]

(* The partition of a row: raw by source, rejects by source and channel,   *)
(* normalized by kind (here its channel), each of them by day.             *)
partition(tree, e) ==
    CASE tree = "raw" -> <<e.source, e.at>>
      [] tree = "rejects" -> <<e.source, e.channel, e.at>>
      [] tree = "normalized" -> <<e.channel, e.at>>

(* _flush_raw, _flush_normalized, _flush_rejects. *)
flushed(tree, rows) ==
    LET first(k) == \A j \in 1 .. k - 1 : partition(tree, rows[j]) # partition(tree, rows[k])
        leads == SelectSeq([k \in DOMAIN rows |-> k], first)
    IN  mapped(leads, LAMBDA k :
            part_file(tree, rows[k],
                      SelectSeq(rows, LAMBDA r : partition(tree, r) = partition(tree, rows[k]))))

flush_buffer(w) == [w EXCEPT !.buffer = <<>>, !.disk = @ \o flushed("raw", mapped(w.buffer, envelope_to_row))]

(* ParquetEventStore.append *)
lake_append ==
    \E m \in LakeMessages :
        LET e == m @@ [at |-> today, id |-> world.count + 1]
            next == [world EXCEPT !.buffer = Append(@, e), !.count = @ + 1]
        IN  calls(IF Len(next.buffer) >= LakeBatch THEN flush_buffer(next) ELSE next)

lake_flush == world.buffer # <<>> /\ calls(flush_buffer(world))

(* A raw partition another build has written. *)
lake_found ==
    \E f \in FoundFiles :
        /\ \A d \in Range(world.disk) : d.version = SchemaVersion
        /\ happens([world EXCEPT !.disk = Append(@,
                [tree |-> "raw", source |-> "other", channel |-> "ticker", day |-> today,
                 written_by |-> f.version, rows |-> <<>>] @@ f)])

-----------------------------------------------------------------------------
(* Reading. *)

(* _read_table_checked: a newer file is refused, an older one read as it   *)
(* is; a current one must carry the version in every row.                  *)
readable(f) ==
    \/ f.version < SchemaVersion
    \/ f.version = SchemaVersion /\ f.column = SchemaVersion

tree_files(tree) == SelectSeq(world.disk, LAMBDA f : f.tree = tree)

(* _yield_envelopes and its likes: the merge of sorted files. Raw rows by  *)
(* time, here the order of arrival; the events of one envelope by their    *)
(* event id, in which no comes before yes.                                 *)
read_tree(tree) ==
    LET rows == FlattenSeq(mapped(tree_files(tree), LAMBDA f : f.rows))
    IN  sorted_by(rows, LAMBDA r : 2 * r.id + (IF r.content.side = "yes" THEN 1 ELSE 0))

-----------------------------------------------------------------------------
(* Normalizing. A price that is not quoted is Missing. *)

(* _invert_probability *)
invert_probability(p) == IF p = Missing THEN Missing ELSE Dollar - p

(* normalize_ticker: a quote for each side that has a price. *)
normalize_ticker(c) ==
    LET quote(side, bid, ask) == [side |-> side, bid |-> bid, ask |-> ask]
        both == <<quote("yes", c.bid, c.ask),
                  quote("no", invert_probability(c.ask), invert_probability(c.bid))>>
    IN  SelectSeq(both, LAMBDA q : q.bid # Missing \/ q.ask # Missing)

(* _trade_price: a trade carries the price of the taker's own side. *)
trade_price(c) == IF c.side = "no" THEN invert_probability(c.price) ELSE c.price

normalize_trade(c) == <<[side |-> c.side, price |-> trade_price(c)]>>

(* _lifecycle_kind: what it does not know is LISTED. *)
lifecycle_kind(type) ==
    CASE type = "activated" -> "OPENED"
      [] type = "deactivated" -> "PAUSED"
      [] type = "determined" -> "DETERMINED"
      [] type = "settled" -> "FINALIZED"
      [] OTHER -> "LISTED"

normalize_lifecycle(c) == <<[side |-> "none", kind |-> lifecycle_kind(c.type)]>>

(* EventNormalizer.normalize: the handler of the channel; none for the     *)
(* account's own orders. No events is a reject.                            *)
events_of(row) ==
    LET contents == CASE row.channel = "ticker" -> normalize_ticker(row.content)
                      [] row.channel = "trade" -> normalize_trade(row.content)
                      [] row.channel = "market_lifecycle_v2" -> normalize_lifecycle(row.content)
                      [] OTHER -> <<>>
    IN  mapped(contents, LAMBDA c : [row EXCEPT !.content = c])

(* NormalizationPipeline.run over the raw tree, then flush. It reads       *)
(* everything again each time; one file it cannot read stops it.           *)
lake_normalize ==
    /\ \A f \in Range(tree_files("raw")) : readable(f)
    /\ LET rows == read_tree("raw")
           rejects == SelectSeq(rows, LAMBDA r : events_of(r) = <<>>)
           events == FlattenSeq(mapped(rows, events_of))
       IN  calls([world EXCEPT !.swept = FALSE,
                               !.disk = @ \o flushed("normalized", events)
                                          \o flushed("rejects", mapped(rejects, envelope_to_row))])

(* A backtest reads the events back (NormalizedReplaySource). *)
lake_replay ==
    /\ \A f \in Range(tree_files("normalized")) : readable(f)
    /\ write("replay", read_tree("normalized"))

-----------------------------------------------------------------------------
(* Housekeeping. *)

(* Mutant of migrated: the marker is set and the column is forgotten. *)
migrated_marker_only(f) == [f EXCEPT !.version = SchemaVersion]

(* _migrate_partition_file: the column is added where there is none. *)
migrated(f) ==
    [f EXCEPT !.version = SchemaVersion,
              !.column = IF @ = NoVersion THEN SchemaVersion ELSE @]

(* migrate_event_lake: every tree, in place. *)
lake_migrate == calls([world EXCEPT !.disk = mapped(@, migrated)])

(* _private_partition_file: raw paths do not tell the channel. *)
private_file(f) ==
    \/ f.tree \in {"raw", "rejects"} /\ private_source(f)
    \/ f.tree = "rejects" /\ private_channel(f)

(* expire_private_partitions flushes first. *)
lake_expire ==
    LET cutoff == today - Retention
        next == flush_buffer(world)
    IN  calls([next EXCEPT !.disk = SelectSeq(@, LAMBDA f : ~(private_file(f) /\ f.day < cutoff)),
                                !.cutoff = Max({@, cutoff}),
                                !.swept = TRUE])

LakeNext ==
    \/ time_passes
    \/ lake_append \/ lake_flush \/ lake_found
    \/ lake_normalize \/ lake_replay
    \/ lake_migrate \/ lake_expire

-----------------------------------------------------------------------------
(* Nothing private is on disk unredacted, by whichever tree it got there   *)
(* and however late it was flushed.  Files of a private source do not      *)
(* outlive the last sweep, nor do rejects of a private channel until the   *)
(* normalizer rejects their raw envelopes again, which a sweep of sources  *)
(* keeps.  Through migrations a file stays readable if this build or an    *)
(* older one wrote it, and one of a newer build never becomes readable:    *)
(* migrate_event_lake stamps it too, against its docstring (missing or     *)
(* older markers), but keeps the newer version of its rows.  The two       *)
(* quotes a replay sees for a ticker are two views of one book.            *)
LakeBooks ==
    /\ \A f \in Range(world.disk) :
        /\ \A r \in Range(f.rows) : r.secret => ~private_source(r) /\ ~private_channel(r)
        /\ private_file(f) /\ (private_source(f) \/ world.swept) => f.day >= world.cutoff
        /\ readable(f) <=> f.written_by <= SchemaVersion
    /\ written("replay") =>
        \A q, p \in {r \in Range(files["replay"]) : r.channel = "ticker"} :
            q.id = p.id /\ q.content.side = "yes" /\ p.content.side = "no" =>
                /\ q.content.bid # Missing => p.content.ask = Dollar - q.content.bid
                /\ p.content.bid # Missing => q.content.ask = Dollar - p.content.bid
                /\ (p.content.ask = Missing) = (q.content.bid = Missing)
=============================================================================
