------------------------------- MODULE Updater -------------------------------
(* The updates osrm-contract and osrm-customize make to a dataset before they *)
(* use it (src/updater/updater.cpp): speeds of segments and penalties of turns *)
(* from CSV files, and the conditional turn restrictions of the moment.  The  *)
(* weights and durations of segments are packed values in words that several  *)
(* threads change at once.                                                    *)
(*                                                                            *)
(* An update is [speeds, turns, valid_now, tz_file]: two sequences of files,  *)
(* the time given (0 for none), and the time zone file.  A file is [name,     *)
(* rows, malformed], a row [key, value] with OSM nodes as its key.            *)
EXTENDS OsmImport, FiniteSetsExt

CONSTANTS
  WORD_BITS,             \* of a word of a packed vector, 64 in the code
  SEGMENT_BITS,          \* of a segment's weight or duration, 22 in the code
  MaxSources,            \* files of one update, 255 in the code
  INVALID_TURN_PENALTY,  \* 32767 in the code
  OpeningHoursOf         \* the parsed opening hours of every condition

ASSUME PackedConfig == 0 < SEGMENT_BITS /\ SEGMENT_BITS <= WORD_BITS

VARIABLES
  files,     \* what osrm-extract wrote
  update     \* the state of the update

updateVars == <<files, update>>

INVALID_SEGMENT == 2 ^ SEGMENT_BITS - 1
MAX_SEGMENT == INVALID_SEGMENT - 1
INVALID_EDGE_WEIGHT == 1000000

-----------------------------------------------------------------------------
(* util::PackedVector.  A vector is a function from 0..n-1 to words.  A mask  *)
(* stands for bits of a word: width of them from first on, which hold the     *)
(* bits of the value from shift on.                                           *)
BLOCK_WORDS == (SEGMENT_BITS * WORD_BITS) \div WORD_BITS

word_offset(element) == (element * SEGMENT_BITS) \div WORD_BITS
local_offset(element) == (element * SEGMENT_BITS) % WORD_BITS
Sliced(element) == local_offset(element) + SEGMENT_BITS > WORD_BITS

lower_mask(element) ==
  [first |-> local_offset(element), shift |-> 0,
   width |-> IF Sliced(element) THEN WORD_BITS - local_offset(element) ELSE SEGMENT_BITS]
upper_mask(element) ==
  [first |-> 0,
   shift |-> IF Sliced(element) THEN WORD_BITS - local_offset(element) ELSE SEGMENT_BITS,
   width |-> IF Sliced(element) THEN local_offset(element) + SEGMENT_BITS - WORD_BITS ELSE 0]

get_internal_index(i) ==
  [lower_word |-> BLOCK_WORDS * (i \div WORD_BITS) + word_offset(i % WORD_BITS),
   element |-> i % WORD_BITS]

Masked(word, mask) == (word \div 2 ^ mask.first) % 2 ^ mask.width
get_half_value(word, mask) == Masked(word, mask) * 2 ^ mask.shift
set_half_value(word, mask, value) ==
  word + (((value \div 2 ^ mask.shift) % 2 ^ mask.width) - Masked(word, mask)) * 2 ^ mask.first

get_value(vec, i) ==
  LET at == get_internal_index(i)
  IN get_half_value(vec[at.lower_word], lower_mask(at.element))
     + get_half_value(vec[at.lower_word + 1], upper_mask(at.element))

\* set_value where no other thread is at work.
set_value(vec, i, value) ==
  LET at == get_internal_index(i)
  IN [vec EXCEPT ![at.lower_word] = set_half_value(@, lower_mask(at.element), value),
                 ![at.lower_word + 1] = set_half_value(@, upper_mask(at.element), value)]

push_back(vec, i, value) ==
  LET size == Cardinality(DOMAIN vec)
      full == get_internal_index(i).lower_word + 1 >= size
      grown == [k \in 0..(size + BLOCK_WORDS - 1) |-> IF k < size THEN vec[k] ELSE 0]
  IN set_value(IF full THEN grown ELSE vec, i, value)

Packed(values) ==
  InTurn(LAMBDA vec, i : push_back(vec, i - 1, values[i]), [k \in {} |-> 0], [i \in DOMAIN values |-> i])

-----------------------------------------------------------------------------
(* SegmentDataContainer.  A geometry is [id, forward], and a vector of the    *)
(* container is a pair by direction.  Slots are counted from 0.               *)
Clip(value) == IF value >= INVALID_SEGMENT THEN MAX_SEGMENT ELSE value

ToSegmentData(lists) ==
  LET flat == FlattenSeq(lists)
      of(dir, field) ==
        Packed([i \in DOMAIN flat |-> IF flat[i][dir].weight < 0 THEN INVALID_SEGMENT
                                      ELSE Clip(flat[i][dir][field])])
  IN [index |-> [k \in 1..(Len(lists) + 1) |-> Len(FlattenSeq(SubSeq(lists, 1, k - 1)))],
      nodes |-> [i \in DOMAIN flat |-> flat[i].node],
      weights |-> [d \in BOOLEAN |-> of(IF d THEN "forward" ELSE "reverse", "weight")],
      durations |-> [d \in BOOLEAN |-> of(IF d THEN "forward" ELSE "reverse", "duration")],
      datasources |-> [d \in BOOLEAN |-> [i \in 0..(Len(flat) - 1) |-> 0]]]

Geometries(c) == 1..(Len(c.index) - 1)
GetForwardGeometry(c, id) == SubSeq(c.nodes, c.index[id] + 1, c.index[id + 1])

\* The slots of a geometry in the order of travel.
Slots(c, g) ==
  [k \in 1..(c.index[g.id + 1] - c.index[g.id] - 1) |->
     IF g.forward THEN c.index[g.id] + k ELSE c.index[g.id + 1] - 1 - k]
GetWeights(c, g) == LET s == Slots(c, g) IN [k \in DOMAIN s |-> get_value(c.weights[g.forward], s[k])]
GetDurations(c, g) == LET s == Slots(c, g) IN [k \in DOMAIN s |-> get_value(c.durations[g.forward], s[k])]
GetDatasources(c, g) == LET s == Slots(c, g) IN [k \in DOMAIN s |-> c.datasources[g.forward][s[k]]]

-----------------------------------------------------------------------------
(* CSV files.  Files are parsed in parallel and merged in any order, then     *)
(* sorted by key and file; the sort is not stable, so that of two rows of one *)
(* file with the same key either may be kept.                                 *)
CSVKeys(csv) == UNION {{csv[i].rows[j].key : j \in DOMAIN csv[i].rows} : i \in DOMAIN csv}
LastSource(csv, key) == Max({i \in DOMAIN csv : \E j \in DOMAIN csv[i].rows : csv[i].rows[j].key = key})
KeptRows(csv, key) ==
  LET last == LastSource(csv, key)
  IN {[value |-> csv[last].rows[j].value, source |-> last] :
        j \in {k \in DOMAIN csv[last].rows : csv[last].rows[k].key = key}}
LookupTables(csv) ==
  LET tied == {key \in CSVKeys(csv) : Cardinality(KeptRows(csv, key)) > 1}
      picks == {p \in [tied -> UNION {KeptRows(csv, key) : key \in tied}] :
                  \A key \in tied : p[key] \in KeptRows(csv, key)}
  IN {[key \in CSVKeys(csv) |-> IF key \in tied THEN p[key] ELSE CHOOSE r \in KeptRows(csv, key) : TRUE] :
        p \in picks}
Malformed(csv) == \E i \in DOMAIN csv : csv[i].malformed

-----------------------------------------------------------------------------
(* New values of a segment: speeds are in km/h, distances in metres, and      *)
(* durations in tenths of a second.                                           *)
\* A rate or weight that has no column, and one whose column is empty.
NotGiven == 1000001
Blank == 1000002

\* std::round of n / d.
Round(n, d) == IF n >= 0 THEN (2 * n + d) \div (2 * d) ELSE -((d - 2 * n) \div (2 * d))
Clamped(value) == IF value >= INVALID_SEGMENT THEN MAX_SEGMENT ELSE IF value < 1 THEN 1 ELSE value

convertToDuration(speed, distance) ==
  IF speed <= 0 THEN INVALID_SEGMENT ELSE Clamped(Round(distance * 36, speed))

convertToWeight(existing, value, distance) ==
  IF value.rate = Blank THEN existing
  ELSE IF value.rate = NotGiven
       THEN IF value.speed <= 0 THEN INVALID_SEGMENT
            ELSE Clamped(Round(distance * 36 * WeightMultiplier, value.speed * 10))
  ELSE IF value.rate <= 0 THEN INVALID_SEGMENT
  ELSE Clamped(Round(distance * WeightMultiplier, value.rate))

-----------------------------------------------------------------------------
(* updateSegmentData.  Two threads have a part of the geometries each.  A     *)
(* task is a segment with a new speed; the tasks of a geometry are those of   *)
(* its forward and then those of its reverse direction.                       *)
Threads == {"first", "second"}

TasksOf(c, ids, lookup, id, forward) ==
  LET nodes == GetForwardGeometry(c, id)
      key(k) == IF forward THEN <<ids[nodes[k]], ids[nodes[k + 1]]>> ELSE <<ids[nodes[k + 1]], ids[nodes[k]]>>
      listed == SelectSeq([k \in 1..(Len(nodes) - 1) |-> k],
                          LAMBDA k : key(k)[1] # key(k)[2] /\ key(k) \in DOMAIN lookup)
      task(k) == [geometry |-> [id |-> id, forward |-> forward],
                  slot |-> IF forward THEN c.index[id] + k ELSE c.index[id] + k - 1,
                  value |-> lookup[key(k)].value, source |-> lookup[key(k)].source,
                  distance |-> Distance(key(k)[1], key(k)[2])]
  IN [j \in DOMAIN listed |-> task(listed[j])]

RangeTasks(c, ids, lookup, first, last) ==
  FlattenSeq([i \in 1..(last - first + 1) |->
    TasksOf(c, ids, lookup, first + i - 1, TRUE) \o TasksOf(c, ids, lookup, first + i - 1, FALSE)])

NoWord == -1

\* What a thread does for a task: it reads the weight there is, lower word and
\* upper word, and sets the new weight, the new duration and the source.
Stages == <<"read lower", "read upper", "weight lower", "weight upper",
            "duration lower", "duration upper", "source">>

ThreadStarts(tasks) == [tasks |-> tasks, stage |-> 1, word |-> NoWord, existing |-> 0]

Stage(t) == Stages[update.jobs[t].stage]
Task(t) == Head(update.jobs[t].tasks)
Vector(t) == IF Stage(t) \in {"duration lower", "duration upper"} THEN "durations" ELSE "weights"
OnLower(t) == Stage(t) \in {"read lower", "weight lower", "duration lower"}
WordOf(t) ==
  get_internal_index(Task(t).slot).lower_word + IF OnLower(t) THEN 0 ELSE 1
MaskOf(t) ==
  LET element == get_internal_index(Task(t).slot).element
  IN IF OnLower(t) THEN lower_mask(element) ELSE upper_mask(element)
CurrentWord(t) == update.segment_data[Vector(t)][Task(t).geometry.forward][WordOf(t)]
NewValue(t) ==
  IF Vector(t) = "durations" THEN convertToDuration(Task(t).value.speed, Task(t).distance)
  ELSE convertToWeight(update.jobs[t].existing, Task(t).value, Task(t).distance)

AtWork(t) == update.pc = "segments" /\ update.jobs[t].tasks # << >>

ReadExisting(t) ==
  /\ AtWork(t) /\ Stage(t) \in {"read lower", "read upper"}
  /\ update' = [update EXCEPT !.jobs[t].stage = @ + 1,
                              !.jobs[t].existing = @ + get_half_value(CurrentWord(t), MaskOf(t))]
  /\ UNCHANGED files

LoadWord(t) ==
  /\ AtWork(t) /\ Stage(t) \notin {"read lower", "read upper", "source"}
  /\ update.jobs[t].word = NoWord
  /\ update' = [update EXCEPT !.jobs[t].word = CurrentWord(t)]
  /\ UNCHANGED files

\* Mutant: the word is stored without a look at what it is by now.
CompareAndSwap_Store(t) ==
  /\ AtWork(t) /\ update.jobs[t].word # NoWord
  /\ update' = [update EXCEPT
       !.segment_data[Vector(t)][Task(t).geometry.forward][WordOf(t)] =
          set_half_value(update.jobs[t].word, MaskOf(t), NewValue(t)),
       !.jobs[t].word = NoWord, !.jobs[t].stage = @ + 1]
  /\ UNCHANGED files

\* The word is swapped if it is still the one that was loaded, and loaded
\* again otherwise.
CompareAndSwap(t) ==
  /\ AtWork(t) /\ update.jobs[t].word # NoWord
  /\ update' =
       IF update.jobs[t].word # CurrentWord(t) THEN [update EXCEPT !.jobs[t].word = NoWord]
       ELSE [update EXCEPT
               !.segment_data[Vector(t)][Task(t).geometry.forward][WordOf(t)] =
                  set_half_value(update.jobs[t].word, MaskOf(t), NewValue(t)),
               !.jobs[t].word = NoWord, !.jobs[t].stage = @ + 1]
  /\ UNCHANGED files

SetDatasource(t) ==
  /\ AtWork(t) /\ Stage(t) = "source"
  /\ update' = [update EXCEPT
       !.segment_data.datasources[Task(t).geometry.forward][Task(t).slot] = Task(t).source,
       !.updated_segments = @ \cup {Task(t).geometry},
       !.jobs[t] = ThreadStarts(Tail(@.tasks))]
  /\ UNCHANGED files

-----------------------------------------------------------------------------
(* Opening hours, at a local time [minutes, wday, year, month, day].  A span  *)
(* is [from, to] in minutes, an event instead of a time being Event; days of  *)
(* the week are a pair; a date is [year, month, day] with 0 for what is not   *)
(* given.  A date that does not exist throws.                                 *)
Event == -1000

IsLeap(y) == y % 4 = 0 /\ (y % 100 # 0 \/ y % 400 = 0)
MonthLength(y, m) == IF m = 2 THEN (IF IsLeap(y) THEN 29 ELSE 28) ELSE IF m \in {4, 6, 9, 11} THEN 30 ELSE 31
IsDate(y, m, d) == m \in 1..12 /\ d \in 1..MonthLength(y, m)
DayNumber(y, m, d) ==
  LET before[k \in 1..12] == IF k = 1 THEN 0 ELSE before[k - 1] + MonthLength(y, k - 1)
  IN 365 * y + (y - 1) \div 4 - (y - 1) \div 100 + (y - 1) \div 400 + before[m] + d

TimeSpan(from, to) == [from |-> from, to |-> IF to < from THEN to + 24 * 60 ELSE to]

TimeSpanDays(span, time) ==
  IF Event \in {span.from, span.to} THEN [curr |-> FALSE, next |-> FALSE]
  ELSE IF span.to > 24 * 60 THEN [curr |-> span.from <= time.minutes, next |-> time.minutes < span.to - 24 * 60]
  ELSE [curr |-> span.from <= time.minutes /\ time.minutes < span.to, next |-> FALSE]

Weekdays(range) ==
  IF range[1] <= range[2] THEN range[1]..range[2] ELSE (0..6) \ ((range[2] + 1)..(range[1] - 1))
OvernightWeekdays(range) == {(d + 1) % 7 : d \in Weekdays(range)}
WeekdayInRange(range, time, days) ==
  \/ days.curr /\ time.wday \in Weekdays(range)
  \/ days.next /\ time.wday \in OvernightWeekdays(range)

\* A part of a date that is not given is 0; open-ended is [-1, 0, 0].
IsValid(d) == d.year > 0 \/ d.month # 0 \/ d.day # 0
AnyDate == [year |-> 0, month |-> 0, day |-> 0]
min_date_time == 0
max_date_time == 10000000

MonthdayInRange(range, time, days) ==
  LET given(part, default) == IF part = 0 THEN default ELSE part
      from == range.from
      to == range.to
      fy == given(from.year, time.year)
      fm == given(from.month, time.month)
      ty == given(to.year, fy)
      tm == given(to.month, fm)
      exists == /\ IsValid(from) => IsDate(fy, fm, given(from.day, 1))
                /\ IsValid(to) => IsDate(ty, tm, given(to.day, 1))
      first == IF IsValid(from) THEN DayNumber(fy, fm, given(from.day, 1)) ELSE min_date_time
      last == IF IsValid(to) THEN DayNumber(ty, tm, given(to.day, MonthLength(ty, tm)))
              ELSE IF to = AnyDate THEN first ELSE max_date_time
      inverse == from.year = 0 /\ to.year = 0 /\ first > last
      low == (IF inverse THEN last ELSE first) + IF days.curr THEN 0 ELSE 1
      high == (IF inverse THEN first ELSE last) + IF days.next THEN 1 ELSE 0
  IN IF ~exists THEN "throws"
     ELSE IF (DayNumber(time.year, time.month, time.day) \in low..high) # inverse THEN "yes" ELSE "no"

\* OpeningHours::IsInRange: the first time span that matches says which of the
\* two days the other ranges are about.
IsInRange(rule, time) ==
  LET spans == SelectSeq(rule.times, LAMBDA s : TimeSpanDays(s, time) # [curr |-> FALSE, next |-> FALSE])
      days == IF rule.times = << >> THEN [curr |-> TRUE, next |-> FALSE] ELSE TimeSpanDays(spans[1], time)
      dates == SelectSeq([i \in DOMAIN rule.monthdays |-> MonthdayInRange(rule.monthdays[i], time, days)],
                         LAMBDA x : x # "no")
  IN IF \/ rule.times = << >> /\ rule.weekdays = << >> /\ rule.monthdays = << >>
        \/ rule.times # << >> /\ spans = << >>
        \/ rule.weekdays # << >> /\ \A i \in DOMAIN rule.weekdays : ~WeekdayInRange(rule.weekdays[i], time, days)
     THEN "no"
     ELSE IF rule.monthdays = << >> THEN "yes" ELSE IF dates = << >> THEN "no" ELSE dates[1]

\* A rule that holds decides, unless a later one does; 24/7 ends the loop.
CheckOpeningHours(rules, time) ==
  LET step(answer, rule) ==
        IF answer \in {"always", "throws"} THEN answer
        ELSE IF rule.modifier = "24/7" THEN "always"
        ELSE CASE IsInRange(rule, time) = "throws" -> "throws"
               [] IsInRange(rule, time) = "no" -> answer
               [] OTHER -> IF rule.modifier = "open" THEN "yes" ELSE "no"
  IN FoldLeft(step, "no", rules)

\* Timezoner: a file that cannot be read, or a feature without the name of a
\* zone, throws; what is not a polygon is skipped.  A feature is [tzid, polygon,
\* nodes, time] with the nodes inside it and the local time of its zone.
TimezonerThrows(tz_file) == ~tz_file.readable \/ \E i \in DOMAIN tz_file.features : ~tz_file.features[i].tzid
LoadLocalTimesRTree(tz_file) == SelectSeq(tz_file.features, LAMBDA f : f.polygon)

\* The local times of the zones around a node; where zones overlap the order
\* of the r-tree's answer decides.
LocalTimes(zones, node) == {zones[i].time : i \in {j \in DOMAIN zones : node \in zones[j].nodes}}

\* IsRestrictionValid.
RestrictionAnswers(zones, node, condition) ==
  IF LocalTimes(zones, node) = {} THEN {"no"}
  ELSE {CheckOpeningHours(OpeningHoursOf[condition], time) : time \in LocalTimes(zones, node)}

-----------------------------------------------------------------------------
(* LoadAndUpdateEdgeExpandedGraph, before and between the loops.             *)
UpdateBegins(config, original) ==
  [pc |-> "load", config |-> config, original |-> original, updated_segments |-> {},
   jobs |-> [t \in Threads |-> ThreadStarts(<< >>)], segment_data |-> original.segment_data,
   edges |-> original.edges, nodes |-> original.nodes, penalties |-> original.penalties,
   accumulated |-> << >>]

Ended(pc) == pc \in {"done", "failed"}
Fails == update' = [update EXCEPT !.pc = "failed"] /\ UNCHANGED files

DatasourceNames == <<"lua profile">> \o [i \in DOMAIN update.config.speeds |-> update.config.speeds[i].name]

LoadFiles ==
  /\ update.pc = "load"
  /\ LET c == update.config
     IN IF c.speeds = << >> /\ c.turns = << >> /\ c.valid_now = 0
        THEN /\ files' = [files EXCEPT !.names = DatasourceNames]
             /\ update' = [update EXCEPT !.pc = "done", !.edges = files.edges, !.nodes = files.nodes]
        ELSE IF Len(c.speeds) + Len(c.turns) > MaxSources THEN Fails
        ELSE /\ update' = [update EXCEPT
                  !.pc = IF c.speeds # << >> THEN "speeds" ELSE "turns", !.edges = files.edges,
                  !.nodes = files.nodes, !.segment_data = files.segment_data,
                  !.penalties = files.penalties]
             /\ UNCHANGED files

ReadSpeeds ==
  /\ update.pc = "speeds"
  /\ IF Malformed(update.config.speeds) THEN Fails
     ELSE /\ \E lookup \in LookupTables(update.config.speeds) :
             \E split \in 0..Cardinality(Geometries(update.segment_data)) :
               LET c == update.segment_data
                   count == Cardinality(Geometries(c))
               IN update' = [update EXCEPT !.pc = "segments",
                    !.jobs = [t \in Threads |-> ThreadStarts(
                       IF t = "first" THEN RangeTasks(c, files.ids, lookup, 1, split)
                       ELSE RangeTasks(c, files.ids, lookup, split + 1, count))]]
          /\ UNCHANGED files

NoTasks == \A t \in Threads : update.jobs[t].tasks = << >>

WriteSegments ==
  /\ update.pc = "segments" /\ NoTasks
  /\ files' = [files EXCEPT !.segment_data = update.segment_data]
  /\ update' = [update EXCEPT !.pc = "turns"]

-----------------------------------------------------------------------------
(* Turn penalties: durations of the file are in hundredths of a second, and   *)
(* weights in hundredths.  A penalty out of a short's range throws.           *)
NewPenalty(value) ==
  LET duration == Round(value.duration, 10)
  IN [duration |-> duration,
      weight |-> IF value.weight = NotGiven THEN Round(duration * WeightMultiplier, 10)
                 ELSE Round(value.weight * WeightMultiplier, 100)]

InShort(n) == -INVALID_TURN_PENALTY <= n + 1 /\ n <= INVALID_TURN_PENALTY

GeometriesOf(turns) == {files.geometry[update.edges[k].source] : k \in turns}

updateTurnPenalties ==
  /\ update.pc = "turns"
  /\ IF Malformed(update.config.turns) THEN Fails
     ELSE \E lookup \in LookupTables(update.config.turns) :
            LET osm(k) == [i \in 1..3 |-> files.ids[files.turn_index[k][i]]]
                listed == {k \in DOMAIN files.turn_index : osm(k) \in DOMAIN lookup}
                new == [k \in listed |-> NewPenalty(lookup[osm(k)].value)]
            IN IF \E k \in listed : ~InShort(new[k].duration) \/ ~InShort(new[k].weight) THEN Fails
               ELSE /\ update' = [update EXCEPT
                         !.pc = IF update.config.valid_now # 0 THEN "conditionals" ELSE "accumulate",
                         !.penalties = [k \in DOMAIN @ |-> IF k \in listed THEN new[k] ELSE @[k]],
                         !.updated_segments = @ \cup GeometriesOf(listed)]
                    /\ UNCHANGED files

\* A turn that is restricted now; its location is the node it is made at.
updateConditionalTurns ==
  /\ update.pc = "conditionals"
  /\ IF update.config.valid_now < 0 \/ TimezonerThrows(update.config.tz_file) THEN Fails
     ELSE LET cs == files.conditionals
              zones == LoadLocalTimesRTree(update.config.tz_file)
              via(i) == files.ids[files.turn_index[cs[i].turn][2]]
              possible == [i \in DOMAIN cs |->
                             RestrictionAnswers(zones, via(i), cs[i].condition)]
          IN \E answers \in {f \in [DOMAIN cs -> {"always", "yes", "no", "throws"}] :
                               \A i \in DOMAIN cs : f[i] \in possible[i]} :
               IF \E i \in DOMAIN cs : answers[i] = "throws" THEN Fails
               ELSE LET valid == {cs[i].turn : i \in {j \in DOMAIN cs : answers[j] # "no"}}
                    IN /\ update' = [update EXCEPT !.pc = "accumulate",
                            !.penalties = [k \in DOMAIN @ |->
                               IF k \in valid THEN [@[k] EXCEPT !.weight = INVALID_TURN_PENALTY] ELSE @[k]],
                            !.updated_segments = @ \cup GeometriesOf(valid)]
                       /\ UNCHANGED files

-----------------------------------------------------------------------------
(* The weights of the edge-based graph.                                       *)
Total(values) == FoldLeft(LAMBDA a, b : a + b, 0, values)

compute_new_weight_and_duration(c, g) ==
  LET weights == GetWeights(c, g)
  IN [weight |-> IF \E k \in DOMAIN weights : weights[k] = INVALID_SEGMENT THEN INVALID_EDGE_WEIGHT
                 ELSE Total(weights),
      duration |-> Total(GetDurations(c, g))]

Accumulate ==
  /\ update.pc = "accumulate"
  /\ LET found == SelectSeq([k \in DOMAIN update.edges |-> k],
                            LAMBDA k : files.geometry[update.edges[k].source] \in update.updated_segments)
     IN \E split \in 0..Len(found) :
          update' = [update EXCEPT
            !.pc = "edges",
            !.accumulated = [g \in update.updated_segments |->
                               compute_new_weight_and_duration(update.segment_data, g)],
            !.jobs = [t \in Threads |-> ThreadStarts(
               IF t = "first" THEN SubSeq(found, 1, split) ELSE SubSeq(found, split + 1, Len(found)))]]
  /\ UNCHANGED files

\* update_edge reads the mark of one-way roads in the node's weight and writes
\* the weight with it; every thread with an edge from the node does so.
ReadNode(t) ==
  /\ update.pc = "edges" /\ update.jobs[t].tasks # << >> /\ update.jobs[t].word = NoWord
  /\ update' = [update EXCEPT !.jobs[t].word = IF update.nodes[update.edges[Task(t)].source].oneway THEN 1 ELSE 0]
  /\ UNCHANGED files

update_edge(t) ==
  /\ update.pc = "edges" /\ update.jobs[t].tasks # << >> /\ update.jobs[t].word # NoWord
  /\ LET k == Task(t)
         edge == update.edges[k]
         g == files.geometry[edge.source]
         new == update.accumulated[g]
         penalty == update.penalties[edge.turn_id]
         least == Len(GetForwardGeometry(update.segment_data, g.id))
         low == penalty.weight + new.weight < least
         clamped == IF low /\ penalty.weight < 0 THEN least - new.weight ELSE penalty.weight
         weight == IF low /\ penalty.weight >= 0 THEN least ELSE new.weight
         removed == new.weight = INVALID_EDGE_WEIGHT
     IN update' = [update EXCEPT
          !.nodes[edge.source] = [oneway |-> update.jobs[t].word = 1, weight |-> new.weight,
                                  duration |-> new.duration],
          !.edges[k] = IF removed THEN [@ EXCEPT !.weight = INVALID_EDGE_WEIGHT]
                       ELSE [@ EXCEPT !.weight = weight + clamped, !.duration = new.duration + penalty.duration],
          !.penalties[edge.turn_id].weight = IF removed THEN @ ELSE clamped,
          !.jobs[t] = ThreadStarts(Tail(@.tasks))]
  /\ UNCHANGED files

Save ==
  /\ update.pc = "edges" /\ NoTasks
  /\ files' = [files EXCEPT !.names = DatasourceNames,
                            !.penalties = IF update.config.turns # << >> \/ update.config.valid_now # 0
                                          THEN update.penalties ELSE @]
  /\ update' = [update EXCEPT !.pc = "done"]

UpdateStep ==
  \/ LoadFiles \/ ReadSpeeds \/ WriteSegments
  \/ \E t \in Threads : ReadExisting(t) \/ LoadWord(t) \/ CompareAndSwap(t) \/ SetDatasource(t)
  \/ updateTurnPenalties \/ updateConditionalTurns \/ Accumulate
  \/ \E t \in Threads : ReadNode(t) \/ update_edge(t)
  \/ Save

-----------------------------------------------------------------------------
(* Properties.                                                                *)
\* The rows of a sequence of files that may count for a key: those of the last
\* file that has the key.
Counting(csv, key) ==
  {r \in UNION {{[value |-> csv[i].rows[j].value, source |-> i, key |-> csv[i].rows[j].key] :
                   j \in DOMAIN csv[i].rows} : i \in DOMAIN csv} :
     /\ r.key = key
     /\ \A i \in (r.source + 1)..Len(csv) : \A j \in DOMAIN csv[i].rows : csv[i].rows[j].key # key}

\* A whole number next to num / den, within what a segment can hold.
Near(n, num, den) ==
  \/ n \in 1..MAX_SEGMENT /\ 2 * (n * den - num) \in -den..den
  \/ n = 1 /\ num < den
  \/ n = MAX_SEGMENT /\ num >= n * den

\* What a segment from a to b becomes: a listed one gets the speed of a row
\* that counts, and its weight from the rate, the speed or what it was.
SegmentFits(a, b, old, new) ==
  LET rows == Counting(update.config.speeds, <<a, b>>)
      d == Distance(a, b)
      duration(v) == IF v.speed = 0 THEN new.duration = INVALID_SEGMENT ELSE Near(new.duration, 36 * d, v.speed)
      weight(v) == CASE v.rate = Blank -> new.weight = old.weight
                     [] v.rate = NotGiven /\ v.speed = 0 -> new.weight = INVALID_SEGMENT
                     [] v.rate = NotGiven -> Near(new.weight, 36 * d * WeightMultiplier, 10 * v.speed)
                     [] OTHER -> IF v.rate <= 0 THEN new.weight = INVALID_SEGMENT
                                 ELSE Near(new.weight, d * WeightMultiplier, v.rate)
  IN IF a = b \/ rows = {} THEN new = old
     ELSE \E r \in rows : duration(r.value) /\ weight(r.value) /\ new.source = r.source

SegmentAt(c, g, k) ==
  [weight |-> GetWeights(c, g)[k], duration |-> GetDurations(c, g)[k], source |-> GetDatasources(c, g)[k]]

\* The nodes of a geometry in the order of travel, as the file names them.
Route(g) ==
  LET nodes == GetForwardGeometry(files.segment_data, g.id)
      ids == [i \in DOMAIN nodes |-> files.ids[nodes[i]]]
  IN IF g.forward THEN ids ELSE Reverse(ids)

AllGeometries == [id : Geometries(files.segment_data), forward : BOOLEAN]

\* updateSegmentData: whatever the threads do to words that hold values of two
\* segments, every listed segment has its new values and every other its old.
SegmentsExact(c) ==
  LET old == update.original.segment_data
      ends(d, id) == <<get_value(d.weights[TRUE], d.index[id]), get_value(d.durations[TRUE], d.index[id]),
                       get_value(d.weights[FALSE], d.index[id + 1] - 1),
                       get_value(d.durations[FALSE], d.index[id + 1] - 1)>>
  IN /\ c.nodes = old.nodes /\ c.index = old.index
     /\ \A id \in Geometries(c) : ends(c, id) = ends(old, id)
     /\ \A g \in AllGeometries : \A k \in 1..(Len(Route(g)) - 1) :
          SegmentFits(Route(g)[k], Route(g)[k + 1], SegmentAt(old, g, k), SegmentAt(c, g, k))

\* A rule holds at a time if a span that began that day, or the day before and
\* goes on past midnight, contains it, and the day it began is a day of the rule.
Holds(rule, time) ==
  LET before == time.day # 1
      day(o) == [time EXCEPT !.day = IF before THEN @ - o ELSE IF o = 0 THEN @ ELSE MonthLength(time.year, time.month - 1),
                             !.month = IF before \/ o = 0 THEN @ ELSE @ - 1]
      key(d, like) == (IF like.year = 0 THEN 0 ELSE 10000 * d.year) + 100 * d.month + d.day
      last(r) == IF r.to = AnyDate THEN r.from ELSE r.to
  IN \E o \in {0, 1} :
       /\ IF rule.times = << >> THEN o = 0
          ELSE \E i \in DOMAIN rule.times :
                 time.minutes + 1440 * o \in rule.times[i].from..(rule.times[i].to - 1)
       /\ rule.weekdays = << >> \/ \E i \in DOMAIN rule.weekdays :
            LET w == rule.weekdays[i] IN (time.wday - o - w[1]) % 7 <= (w[2] - w[1]) % 7
       /\ rule.monthdays = << >> \/ \E i \in DOMAIN rule.monthdays :
            LET r == rule.monthdays[i]
            IN key(r.from, r.from) <= key(day(o), r.from) /\ key(day(o), r.from) <= key(last(r), r.from)

RestrictedNow(condition, time) ==
  LET rules == OpeningHoursOf[condition]
      deciding == {i \in DOMAIN rules : rules[i].modifier = "24/7" \/ Holds(rules[i], time)}
  IN deciding # {} /\ (rules[Max(deciding)].modifier = "open"
                        \/ \E i \in DOMAIN rules : rules[i].modifier = "24/7")

\* The penalties a turn may have: of the row that counts for it, and none other
\* than the one for forbidden turns while a condition on it holds.
ExpectedPenalties(k) ==
  LET f == update.original
      osm == [i \in 1..3 |-> f.ids[f.turn_index[k][i]]]
      rows == Counting(update.config.turns, osm)
      plain == IF rows = {} THEN {f.penalties[k]} ELSE {NewPenalty(r.value) : r \in rows}
      conditions == {f.conditionals[i].condition : i \in {j \in DOMAIN f.conditionals : f.conditionals[j].turn = k}}
      zones == update.config.tz_file.features
      times == {zones[i].time : i \in {j \in DOMAIN zones : zones[j].polygon /\ osm[2] \in zones[j].nodes}}
      now == {c \in conditions : \E time \in times : RestrictedNow(c, time)}
      maybe == \A c \in conditions : \E time \in times : ~RestrictedNow(c, time)
      forbidden == {[p EXCEPT !.weight = INVALID_TURN_PENALTY] : p \in plain}
  IN IF update.config.valid_now = 0 \/ now = {} THEN plain
     ELSE IF maybe THEN plain \cup forbidden ELSE forbidden

\* Whether an update changes a geometry or a turn out of it.
Touched(g) ==
  \/ \E k \in 1..(Len(Route(g)) - 1) : Route(g)[k] # Route(g)[k + 1]
                                       /\ Counting(update.config.speeds, <<Route(g)[k], Route(g)[k + 1]>>) # {}
  \/ \E k \in DOMAIN files.edges :
       /\ files.geometry[files.edges[k].source] = g
       /\ \/ Counting(update.config.turns, [i \in 1..3 |-> files.ids[files.turn_index[k][i]]]) # {}
          \/ update.penalties[k].weight = INVALID_TURN_PENALTY

\* The graph that is used next: an edge weighs its segments and its turn, at
\* least one for every node; a segment that is closed closes the edge; nodes
\* weigh their segments and keep their one-way mark.
EdgesExact ==
  LET c == update.segment_data
      closed(g) == \E k \in 1..(Len(Route(g)) - 1) : SegmentAt(c, g, k).weight = INVALID_SEGMENT
      sum(g) == Total(GetWeights(c, g))
      same(k) == update.edges[k] = files.edges[k] /\ update.penalties[k] \in ExpectedPenalties(k)
      changed(k, g) ==
        LET e == update.edges[k]
        IN IF closed(g) THEN e.weight = INVALID_EDGE_WEIGHT /\ update.penalties[k] \in ExpectedPenalties(k)
           ELSE \E p \in ExpectedPenalties(k) :
                  /\ e.weight = Max({sum(g) + p.weight, Len(Route(g))})
                  /\ e.duration = Total(GetDurations(c, g)) + p.duration
                  /\ update.penalties[k].weight = IF p.weight < 0 THEN e.weight - sum(g) ELSE p.weight
      node(a) ==
        LET g == files.geometry[a]
        IN IF Touched(g) /\ \E k \in DOMAIN files.edges : files.edges[k].source = a
           THEN update.nodes[a] = [oneway |-> files.nodes[a].oneway, duration |-> Total(GetDurations(c, g)),
                                   weight |-> IF closed(g) THEN INVALID_EDGE_WEIGHT ELSE sum(g)]
           ELSE update.nodes[a] = files.nodes[a]
  IN /\ \A k \in DOMAIN files.edges :
          LET g == files.geometry[files.edges[k].source] IN IF Touched(g) THEN changed(k, g) ELSE same(k)
     /\ \A a \in DOMAIN files.nodes : node(a)

\* What an update leaves on disk: after an error nothing new but segments that
\* are all updated, after which a second attempt gives what the first would
\* have; after a success the segments, penalties and names that belong together.
FilesExact ==
  LET f == update.original
      c == update.config
      unwritten == [f EXCEPT !.segment_data = files.segment_data]
  IN /\ update.pc = "failed" =>
          files = unwritten /\ (files.segment_data = f.segment_data \/ SegmentsExact(files.segment_data))
     /\ update.pc = "done" =>
          /\ files.segment_data = update.segment_data
          /\ files.penalties = IF c.turns = << >> /\ c.valid_now = 0 THEN f.penalties ELSE update.penalties
          /\ files = [unwritten EXCEPT !.penalties = files.penalties, !.names = files.names]
          /\ \A g \in AllGeometries : \A k \in 1..(Len(Route(g)) - 1) :
               LET source == SegmentAt(files.segment_data, g, k).source
               IN source # 0 => files.names[source + 1] = c.speeds[source].name

\* Updater::LoadAndUpdateEdgeExpandedGraph does what its CSV files and the time
\* say, whatever the order in which its threads change segments and edges, and
\* whether or not an earlier attempt failed half way.
UpdateExact ==
  "pc" \in DOMAIN update =>
    /\ update.pc = "turns" => SegmentsExact(update.segment_data)
    /\ update.pc = "done" => SegmentsExact(update.segment_data) /\ EdgesExact
    /\ Ended(update.pc) => FilesExact
=============================================================================
