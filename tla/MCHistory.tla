------------------------------ MODULE MCHistory ------------------------------
(***************************************************************************)
(* Small claim histories for TLC, around the end of a leap February.       *)
(***************************************************************************)
EXTENDS ClaimHistory

Day(month, day) == [year |-> 2020, month |-> month, day |-> day]
On(date) == [kind |-> "date", value |-> date, uncertainty |-> None]
At(date, hour, zone) == [date |-> date, hour |-> hour, minute |-> -1, second |-> -1,
                         zone |-> zone]
Time(t) == [kind |-> "datetime", value |-> t, uncertainty |-> None]
Floating == [form |-> "floating", of |-> None]
Utc == [form |-> "offset", of |-> 0]
Named == [form |-> "iana", of |-> "spring"]

\* A zone one hour behind until 2020-03-01T02, which is followed by 04.
SpringChange == DateStart(Day(3, 1)) + 2 * 3600
SpringInstants(name, wall) ==
    CASE wall < SpringChange -> {wall + 3600}
      [] wall >= SpringChange + 2 * 3600 -> {wall - 3600}
      [] OTHER -> {}

Timeless == [kind |-> "timeless"]
FromSource == [kind |-> "from_source_time"]
Between(s, e) == [kind |-> "explicit", start |-> s, end |-> e]
From(p) == [kind |-> "inclusive", point |-> p]
Until(p) == [kind |-> "exclusive", point |-> p]

Offer(value, authority, sourcing, seq, time, valid) ==
    [slot |-> "s", value |-> value, authority |-> authority, sourcing |-> sourcing,
     sourceSeq |-> seq, sourceTime |-> time, valid |-> valid,
     supersession |-> "by_source_order"]

\* Revisions of one supplier (the first in force for a while), a user's earlier word and a vague notice.
SlotOffers == {
    Offer("v", 2, "supplier", 1, None,
          Between(From(Time(At(Day(2, 27), 12, Named))), Until(Time(At(Day(3, 1), 4, Named))))),
    Offer("w", 2, "supplier", 2, On(Day(2, 28)), FromSource),
    Offer("w", 4, "user", None, On(Day(2, 26)), Timeless),
    Offer("v", 2, "supplier", None,
          [kind |-> "date", value |-> Day(2, 0),
           uncertainty |-> [earliest |-> At(Day(2, 28), 0, Floating),
                            latest |-> At(Day(2, 29), 1, Floating)]], FromSource) }

\* Two revisions of a supplier, dated against their order, and a notice without a
\* revision dated between them.
CircularOffers == {
    Offer("v", 2, "supplier", 1, On(Day(2, 28)), Timeless),
    Offer("v", 2, "supplier", 2, On(Day(2, 26)), Timeless),
    Offer("w", 2, "supplier", None, On(Day(2, 27)), Timeless) }

Instant(p) == [kind |-> "instant", point |-> p]

BoundsAsked == {
    Instant(On(Day(2, 29))),
    Instant(Time(At(Day(2, 27), 12, Utc))) }

=============================================================================
