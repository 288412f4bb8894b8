----------------------------- MODULE ActivityList -----------------------------
(***************************************************************************)
(* frame/pages/WalletPage/Activity: the history that the hub returns, as   *)
(* rows of a table.  Neighbouring tips to the same stream on the same day  *)
(* make one row, which a click unfolds; anything else that is not a fee    *)
(* and moves an amount makes a row of its own.  Two folds, one inside the  *)
(* other, do the grouping, on lists that they change in place.             *)
(***************************************************************************)
EXTENDS Integers, SequencesExt

CONSTANTS Items,      \* history items, without their date: [type, key, incoming, wei, token]
          MaxHistory  \* bound on the length of a history

VARIABLES history,    \* what the shared state holds
          isLoading, error,
          detailRows  \* the numbers of the rows that are unfolded

activityVars == <<history, isLoading, error, detailRows>>

NoDate == 0

\* The item at place i was created at i; key stands for the stream and the day.
ItemAt(i, kind) == [type |-> kind.type, key |-> kind.key, incoming |-> kind.incoming,
                    wei |-> kind.wei, token |-> kind.token, createdAt |-> i]
Histories == UNION {{[i \in 1 .. n |-> ItemAt(i, kinds[i])] : kinds \in [1 .. n -> Items]}
                      : n \in 0 .. MaxHistory}

------------------------------------------------------------------------------
(* Grouping *)

IsTip(item) == item.type = "TIP"

\* entryFor(): a tip opens a list of tips.
EntryFor(item) == [tips |-> IsTip(item), items |-> <<item>>]

\* The last entry of acc with an item more.
Push(acc, item) == [acc EXCEPT ![Len(acc)].items = Append(@, item)]

ReduceByTipOrPurchase(acc, curr) ==
  CASE (curr.wei = 0 /\ curr.token = 0) \/ curr.type = "FEE" -> acc
    [] OTHER -> IF acc # << >> /\ Last(acc).tips /\ IsTip(curr)
                  THEN Push(acc, curr)
                  ELSE Append(acc, EntryFor(curr))

NewGroup(item, endDate) == [startDate |-> item.createdAt, endDate |-> endDate,
                            groupKey |-> item.key, items |-> <<item>>]

\* Seeded fault: a group that is followed by another keeps no end.
LeaveOpen(acc) == acc

\* The last group ends with its last item.
Close(acc) == [acc EXCEPT ![Len(acc)].endDate = Last(Last(acc).items).createdAt]

\* reduceByTipStream(), for the i-th of all tips of a list.  A list of one tip gets no
\* end.
ReduceByTipStream(acc, i, all) ==
  LET curr == all[i]
      isLast == i = Len(all)
  IN  CASE acc = << >> -> <<NewGroup(curr, NoDate)>>
        [] acc # << >> /\ Last(acc).groupKey = curr.key ->
             [Push(acc, curr) EXCEPT ![Len(acc)].endDate = IF isLast THEN curr.createdAt ELSE @]
        [] OTHER -> Append(Close(acc), NewGroup(curr, IF isLast THEN curr.createdAt ELSE NoDate))

GroupTips(all) == FoldLeftDomain(LAMBDA acc, i : ReduceByTipStream(acc, i, all), << >>, all)

\* The rows of render().
Rows(items) ==
  FoldLeft(LAMBDA acc, entry : acc \o (IF entry.tips THEN GroupTips(entry.items) ELSE entry.items),
           << >>, FoldLeft(ReduceByTipOrPurchase, << >>, items))

IsGroup(row) == "items" \in DOMAIN row

\* renderGroup(): the signed sum of the ether, and of the tokens of the items that
\* move no ether.
Total(group) ==
  FoldLeft(LAMBDA sum, item :
             LET sign == IF IsTip(item) /\ item.incoming THEN 1 ELSE -1
             IN  IF item.wei > 0 THEN [sum EXCEPT !.wei = @ + sign * item.wei]
                                 ELSE [sum EXCEPT !.token = @ + sign * item.token],
           [wei |-> 0, token |-> 0], group.items)

------------------------------------------------------------------------------
(* The component *)

ActivityInit == /\ history \in Histories
                /\ isLoading = FALSE /\ error = "" /\ detailRows = {}

\* componentDidMount(), as far as the await.
FetchHistory == /\ ~isLoading
                /\ isLoading' = TRUE /\ error' = "" /\ detailRows' = {}
                /\ UNCHANGED history

\* A broadcast brings what the worker has fetched: an item more.
HearHistory == /\ isLoading
               /\ Len(history) < MaxHistory
               /\ \E item \in Items :
                    history' = Append(history, ItemAt(Len(history) + 1, item))
               /\ UNCHANGED <<isLoading, error, detailRows>>

FetchEnds == /\ isLoading
             /\ isLoading' = FALSE
             /\ error' \in {"", "Couldn't fetch history."}
             /\ UNCHANGED <<history, detailRows>>

\* Rows are unfolded by their number, whatever comes to stand there.
ToggleDetails(i) == /\ i \in DOMAIN Rows(history) /\ IsGroup(Rows(history)[i])
                    /\ detailRows' = IF i \in detailRows THEN detailRows \ {i}
                                                         ELSE detailRows \cup {i}
                    /\ UNCHANGED <<history, isLoading, error>>

ActivityNext == \/ FetchHistory
                \/ HearHistory
                \/ FetchEnds
                \/ \E i \in 1 .. MaxHistory : ToggleDetails(i)

------------------------------------------------------------------------------
(* Properties *)

ActivityTypeOK == /\ Len(history) <= MaxHistory
                  /\ isLoading \in BOOLEAN
                  /\ error \in {"", "Couldn't fetch history."}
                  /\ detailRows \subseteq 1 .. MaxHistory

EtherOf(items) ==
  FoldLeft(LAMBDA sum, item : sum + (IF item.incoming THEN item.wei ELSE -item.wei), 0, items)

ItemsOf(row) == IF IsGroup(row) THEN row.items ELSE <<row>>
ItemLists(rows) == [i \in DOMAIN rows |-> ItemsOf(rows[i])]

Moving(item) == item.type # "FEE" /\ item.wei + item.token > 0

AllOf(lists) == UNION {{lists[i][k] : k \in DOMAIN lists[i]} : i \in DOMAIN lists}

\* Items were created one after the other, so each of them is there once.
InOrder(lists) ==
  \A i, j \in DOMAIN lists :
    \A k \in DOMAIN lists[i], l \in DOMAIN lists[j] :
      i < j \/ (i = j /\ k < l) => lists[i][k].createdAt < lists[j][l].createdAt

\* Row i and the row before it are groups.
Follows(rows, i) == i > 1 /\ IsGroup(rows[i]) /\ IsGroup(rows[i - 1])

\* A group stands for tips with one key, as many as there are next to each other, from the
\* first one to the last, unless it is a single tip between items that are no tips, whose
\* end is left open; and the ether of its total is that of its items.
GroupIsTrue(rows, i) ==
  LET items == rows[i].items
  IN  /\ \A k \in DOMAIN items : IsTip(items[k]) /\ items[k].key = rows[i].groupKey
      /\ Follows(rows, i) => rows[i - 1].groupKey # rows[i].groupKey
      /\ rows[i].startDate = items[1].createdAt
      /\ \/ rows[i].endDate = Last(items).createdAt
         \/ /\ rows[i].endDate = NoDate /\ Len(items) = 1
            /\ ~Follows(rows, i)
            /\ i < Len(rows) => ~Follows(rows, i + 1)
      /\ Total(rows[i]).wei = EtherOf(items)

\* The rows show every item that moves an amount and is no fee, once and in order; a tip
\* is in a group, and the groups say what is in them.
HistoryIsWhole ==
  LET rows  == Rows(history)
      lists == ItemLists(rows)
  IN  /\ AllOf(lists) = {history[k] : k \in {n \in DOMAIN history : Moving(history[n])}}
      /\ InOrder(lists)
      /\ \A i \in DOMAIN rows : IF IsGroup(rows[i]) THEN GroupIsTrue(rows, i) ELSE ~IsTip(rows[i])
=============================================================================
