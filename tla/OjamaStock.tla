------------------------------ MODULE OjamaStock ------------------------------
(* The ojama stock of a player, as PuzzleStatusLayer keeps it: one number for each *)
(* column of the grid (ojamaPieces_[i].count), shown as a row of icons.  A column   *)
(* is given half of what is left, so a stock is not a plain counter.                *)
EXTENDS Integers, Sequences

\* How many ojama the first columns hold.
UpTo(stock) ==
    LET sum[i \in 0..Len(stock)] == IF i = 0 THEN 0 ELSE sum[i - 1] + stock[i]
    IN  sum

Total(stock) == UpTo(stock)[Len(stock)]

\* updateOjama with a positive count: each column gets half of what is left of
\* count + 1, rounded down.
Left(stock, count) ==
    LET left[i \in 0..Len(stock)] == IF i = 0 THEN count + 1 ELSE left[i - 1] \div 2
    IN  left

Increase(stock, count) == [i \in DOMAIN stock |-> stock[i] + Left(stock, count)[i]]

\* (int)(count / 2), which rounds towards zero.
Half(count) == IF count < 0 THEN -((-count) \div 2) ELSE count \div 2

\* A plausible slip in ReduceColumn: a column is not kept from falling below zero.
ReduceColumnUnclamped(done, i) ==
    LET count == Half(done.count) - done.remaining
        left == done.stock[i] + count
    IN  IF done.stock[i] = 0 THEN done
        ELSE [count |-> count,
              remaining |-> IF left < 0 THEN -left ELSE 0,
              stock |-> [done.stock EXCEPT ![i] = left]]

\* One column of updateOjama with a negative count: what the column lacks is asked of
\* the next one.
ReduceColumn(done, i) ==
    LET count == Half(done.count) - done.remaining
        left == done.stock[i] + count
    IN  IF done.stock[i] = 0 THEN done
        ELSE [count |-> count,
              remaining |-> IF left < 0 THEN -left ELSE 0,
              stock |-> [done.stock EXCEPT ![i] = IF left < 0 THEN 0 ELSE left]]

\* updateOjama with a negative count, from the last column to the first.
Reduced(stock, count) ==
    LET n == Len(stock)
        done[i \in 0..n] ==
            IF i = 0 THEN [count |-> count - 1, remaining |-> 0, stock |-> stock]
            ELSE ReduceColumn(done[i - 1], n + 1 - i)
    IN  done

Reduce(stock, count) == Reduced(stock, count)[Len(stock)].stock

UpdateOjama(stock, count) ==
    IF count < 0 THEN Reduce(stock, count) ELSE Increase(stock, count)

\* fallOjamaPieces takes n ojama from the stock, the first columns first: what the
\* columns up to i hold beyond n is all that column i can keep.
Take(stock, n) ==
    LET kept(i) == IF UpTo(stock)[i] > n THEN UpTo(stock)[i] - n ELSE 0
    IN  [i \in DOMAIN stock |-> IF kept(i) < stock[i] THEN kept(i) ELSE stock[i]]
================================================================================
