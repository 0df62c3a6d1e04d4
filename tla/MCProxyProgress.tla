--------------------------- MODULE MCProxyProgress ---------------------------
(* TLC instance of ProxyProgress. *)
EXTENDS ProxyProgress

OneNode(n) == [r \in 0..(n - 1) |-> 0]
TwoByTwo == [r \in 0..3 |-> r \div 2]
OneAndTwo == [r \in 0..2 |-> (r + 1) \div 2]

Program(nodeOf, ranks, groups) ==
  [nodeOf |-> nodeOf, scheduled |-> TRUE, ranks |-> ranks, groups |-> groups,
   eager |-> FALSE, mayFail |-> FALSE]

Ring == {<<0, 1>>, <<1, 2>>, <<2, 0>>}
AllToAll == {m \in (0..2) \X (0..2) : m[1] # m[2]}

MCPrograms ==
  { \* A rank among four: two groups share queues, and a transport fails.
    [Program(OneNode(4), {0},
             <<{<<0, 1>>, <<0, 2>>, <<3, 0>>}, {<<0, 2>>, <<0, 0>>, <<3, 0>>}>>)
       EXCEPT !.mayFail = TRUE],
    \* A rank of two nodes, with peers in both.
    [Program(TwoByTwo, {0}, <<{<<0, 1>>, <<0, 3>>, <<0, 2>>, <<2, 0>>, <<3, 0>>}>>)
       EXCEPT !.mayFail = TRUE],
    \* Ranks that wait for one another: in one node, in nodes of different
    \* sizes, with eager sends, without the schedule, in two groups.
    Program(OneNode(3), 0..2, <<AllToAll>>),
    Program(OneAndTwo, 0..2, <<{<<0, 1>>, <<1, 2>>, <<1, 0>>}>>),
    [Program(OneNode(3), 0..2, <<Ring>>) EXCEPT !.eager = TRUE],
    [Program(OneNode(3), 0..2, <<Ring>>) EXCEPT !.scheduled = FALSE],
    Program(OneNode(2), 0..1, <<{<<0, 1>>, <<1, 0>>}, {<<1, 0>>}>>) }
=============================================================================
