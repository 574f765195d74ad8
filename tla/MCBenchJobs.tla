---------------------------- MODULE MCBenchJobs ----------------------------
(* An instance of BenchJobs for TLC: two channels on two LOs whose ORx     *)
(* inputs share a converter, two frequencies in one MHz, so that rows      *)
(* share names and files, rows out of order, rows that change the LO and   *)
(* not the frequency, surveys of two frequencies in one MHz and of two     *)
(* signals of one bandwidth and one stem, a waveform of another length,    *)
(* and sweeps with zip and grid blocks, a shared power under a band's own, *)
(* an LO left alone, signals of two lengths, a band without a signal, and  *)
(* no block at all.                                                        *)
EXTENDS BenchJobs

Pair(x, y) == [t \in Tx |-> IF t = "TX1" THEN x ELSE y]
MCLoOf == Pair("LO1", "LO2")
MCTxOrder == <<"TX1", "TX3">>
MCLoOrder == <<"LO1", "LO2">>
MCOrxOf == Pair(4, 5)
MCRxInit == {0, 1, 2, 3, 4, 5, 6, 7, 8, 9}
MCStemOf == [w \in Waves |-> IF w = "short" THEN "s" ELSE "w"]
MCLengthOf == [w \in Waves |-> IF w = "short" THEN 1 ELSE 2]

Of(t, f, k, a, g, u) ==
  [tx |-> t, freq |-> f, bw |-> 1, backoff |-> k, level |-> a, gain |-> g, ref |-> "x", u |-> u,
   array |-> k = 0]

MCSaved == [n \in Rows |->
  CASE n = "r0" -> Of("TX1", 2, 0, 1, 2, "x")
    [] n = "r1" -> Of("TX1", 2, 1, 2, 2, "x")
    [] n = "r2" -> Of("TX1", 3, 0, 1, 1, "u")
    [] n = "r3" -> Of("TX3", 3, 0, 2, 1, "u")
    [] n = "r4" -> Of("TX3", 2, 1, 1, 1, "short")]
MCReplays == {<<"r2", "r1", "r0">>, <<"r3", "r4">>}
MCLabels == <<"input", "dpd">>

(* In the second, the row on the other LO is at the frequency of the first.*)
MCCommands == {<<"r0", "r3">>, <<"r1", "r4">>}

Sig(b, w) == [bw |-> b, wave |-> w]
MCSurveys == {[tx |-> "TX3", signals |-> <<Sig(1, "x")>>, freqs |-> <<2, 3>>,
               backoffs |-> <<0>>],
              [tx |-> "TX3", signals |-> <<Sig(2, "x")>>, freqs |-> <<3>>,
               backoffs |-> <<0, 1>>],
              [tx |-> "TX1", signals |-> <<Sig(1, "u"), Sig(1, "x")>>, freqs |-> <<2>>,
               backoffs |-> <<0>>]}

On(k, which, vs) == [key |-> <<k, which>>, values |-> vs]
Own(s) == [power |-> Pair(2, 2), signal |-> Pair("x", s)]
MCConfig == [lo |-> [l \in Los |-> 2], power |-> Pair(1, 2)]
FirstLoOnly == [lo |-> [l \in {"LO1"} |-> 2], power |-> [t \in {"TX1"} |-> 1],
                signal |-> [t \in {"TX3"} |-> "x"]]
MCSweeps ==
  <<[blocks |-> <<[mode |-> "zip", axes |-> <<On("lo", "LO1", <<2, 3>>), On("lo", "LO2", <<3, 2>>)>>],
                 [mode |-> "grid", axes |-> <<On("power", "shared", <<2>>),
                                              On("power", "TX3", <<2, 1>>)>>]>>,
    given |-> DefaultsFromConfig(MCConfig, Own("u")), own |-> Own("u")],
   [blocks |-> <<[mode |-> "grid", axes |-> <<On("lo", "LO1", <<3>>)>>],
                 [mode |-> "grid", axes |-> <<On("signal", "TX1", <<"x", "u">>)>>]>>,
    given |-> FirstLoOnly, own |-> Own("u")],
   [blocks |-> <<[mode |-> "grid", axes |-> <<On("signal", "TX1", <<"u", "short">>)>>]>>,
    given |-> DefaultsFromConfig(MCConfig, Own("x")), own |-> Own("x")],
   [blocks |-> <<>>, given |-> [DefaultsFromConfig(MCConfig, Own("x")) EXCEPT !.signal = Nothing],
    own |-> [power |-> Pair(1, 2), signal |-> Nothing]]>>
=============================================================================
