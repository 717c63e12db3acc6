--------------------------- MODULE MCFileOutputs ---------------------------
EXTENDS FileOutputs

TwoPairs == {"a-b", "a-c"}
AllAndOne == {<<"csv", "dump", "excelize", "gochart">>, <<"csv">>}
PerTest  == {"start"}
PerRun   == {"start", "round", "pair"}
=============================================================================
