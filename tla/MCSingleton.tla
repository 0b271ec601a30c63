---------------------------- MODULE MCSingleton ----------------------------
EXTENDS Singleton, TLC

RunSymmetry == Permutations(Launchers) \cup Permutations(Supers)

AllVerbs == {"up", "restart", "stop"}
=============================================================================
