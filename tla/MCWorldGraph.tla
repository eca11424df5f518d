---------------------------- MODULE MCWorldGraph ----------------------------
EXTENDS WorldGraph

MCProcessId == {<<1, 1>>, <<1, 2>>, <<2, 1>>}
MCMixes == {{"process", "focus"}, {"process", "socket"}, {"process", "dns"}, {"file", "dns"}}
MCAsker == {1, None}
MCSymmetry == Permutations(App)
MCPpid(k) == 3 - k[1]
MCProgram(k) == k[1]
MCIsRoot(k) == k[1] = 1
MCRemote(s) == s
=============================================================================
