----------------------------- MODULE MCTcpProxy -----------------------------
EXTENDS TcpProxy

MCOptions == {{"u", "g", "webdav"}, {"ls", "r"}, {"l"}, {"l", "ls"}, {"lcrc"},
              {"webdav"}, {"cp", "few"}, {"ls", "u", "few"}, {"terminal", "console"}, {"help"}, {"bad"}, {}}
MCMessages == {<<"+", "$", "#">>, <<"x", "x">>}
=============================================================================
