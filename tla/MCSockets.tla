----------------------------- MODULE MCSockets -----------------------------
EXTENDS Sockets, TLC

T(p, opts) == [proto |-> p, opts |-> opts]
MCTests == {T("tcp", {}), T("tcp", {"-m"}),
            T("tcp", {"-N", "-M", "-w", "-S", "-C", "-F", "--snd-timeout",
                      "-L", "-B", "--bind-dev"}),
            T("tcp", {"--bind-dev", "--cport"}),
            T("udp", {}), T("udp", {"-w", "-S", "-F"}),
            T("sctp", {"-X", "-w", "-N", "-M", "--nstreams", "-B"}),
            T("sctp", {"--bind-dev", "--cport"})}
\* what a Windows server can be asked for
WindowsTests == {T("tcp", {}), T("tcp", {"-w", "-N"})}
Numbers == Permutations(Fds)
MCServerOptions == {"--bind-dev"}
=============================================================================
