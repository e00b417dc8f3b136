-------------------------- MODULE MCInitInterpreter --------------------------
(***************************************************************************)
(* Small configurations for init.  Two or three pids, two terminals.       *)
(***************************************************************************)
EXTENDS InitInterpreter

tty1 == <<"/dev/tty1">>
tty2 == <<"/dev/tty2">>
MCTtys == {tty1, tty2}

text  == <<"$", "TTY_", "TEXT_MODE">>
gfx   == <<"$", "TTY_", "GFX_MODE">>
clear == <<"$", "OPT_CLEAR">>
sh    == <<"/usr/bin/bash">>

env_(name, value)  == << <<"en", "v">>, <<name>>, <<value>> >>
enable_(option)    == << <<"en", "able">>, option >>
tty_(path, mode)   == << <<"tty">>, path, mode, sh >>

\* The shape of sysroot/boot/initcfg: variables, the option, the terminals.
Boot == << env_("TERM", "linux"), enable_(clear), tty_(tty1, text), tty_(tty2, gfx) >>

\* The option and a second value of a variable come between two terminals.
Late == << env_("TERM", "linux"), tty_(tty1, gfx), env_("TERM", "vt100"),
           enable_(clear), tty_(tty2, text) >>

\* The same terminal twice.
Shared == << tty_(tty1, text), tty_(tty1, gfx) >>

\* Names that are prefixes of table entries, and a bare "$".
Abbreviated == << << <<"en">>, <<"A">>, <<"b">> >>,
                  << <<"tty">>, tty1, <<"$">>, sh >>,
                  enable_(<<"$", "TTY_", "GFX_MODE">>),
                  tty_(tty2, <<"$", "TTY_">>) >>

\* A path that is no terminal, next to one that is.
File == << tty_(<<"/boot/initcfg">>, gfx), tty_(tty2, text) >>

\* Lines that are refused after a terminal is already waiting.
BadName  == << tty_(tty1, text), << <<"halt">> >> >>
BadMode  == << tty_(tty1, text), << <<"tty">>, tty2, <<"1">>, sh >> >>
BadArity == << tty_(tty1, text), << <<"en", "able">> >>, tty_(tty2, text) >>

\* More tty lines than slots.
Three == << tty_(tty1, text), tty_(tty2, text), tty_(tty1, gfx) >>

\* Four lines on two terminals: more lines than slots, more slots than terminals.
Four == Three \o << tty_(tty2, gfx) >>

MCConfigs == {Boot, Late, Shared, Abbreviated, File, BadName, BadMode, BadArity, Three}
MCErrors  == {BadName, BadMode}
MCOverrun == {Four}
=============================================================================
